---------------------------- MODULE CountProofs ----------------------------
(***************************************************************************)
(* Every open slot of 3.epoll_clicnt has a socket of its own, and before   *)
(* the loop waits again its page shows the count and the canvas, for any   *)
(* number of slots, connections and descriptors and whatever goes wrong;   *)
(* and where nothing does, the count is right and the thread that saves    *)
(* keeps its descriptor.                                                   *)
(*                                                                         *)
(* A client that was refused leaves an active slot behind, whose number    *)
(* comes back with another client.  From then on two active slots have     *)
(* that number, and events, handshakes and closes all go to the first of   *)
(* the two: FirstOwns says that an open slot is the first with its number, *)
(* CurrentFirst that the slot of the event being handled is.               *)
(*                                                                         *)
(* No number is closed twice unless a send fails, a connection is reset or *)
(* epoll_ctl fails: Gentle says why, from the events of a batch (Expected) *)
(* to the place of the handler (InHand).  Or a close frame is processed    *)
(* after another one: Orderly says why a buffer holds one at most.         *)
(***************************************************************************)
EXTENDS CountServer, SequenceTheorems, FiniteSetTheorems, WellFoundedInduction, TLAPS

(* Where the event thread is, or will be after the broadcast under way.    *)
Place == IF pc \in {"lock", "send", "log", "logging"} THEN call.ret ELSE pc
Handling == Place \in {"handshake", "refuse", "initial", "recv", "frames", "sweep"}

Fields == {"fd", "active", "done"}
SlotShapes == /\ DOMAIN slots = Slots
              /\ \A i \in Slots : Fields \subseteq DOMAIN slots[i]
              /\ \A i \in Slots : slots[i].active => slots[i].fd \in Fds
Shapes == /\ fds \in [Fds -> Conns \cup {Closed, TmpFile}]
          /\ backlog \in Seq(Conns)
          /\ {"ret", "at"} \subseteq DOMAIN call
          /\ SlotShapes

Active == {i \in Slots : slots[i].active}

FirstOwns == \A i \in Open : /\ fds[slots[i].fd] \in Conns
                             /\ \A j \in Active : slots[j].fd = slots[i].fd => i <= j

CurrentFirst == Handling => /\ cur \in Slots /\ slots[cur].fd \in Fds
                            /\ \A j \in Active : slots[j].fd = slots[cur].fd => cur <= j
                            /\ slots[cur].active \/ fds[slots[cur].fd] \notin Conns
                            /\ Place \in {"handshake", "refuse"} => ~slots[cur].done

IInv == Shapes /\ FirstOwns /\ CurrentFirst

-----------------------------------------------------------------------------
LEMMA Names == /\ Closed \notin Conns /\ TmpFile \notin Conns
               /\ Fds \subseteq Nat /\ 0 \notin Fds /\ Slots \subseteq Nat
BY SocketsAssumption, CountServerAssumption DEF Slots

LEMMA Minimum ==
  ASSUME NEW S \in SUBSET Nat, S # {}
  PROVE  \E i \in S : \A j \in S : i <= j
<1>1. PICK i \in S : \A j \in S : <<j, i>> \notin OpToRel(<, Nat)
  BY WFMin, NatLessThanWellFounded
<1>2. \A j \in S : ~(j < i)
  BY <1>1 DEF OpToRel
<1>3. \A j \in S : i <= j
  BY <1>2
<1> QED BY <1>3

LEMMA LeastIn ==
  ASSUME NEW S \in SUBSET Slots, S # {}
  PROVE  Least(S) \in S /\ \A j \in S : Least(S) <= j
BY Names, Minimum DEF Least

LEMMA LowestIn == ASSUME Available # {} PROVE Lowest \in Fds /\ fds[Lowest] = Closed
<1>1. Available \in SUBSET Nat
  BY Names DEF Available
<1>2. Lowest \in Available
  BY <1>1, Minimum DEF Lowest
<1> QED BY <1>2 DEF Available

LEMMA OwnsSockets == ASSUME IInv PROVE SlotsOwnSockets
<1>1. \A i \in Open : i \in Active
  BY DEF Open, Active
<1>2. ASSUME NEW i \in Open, NEW j \in Open, slots[i].fd = slots[j].fd PROVE i = j
  <2>1. i \in Nat /\ j \in Nat
    BY Names DEF Open
  <2>2. i <= j /\ j <= i
    BY <1>1, <1>2 DEF IInv, FirstOwns
  <2> QED BY <2>1, <2>2
<1> QED BY <1>2 DEF IInv, FirstOwns, SlotsOwnSockets, ConnOf

LEMMA InitIInv == Init => IInv
<1> SUFFICES ASSUME Init PROVE IInv
  OBVIOUS
<1>1. backlog \in Seq(Conns)
  BY EmptySeq DEF Init, setup_server, NetInit
<1>2. fds = [f \in Fds |-> Closed] /\ slots = [i \in Slots |-> Free] /\ pc = "wait" /\ call = NoCall
  BY DEF Init, setup_server, NetInit
<1>3. Shapes
  BY <1>1, <1>2 DEF Shapes, SlotShapes, Fields, Free, NoCall
<1>4. Open = {} /\ ~Handling
  BY <1>2 DEF Open, Handling, Place, Free
<1> QED BY <1>3, <1>4 DEF IInv, FirstOwns, CurrentFirst

-----------------------------------------------------------------------------
(* Slots may be given back and descriptors closed, but not those of slots  *)
(* that stay open.                                                         *)
OnlyFewer == /\ SlotShapes'
             /\ \A i \in Slots : /\ slots'[i].fd = slots[i].fd
                                 /\ slots'[i].active => slots[i].active
                                 /\ slots'[i].active /\ slots'[i].done =>
                                      slots[i].done /\ fds'[slots[i].fd] = fds[slots[i].fd]
             /\ fds' \in [Fds -> Conns \cup {Closed, TmpFile}]
             /\ \A f \in Fds : fds'[f] \in {fds[f], Closed}

LEMMA FewerKeeps ==
  ASSUME IInv, OnlyFewer, UNCHANGED cur, backlog' \in Seq(Conns),
         {"ret", "at"} \subseteq DOMAIN call',
         Handling' => Handling,
         Handling' => slots'[cur].active \/ ~slots[cur].active \/ fds'[slots[cur].fd] = Closed,
         Handling' /\ Place' \in {"handshake", "refuse"} => ~slots'[cur].done
  PROVE  IInv'
<1>1. Shapes'
  <2>1. SlotShapes' /\ fds' \in [Fds -> Conns \cup {Closed, TmpFile}]
    BY DEF OnlyFewer
  <2> QED BY <2>1 DEF Shapes
<1>2. Active' \subseteq Active /\ Open' \subseteq Open
  BY DEF OnlyFewer, Active, Open
<1>3. FirstOwns'
  <2> SUFFICES ASSUME NEW i \in Open'
               PROVE  /\ fds'[slots'[i].fd] \in Conns
                      /\ \A j \in Active' : slots'[j].fd = slots'[i].fd => i <= j
    BY DEF FirstOwns
  <2>1. i \in Open /\ i \in Slots /\ slots'[i].fd = slots[i].fd /\ fds'[slots[i].fd] = fds[slots[i].fd]
    BY <1>2 DEF OnlyFewer, Open
  <2>2. \A j \in Active' : j \in Active /\ slots'[j].fd = slots[j].fd
    BY <1>2 DEF OnlyFewer, Active
  <2> QED BY <2>1, <2>2 DEF IInv, FirstOwns
<1>4. CurrentFirst'
  <2> SUFFICES ASSUME Handling'
               PROVE  /\ cur \in Slots /\ slots'[cur].fd \in Fds
                      /\ \A j \in Active' : slots'[j].fd = slots'[cur].fd => cur <= j
                      /\ slots'[cur].active \/ fds'[slots'[cur].fd] \notin Conns
                      /\ Place' \in {"handshake", "refuse"} => ~slots'[cur].done
    BY DEF CurrentFirst
  <2>1. /\ cur \in Slots /\ slots[cur].fd \in Fds
        /\ \A j \in Active : slots[j].fd = slots[cur].fd => cur <= j
        /\ slots[cur].active \/ fds[slots[cur].fd] \notin Conns
    BY DEF IInv, CurrentFirst
  <2>2. slots'[cur].fd = slots[cur].fd /\ fds'[slots[cur].fd] \in {fds[slots[cur].fd], Closed}
    BY <2>1 DEF OnlyFewer
  <2>3. \A j \in Active' : j \in Active /\ slots'[j].fd = slots[j].fd
    BY <1>2 DEF OnlyFewer, Active
  <2> QED BY <2>1, <2>2, <2>3, Names
<1> QED BY <1>1, <1>3, <1>4 DEF IInv

(* Steps that leave slots and descriptors alone.                           *)
LEMMA SameSlots ==
  ASSUME IInv, UNCHANGED <<fds, slots>>, backlog' \in Seq(Conns),
         {"ret", "at"} \subseteq DOMAIN call',
         Handling' => /\ Handling /\ UNCHANGED cur
                      /\ Place' \in {"handshake", "refuse"} => Place \in {"handshake", "refuse"}
  PROVE  IInv'
<1>1. Shapes'
  BY DEF IInv, Shapes, SlotShapes
<1>2. Active' = Active /\ Open' = Open
  BY DEF Active, Open
<1>3. FirstOwns'
  BY <1>2 DEF IInv, FirstOwns
<1>4. CurrentFirst'
  BY <1>2 DEF IInv, CurrentFirst
<1> QED BY <1>1, <1>3, <1>4 DEF IInv

(* Slot i is given back and its descriptor closed, once more or not.       *)
LEMMA DroppedKeeps ==
  ASSUME IInv, NEW i \in Slots, slots[i].fd \in Fds,
         \A j \in Open : slots[j].fd = slots[i].fd => j = i,
         fds' = [fds EXCEPT ![slots[i].fd] = Closed],
         DOMAIN slots' = Slots, \A j \in Slots \ {i} : slots'[j] = slots[j],
         Fields \subseteq DOMAIN slots'[i], slots'[i].fd = slots[i].fd, ~slots'[i].active,
         UNCHANGED <<cur, backlog>>, {"ret", "at"} \subseteq DOMAIN call',
         Handling' => Handling /\ Place' \notin {"handshake", "refuse"}
  PROVE  IInv'
<1>1. /\ fds' \in [Fds -> Conns \cup {Closed, TmpFile}] /\ fds'[slots[i].fd] = Closed
      /\ \A g \in Fds \ {slots[i].fd} : fds'[g] = fds[g]
  BY DEF IInv, Shapes
<1>2. SlotShapes'
  BY DEF IInv, Shapes, SlotShapes
<1>3. \A j \in Slots \ {i} : slots'[j].active /\ slots'[j].done =>
         slots[j].fd \in Fds /\ slots[j].fd # slots[i].fd
  BY DEF IInv, Shapes, SlotShapes, Open
<1>4. OnlyFewer
  BY <1>1, <1>2, <1>3 DEF OnlyFewer
<1>5. Handling' => slots'[cur].active \/ ~slots[cur].active \/ fds'[slots[cur].fd] = Closed
  BY <1>1 DEF IInv, CurrentFirst
<1>6. backlog' \in Seq(Conns)
  BY DEF IInv, Shapes
<1> QED BY <1>4, <1>5, <1>6, FewerKeeps

(* The slot of the event being handled is the only one that can be open    *)
(* with its number.                                                        *)
LEMMA OnlyCurrent ==
  ASSUME IInv, Handling
  PROVE  /\ cur \in Slots /\ slots[cur].fd \in Fds
         /\ \A j \in Open : slots[j].fd = slots[cur].fd => j = cur /\ slots[cur].active
<1>1. /\ cur \in Slots /\ slots[cur].fd \in Fds
      /\ \A j \in Active : slots[j].fd = slots[cur].fd => cur <= j
      /\ slots[cur].active \/ fds[slots[cur].fd] \notin Conns
  BY DEF IInv, CurrentFirst
<1>2. ASSUME NEW j \in Open, slots[j].fd = slots[cur].fd
      PROVE  j = cur /\ slots[cur].active
  <2>1. j \in Active /\ fds[slots[j].fd] \in Conns
    BY DEF IInv, FirstOwns, Open, Active
  <2>2. slots[cur].active /\ cur \in Active
    BY <1>1, <1>2, <2>1 DEF Active
  <2>3. j <= cur /\ cur <= j
    BY <1>1, <1>2, <2>1, <2>2 DEF IInv, FirstOwns
  <2>4. j \in Nat /\ cur \in Nat
    BY <1>1, Names DEF Open
  <2> QED BY <2>2, <2>3, <2>4
<1> QED BY <1>1, <1>2

(* The client of the event is dropped and the count broadcast.             *)
LEMMA DropKeeps ==
  ASSUME IInv, Handling, NEW ret \in {"sweep", "frames", "next"}, Drop(cur, ret), UNCHANGED <<cur, backlog>>
  PROVE  IInv'
<1>1. /\ cur \in Slots /\ slots[cur].fd \in Fds
      /\ \A j \in Open : slots[j].fd = slots[cur].fd => j = cur
  BY OnlyCurrent
<1>2. /\ fds' = [fds EXCEPT ![slots[cur].fd] = Closed]
      /\ DOMAIN slots' = Slots /\ \A j \in Slots \ {cur} : slots'[j] = slots[j]
      /\ Fields \subseteq DOMAIN slots'[cur] /\ slots'[cur].fd = slots[cur].fd /\ ~slots'[cur].active
  BY <1>1 DEF Drop, CloseFd, IInv, Shapes, SlotShapes
<1>3. {"ret", "at"} \subseteq DOMAIN call' /\ Place' = ret
  BY DEF Drop, CallCount, NoCall, Place
<1> QED BY <1>1, <1>2, <1>3, DroppedKeeps

(* Its descriptor is closed, and its slot, which is not open, kept.        *)
LEMMA RefuseKeeps ==
  ASSUME IInv, Place \in {"handshake", "refuse"}, Refuse, UNCHANGED <<cur, backlog>>
  PROVE  IInv'
<1>1. /\ cur \in Slots /\ slots[cur].fd \in Fds /\ ~slots[cur].done
      /\ \A j \in Open : slots[j].fd = slots[cur].fd => j = cur
  BY OnlyCurrent DEF Handling, IInv, CurrentFirst
<1>2. /\ fds' \in [Fds -> Conns \cup {Closed, TmpFile}] /\ fds'[slots[cur].fd] = Closed
      /\ \A g \in Fds \ {slots[cur].fd} : fds'[g] = fds[g]
  BY <1>1 DEF Refuse, CloseFd, IInv, Shapes
<1>3. UNCHANGED slots
  BY DEF Refuse
<1>4. \A i \in Open : i \in Slots /\ slots[i].fd \in Fds /\ slots[i].fd # slots[cur].fd
  BY <1>1 DEF Open, IInv, Shapes, SlotShapes
<1>5. OnlyFewer
  BY <1>2, <1>3, <1>4 DEF OnlyFewer, IInv, Shapes, SlotShapes, Open
<1>6. {"ret", "at"} \subseteq DOMAIN call' /\ Place' = "sweep" /\ backlog' \in Seq(Conns)
  BY DEF Refuse, CallCount, NoCall, Place, IInv, Shapes
<1>7. Handling
  BY DEF Handling
<1> QED BY <1>2, <1>3, <1>5, <1>6, <1>7, FewerKeeps

LEMMA DispatchKeeps == ASSUME IInv, Dispatch PROVE IInv'
<1> DEFINE f == Head(batch).fd
<1>1. UNCHANGED <<backlog, slots, call>> /\ backlog' \in Seq(Conns) /\ {"ret", "at"} \subseteq DOMAIN call'
  BY DEF Dispatch, GoTo, IInv, Shapes, netVars
<1>2. CASE GoTo("accept") /\ UNCHANGED netVars
  BY <1>1, <1>2, SameSlots DEF GoTo, Handling, Place, netVars
<1>3. CASE Matching(f) = {} /\ CloseFd(f) /\ GoTo("next")
  <2>1. \A i \in Open : slots[i].fd # f /\ slots[i].fd \in Fds
    BY <1>3 DEF Matching, Open, IInv, Shapes, SlotShapes
  <2>2. /\ fds' \in [Fds -> Conns \cup {Closed, TmpFile}]
        /\ \A g \in Fds : fds'[g] = IF g = f THEN Closed ELSE fds[g]
    BY <1>3 DEF CloseFd, IInv, Shapes
  <2>3. Shapes'
    BY <1>1, <2>2 DEF IInv, Shapes, SlotShapes
  <2>4. ~Handling'
    BY <1>3 DEF Handling, Place, GoTo
  <2>5. Active' = Active /\ Open' = Open
    BY <1>1 DEF Active, Open
  <2>6. FirstOwns'
    BY <1>1, <2>1, <2>2, <2>5 DEF IInv, FirstOwns
  <2> QED BY <2>3, <2>4, <2>6 DEF IInv, CurrentFirst
<1>4. CASE /\ Matching(f) # {} /\ cur' = Least(Matching(f)) /\ UNCHANGED netVars
           /\ GoTo(IF ~Head(batch).in THEN "sweep" ELSE IF slots[cur'].done THEN "recv" ELSE "handshake")
  <2>1. cur' \in Matching(f) /\ \A j \in Matching(f) : cur' <= j
    BY <1>4, LeastIn DEF Matching
  <2>2. cur' \in Slots /\ slots[cur'].active /\ slots[cur'].fd = f /\ f \in Fds
    BY <2>1 DEF Matching, IInv, Shapes, SlotShapes
  <2>3. Place' \in {"handshake", "refuse"} => ~slots[cur'].done
    BY <1>4 DEF Place, GoTo
  <2>4. Active' = Active /\ Open' = Open /\ UNCHANGED fds
    BY <1>1, <1>4 DEF Active, Open, netVars
  <2>5. \A j \in Active : slots[j].fd = slots[cur'].fd => cur' <= j
    BY <2>1, <2>2 DEF Active, Matching
  <2>6. CurrentFirst'
    BY <1>1, <2>2, <2>3, <2>4, <2>5 DEF CurrentFirst
  <2>7. Shapes' /\ FirstOwns'
    BY <1>1, <2>4 DEF IInv, Shapes, SlotShapes, FirstOwns
  <2> QED BY <2>6, <2>7 DEF IInv
<1> QED BY <1>2, <1>3, <1>4 DEF Dispatch

(* A connection gets the first slot not active, and the lowest number.     *)
LEMMA AcceptKeeps == ASSUME IInv, Accept PROVE IInv'
<1> DEFINE c == Head(backlog)
           i == Least(Unused)
           Taken == [Free EXCEPT !.fd = Lowest, !.active = TRUE]
<1>1. ~Handling' /\ {"ret", "at"} \subseteq DOMAIN call'
  BY DEF Accept, Handling, Place, GoTo, CallCount, NoCall, IInv, Shapes
<1>2. c \in Conns /\ backlog' \in Seq(Conns)
  BY HeadTailProperties DEF Accept, IInv, Shapes
<1>3. Lowest \in Fds /\ fds[Lowest] = Closed
  BY LowestIn DEF Accept
<1>4. CASE UNCHANGED <<fds, slots>>
  BY <1>1, <1>2, <1>4, SameSlots
<1>5. CASE /\ Unused # {} /\ slots' = [slots EXCEPT ![i] = Taken]
           /\ fds' = [fds EXCEPT ![Lowest] = c] \/ UNCHANGED fds
  <2>1. i \in Slots /\ ~slots[i].active
    BY <1>5, LeastIn DEF Unused
  <2>2. /\ DOMAIN slots' = Slots /\ \A j \in Slots \ {i} : slots'[j] = slots[j] /\ slots'[i] = Taken
    BY <1>5, <2>1 DEF IInv, Shapes, SlotShapes
  <2>3. Fields \subseteq DOMAIN slots'[i] /\ slots'[i].active /\ slots'[i].fd = Lowest /\ ~slots'[i].done
    BY <1>5, <2>1 DEF Free, Fields, IInv, Shapes, SlotShapes
  <2>4. /\ fds' \in [Fds -> Conns \cup {Closed, TmpFile}]
        /\ \A g \in Fds \ {Lowest} : fds'[g] = fds[g]
    BY <1>2, <1>3, <1>5 DEF IInv, Shapes
  <2> HIDE DEF i, c, Taken
  <2>5. SlotShapes'
    BY <1>3, <1>5, <2>1, <2>2, <2>3 DEF IInv, Shapes, SlotShapes
  <2>6. Active' = Active \cup {i} /\ \A j \in Active : slots'[j].fd = slots[j].fd
    BY <1>5, <2>1, <2>2, <2>3 DEF Active, IInv, Shapes, SlotShapes
  <2>7. /\ \A j \in Open' : j \in Open /\ j \in Slots /\ slots'[j].fd = slots[j].fd
    BY <1>5, <2>1, <2>2, <2>3 DEF Open, IInv, Shapes, SlotShapes
  <2>8. \A j \in Open : slots[j].fd \in Fds /\ slots[j].fd # Lowest
    BY <1>3, Names DEF IInv, Shapes, SlotShapes, FirstOwns, Open
  <2>9. FirstOwns'
    <3> SUFFICES ASSUME NEW j \in Open'
                 PROVE  /\ fds'[slots'[j].fd] \in Conns
                        /\ \A k \in Active' : slots'[k].fd = slots'[j].fd => j <= k
      BY DEF FirstOwns
    <3>1. j \in Open /\ slots'[j].fd = slots[j].fd /\ slots[j].fd # Lowest /\ slots[j].fd \in Fds
      BY <2>7, <2>8
    <3>2. fds'[slots'[j].fd] \in Conns
      BY <2>4, <3>1 DEF IInv, FirstOwns
    <3>3. ASSUME NEW k \in Active', slots'[k].fd = slots'[j].fd PROVE j <= k
      <4>1. k # i
        BY <2>3, <3>1, <3>3
      <4>2. k \in Active /\ slots[k].fd = slots[j].fd
        BY <2>6, <3>1, <3>3, <4>1
      <4> QED BY <3>1, <4>2 DEF IInv, FirstOwns
    <3> QED BY <3>2, <3>3
  <2>10. Shapes'
    BY <1>1, <1>2, <2>4, <2>5 DEF Shapes
  <2> QED BY <1>1, <2>9, <2>10 DEF IInv, CurrentFirst
<1> QED BY <1>4, <1>5 DEF Accept

LEMMA HandshakeKeeps == ASSUME IInv, Handshake PROVE IInv'
<1>1. /\ pc = "handshake" /\ Place = "handshake" /\ Handling
      /\ UNCHANGED <<cur, backlog>> /\ backlog' \in Seq(Conns)
  BY DEF Handshake, Place, Handling, IInv, Shapes
<1>2. CASE Refuse
  BY <1>1, <1>2, RefuseKeeps
<1>3. CASE Dies
  BY <1>1, <1>3, SameSlots DEF Dies, GoTo, Handling, Place, IInv, Shapes
<1>4. CASE CallCount(Fewer, "refuse") /\ UNCHANGED <<fds, slots>>
  BY <1>1, <1>4, SameSlots DEF CallCount, NoCall, Place
<1>5. CASE GoTo("initial") /\ UNCHANGED <<fds, slots>>
  BY <1>1, <1>5, SameSlots DEF GoTo, Place, IInv, Shapes
<1> QED BY <1>2, <1>3, <1>4, <1>5 DEF Handshake

LEMMA HandshakeFailedKeeps == ASSUME IInv, HandshakeFailed PROVE IInv'
<1>1. Place = "refuse"
  BY DEF HandshakeFailed, Place
<1> QED BY <1>1, RefuseKeeps DEF HandshakeFailed

LEMMA InitialKeeps == ASSUME IInv, Initial PROVE IInv'
<1>1. /\ pc = "initial" /\ Place = "initial" /\ Handling
      /\ UNCHANGED <<cur, backlog>> /\ backlog' \in Seq(Conns)
  BY DEF Initial, Place, Handling, IInv, Shapes
<1>2. /\ cur \in Slots /\ slots[cur].fd \in Fds
      /\ \A j \in Open : slots[j].fd = slots[cur].fd => j = cur
  BY <1>1, OnlyCurrent
<1>3. CASE Dies
  BY <1>1, <1>3, SameSlots DEF Dies, GoTo, Handling, Place, IInv, Shapes
<1>4. CASE /\ CloseFd(slots[cur].fd) /\ CallCount(Fewer, "next")
           /\ slots' = [slots EXCEPT ![cur].active = FALSE, ![cur].done = TRUE]
  <2>1. /\ fds' = [fds EXCEPT ![slots[cur].fd] = Closed]
        /\ DOMAIN slots' = Slots /\ \A j \in Slots \ {cur} : slots'[j] = slots[j]
        /\ Fields \subseteq DOMAIN slots'[cur] /\ slots'[cur].fd = slots[cur].fd /\ ~slots'[cur].active
    BY <1>2, <1>4 DEF CloseFd, IInv, Shapes, SlotShapes
  <2>2. {"ret", "at"} \subseteq DOMAIN call' /\ Place' = "next"
    BY <1>4 DEF CallCount, NoCall, Place
  <2> QED BY <1>1, <1>2, <2>1, <2>2, DroppedKeeps
<1>5. ASSUME NEW result \in SendResults(slots[cur].fd), result \in {"all", "short"},
             slots' = [slots EXCEPT ![cur].done = TRUE], CallCount(More, "sweep"), UNCHANGED fds
      PROVE  IInv'
  <2>1. fds[slots[cur].fd] \in Conns
    BY <1>2, <1>5, Names DEF SendResults, IInv, Shapes
  <2>2. /\ DOMAIN slots' = Slots /\ \A j \in Slots \ {cur} : slots'[j] = slots[j]
        /\ Fields \subseteq DOMAIN slots'[cur] /\ slots'[cur].fd = slots[cur].fd
        /\ slots'[cur].active = slots[cur].active
    BY <1>2, <1>5 DEF IInv, Shapes, SlotShapes
  <2>3. {"ret", "at"} \subseteq DOMAIN call' /\ Place' = "sweep"
    BY <1>5 DEF CallCount, NoCall, Place
  <2>4. Shapes'
    BY <1>1, <1>5, <2>2, <2>3 DEF IInv, Shapes, SlotShapes
  <2>5. Active' = Active /\ Open' \subseteq Open \cup {cur} /\ \A j \in Slots : slots'[j].fd = slots[j].fd
    BY <1>2, <2>2 DEF Active, Open
  <2>6. \A j \in Active : slots[j].fd = slots[cur].fd => cur <= j
    BY <1>1 DEF IInv, CurrentFirst
  <2>7. FirstOwns'
    BY <1>2, <1>5, <2>1, <2>5, <2>6 DEF IInv, FirstOwns, Active, Open
  <2>8. CurrentFirst'
    BY <1>1, <1>5, <2>2, <2>3, <2>5 DEF IInv, CurrentFirst, Active
  <2> QED BY <2>4, <2>7, <2>8 DEF IInv
<1> QED BY <1>3, <1>4, <1>5 DEF Initial

LEMMA ReadKeeps == ASSUME IInv, Recv \/ ProcessFrame \/ FramesEnd \/ Sweep PROVE IInv'
<1>1. /\ Place \in {"recv", "frames", "sweep"} /\ Handling
      /\ UNCHANGED <<cur, backlog>> /\ backlog' \in Seq(Conns)
  BY DEF Recv, ProcessFrame, FramesEnd, Sweep, Place, Handling, netVars, IInv, Shapes
<1>2. ASSUME NEW ret \in {"sweep", "frames", "next"}, Drop(cur, ret) PROVE IInv'
  BY <1>1, <1>2, DropKeeps
<1>3. ASSUME NEW place \in {"sweep", "recv", "frames", "next"},
             GoTo(place) \/ \E cell : CallPixel(cell, place), UNCHANGED <<fds, slots>>
      PROVE  IInv'
  <2>1. {"ret", "at"} \subseteq DOMAIN call' /\ Place' = place
    BY <1>3 DEF GoTo, CallPixel, NoCall, Place, IInv, Shapes
  <2> QED BY <1>1, <1>3, <2>1, SameSlots
<1>4. CASE Recv
  BY <1>2, <1>3, <1>4 DEF Recv
<1>5. CASE ProcessFrame
  BY <1>2, <1>3, <1>5 DEF ProcessFrame
<1>6. CASE FramesEnd
  BY <1>3, <1>6 DEF FramesEnd, netVars
<1>7. CASE Sweep
  BY <1>2, <1>3, <1>7 DEF Sweep
<1> QED BY <1>4, <1>5, <1>6, <1>7

(* A broadcast may drop any open slot, that of the event included.         *)
LEMMA SendKeeps ==
  ASSUME IInv, broadcast_client_count \/ broadcast_to_clients
  PROVE  IInv'
<1> DEFINE i == Least(Rest)
<1>1. pc = "send" /\ UNCHANGED <<cur, backlog>> /\ backlog' \in Seq(Conns)
  BY DEF broadcast_client_count, broadcast_to_clients, Send, IInv, Shapes
<1>2. /\ i \in Slots /\ i \in Open /\ slots[i].fd \in Fds
      /\ \A j \in Open : slots[j].fd = slots[i].fd => j = i
  <2>1. Rest # {} /\ Rest \subseteq Slots /\ Rest \subseteq Open
    BY DEF broadcast_client_count, broadcast_to_clients, Send, Rest, Open
  <2>2. i \in Open /\ i \in Slots
    BY <2>1, LeastIn
  <2>3. slots[i].fd \in Fds
    BY <2>2 DEF Open, IInv, Shapes, SlotShapes
  <2>4. ASSUME NEW j \in Open, slots[j].fd = slots[i].fd PROVE j = i
    <3>1. j \in Active /\ i \in Active /\ j \in Nat /\ i \in Nat
      BY <2>2, Names DEF Open, Active
    <3>2. i <= j /\ j <= i
      BY <2>2, <2>4, <3>1 DEF IInv, FirstOwns
    <3> QED BY <3>1, <3>2
  <2> QED BY <2>2, <2>3, <2>4
<1>3. CASE Dies
  BY <1>1, <1>3, SameSlots DEF Dies, GoTo, Handling, Place, IInv, Shapes
<1>4. ASSUME NEW cnt, CallCount(cnt, "send"), CloseFd(slots[i].fd),
             slots' = [slots EXCEPT ![i].active = FALSE]
      PROVE  IInv'
  <2>1. /\ fds' = [fds EXCEPT ![slots[i].fd] = Closed]
        /\ DOMAIN slots' = Slots /\ \A j \in Slots \ {i} : slots'[j] = slots[j]
        /\ Fields \subseteq DOMAIN slots'[i] /\ slots'[i].fd = slots[i].fd /\ ~slots'[i].active
    BY <1>2, <1>4 DEF CloseFd, IInv, Shapes, SlotShapes
  <2>2. {"ret", "at"} \subseteq DOMAIN call' /\ Place' = "send" /\ ~Handling'
    BY <1>4 DEF CallCount, NoCall, Place, Handling
  <2> HIDE DEF i
  <2> QED BY <1>1, <1>2, <2>1, <2>2, DroppedKeeps
<1>5. CASE call' = [call EXCEPT !.at = i + 1] /\ UNCHANGED <<pc, fds, slots>>
  <2>1. {"ret", "at"} \subseteq DOMAIN call' /\ Place' = Place
    BY <1>5 DEF Place, IInv, Shapes
  <2> QED BY <1>1, <1>5, <2>1, SameSlots DEF Handling
<1> QED BY <1>3, <1>4, <1>5 DEF broadcast_client_count, broadcast_to_clients, Send

(* Steps of the loop that only move it.                                    *)
LEMMA MoveKeeps ==
  ASSUME IInv, EpollWait \/ NextEvent \/ AcceptEnds \/ Lock \/ Unlock \/ Log \/ Sigint
  PROVE  IInv'
<1>1. UNCHANGED <<fds, slots, call, backlog>> /\ backlog' \in Seq(Conns) /\ {"ret", "at"} \subseteq DOMAIN call'
  BY DEF EpollWait, NextEvent, AcceptEnds, Lock, Unlock, Log, Sigint, GoTo, netVars, IInv, Shapes
<1>2. CASE EpollWait \/ NextEvent \/ AcceptEnds \/ Sigint
  <2>1. ~Handling'
    BY <1>2 DEF EpollWait, NextEvent, AcceptEnds, Sigint, GoTo, Handling, Place
  <2> QED BY <1>1, <2>1, SameSlots
<1>3. CASE Lock \/ Unlock \/ Log
  <2>1. UNCHANGED cur /\ (Place' = Place \/ ~Handling')
    BY <1>3 DEF Lock, Unlock, Log, GoTo, Handling, Place
  <2> QED BY <1>1, <2>1, SameSlots DEF Handling
<1> QED BY <1>2, <1>3

LEMMA ClientsKeep == ASSUME IInv, Clients PROVE IInv'
<1>1. UNCHANGED <<slots, pc, cur, call>>
  BY DEF Clients, loopVars
<1>2. UNCHANGED fds /\ backlog' \in Seq(Conns)
  <2>1. PICK c \in Conns : Client(c)
    BY DEF Clients
  <2>2. CASE Connect(c)
    BY <2>2, AppendProperties DEF Connect, IInv, Shapes
  <2>3. CASE ClientSend(c) \/ ClientLeave(c)
    BY <2>3 DEF ClientSend, ClientLeave, Ended, IInv, Shapes
  <2> QED BY <2>1, <2>2, <2>3 DEF Client
<1>3. Place' = Place
  BY <1>1 DEF Place
<1> QED BY <1>1, <1>2, <1>3, SameSlots DEF Handling, IInv, Shapes

-----------------------------------------------------------------------------
(***************************************************************************)
(* What a broadcast has told, and whom it still has to tell.               *)
(***************************************************************************)

(* No connection is accepted twice.                                        *)
AcceptedOnce == /\ peer \in [Conns -> {"new", "up", "fin", "rst", "finrst"}]
                /\ \A f, g \in Fds : fds[f] \in Conns /\ fds[g] = fds[f] => g = f
                /\ \A f \in Fds : fds[f] \in Conns => peer[fds[f]] # "new"
                /\ \A k, m \in 1 .. Len(backlog) : backlog[m] = backlog[k] => m = k
                /\ \A k \in 1 .. Len(backlog) : /\ peer[backlog[k]] # "new"
                                                /\ \A f \in Fds : fds[f] # backlog[k]

(* The event thread never takes another step: the process has ended, or    *)
(* waits for a mutex it holds.                                             *)
Halted == pc \in {"dead", "stuck"} \/ (pc = "lock" /\ held)

Sending == pc \in {"lock", "send"}

Control == /\ {"kind", "cell", "cnt"} \subseteq DOMAIN call
           /\ held => pc = "send" \/ Halted
           /\ pc = "send" => held
           /\ ~Halted /\ pc \in {"lock", "send", "log", "logging"} =>
                call.ret \in {"refuse", "sweep", "frames", "next"}
           /\ ~Halted /\ Sending /\ call.kind = "count" => call.cnt = clientCnt
           /\ Sending /\ call.kind = "pixel" => call.cell \in 1 .. Cells

Displays == /\ DOMAIN wire = Conns /\ DOMAIN shown = Conns /\ DOMAIN screen = Conns
            /\ \A c \in Conns : DOMAIN screen[c] = 1 .. Cells
            /\ DOMAIN canvas = 1 .. Cells

Pending(i, kind) == Sending /\ call.kind = kind /\ i >= call.at
CountTold(i) == wire[ConnOf(i)] = "open" => shown[ConnOf(i)] = clientCnt
CellsTold(i, S) == wire[ConnOf(i)] = "open" => \A k \in S : screen[ConnOf(i)][k] = canvas[k]

(* Who does not show the count or a cell is still to be told by the        *)
(* broadcast under way.                                                    *)
CountReaches == ~Halted => \A i \in Open : CountTold(i) \/ Pending(i, "count")
PixelReaches == ~Halted => \A i \in Open :
                  \/ CellsTold(i, Told)
                  \/ Pending(i, "pixel") /\ CellsTold(i, Told \ {call.cell})

Reaches == Control /\ CountReaches /\ PixelReaches

Delivery == AcceptedOnce /\ Displays /\ Reaches

Rets == {"refuse", "sweep", "frames", "next"}

LEMMA InitDelivery == Init => Delivery
<1> SUFFICES ASSUME Init PROVE Delivery
  OBVIOUS
<1>1. AcceptedOnce
  BY Names, EmptySeq DEF Init, setup_server, NetInit, AcceptedOnce
<1>2. Displays
  BY DEF Init, setup_server, NetInit, FileInit, Filled, Displays
<1>3. Open = {}
  BY DEF Init, Open, Free
<1>4. Reaches
  BY <1>3 DEF Init, Reaches, Control, CountReaches, PixelReaches, Halted, Sending, NoCall
<1> QED BY <1>1, <1>2, <1>4 DEF Delivery

-----------------------------------------------------------------------------
(* Closing a descriptor, or not, forgets no connection and makes none.     *)
LEMMA ClosedAcceptedOnce ==
  ASSUME IInv, AcceptedOnce, UNCHANGED <<peer, backlog>>, \A f \in Fds : fds'[f] \in {fds[f], Closed}
  PROVE  AcceptedOnce'
<1>1. \A k \in 1 .. Len(backlog) : backlog[k] \in Conns
  BY ElementOfSeq DEF IInv, Shapes
<1>2. \A f \in Fds : fds'[f] \in Conns => fds'[f] = fds[f]
  BY Names
<1>3. \A k \in 1 .. Len(backlog) : \A f \in Fds : fds'[f] # backlog[k]
  BY <1>1, <1>2 DEF AcceptedOnce
<1>4. \A f, g \in Fds : fds'[f] \in Conns /\ fds'[g] = fds'[f] => g = f
  BY <1>2 DEF AcceptedOnce
<1> QED BY <1>2, <1>3, <1>4 DEF AcceptedOnce

LEMMA AcceptAcceptedOnce == ASSUME IInv, AcceptedOnce, Accept PROVE AcceptedOnce'
<1> DEFINE c == Head(backlog)
<1>1. /\ backlog \in Seq(Conns) /\ backlog # <<>> /\ UNCHANGED peer
      /\ Len(backlog) \in Nat /\ Len(backlog) >= 1 /\ Len(backlog') = Len(backlog) - 1 /\ c = backlog[1]
      /\ \A k \in 1 .. Len(backlog') : backlog'[k] = backlog[k + 1] /\ k + 1 \in 1 .. Len(backlog)
  BY HeadTailProperties DEF Accept, IInv, Shapes
<1>2. c \in Conns /\ peer[c] # "new" /\ \A f \in Fds : fds[f] # c
  BY <1>1 DEF AcceptedOnce
<1>3. \A k \in 1 .. Len(backlog') : backlog'[k] # c
  BY <1>1 DEF AcceptedOnce
<1>4. \A k, m \in 1 .. Len(backlog') : backlog'[m] = backlog'[k] => m = k
  <2> SUFFICES ASSUME NEW k \in 1 .. Len(backlog'), NEW m \in 1 .. Len(backlog'), backlog'[m] = backlog'[k]
               PROVE  m = k
    OBVIOUS
  <2>1. m + 1 = k + 1
    BY <1>1 DEF AcceptedOnce
  <2> QED BY <1>1, <2>1
<1>5. \A k \in 1 .. Len(backlog') : peer'[backlog'[k]] # "new" /\ \A f \in Fds : fds[f] # backlog'[k]
  <2> SUFFICES ASSUME NEW k \in 1 .. Len(backlog')
               PROVE  peer'[backlog'[k]] # "new" /\ \A f \in Fds : fds[f] # backlog'[k]
    OBVIOUS
  <2>1. peer[backlog[k + 1]] # "new" /\ \A f \in Fds : fds[f] # backlog[k + 1]
    BY <1>1 DEF AcceptedOnce
  <2> QED BY <1>1, <2>1
<1>6. CASE UNCHANGED fds
  BY <1>1, <1>4, <1>5, <1>6 DEF AcceptedOnce
<1>7. CASE fds' = [fds EXCEPT ![Lowest] = c]
  <2>1. Lowest \in Fds
    BY LowestIn DEF Accept
  <2>2. fds'[Lowest] = c /\ \A f \in Fds \ {Lowest} : fds'[f] = fds[f]
    BY <1>7, <2>1 DEF IInv, Shapes
  <2> QED BY <1>1, <1>2, <1>3, <1>4, <1>5, <2>1, <2>2 DEF AcceptedOnce
<1> QED BY <1>6, <1>7 DEF Accept

LEMMA ClientsAcceptedOnce == ASSUME IInv, AcceptedOnce, Clients PROVE AcceptedOnce'
<1>1. PICK c \in Conns : Client(c)
  BY DEF Clients
<1>2. CASE Connect(c)
  <2>1. UNCHANGED fds /\ peer' = [peer EXCEPT ![c] = "up"] /\ peer[c] = "new"
    BY <1>2 DEF Connect
  <2>2. /\ Len(backlog) \in Nat /\ Len(backlog') = Len(backlog) + 1 /\ backlog'[Len(backlog) + 1] = c
        /\ \A k \in 1 .. Len(backlog) : backlog'[k] = backlog[k] /\ backlog[k] \in Conns
    BY <1>2, AppendProperties, ElementOfSeq DEF Connect, IInv, Shapes
  <2>3. \A k \in 1 .. Len(backlog) : backlog[k] # c
    BY <2>1 DEF AcceptedOnce
  <2>4. \A f \in Fds : fds[f] # c
    BY <2>1 DEF AcceptedOnce
  <2>5. \A k \in 1 .. Len(backlog') : k \in 1 .. Len(backlog) \/ k = Len(backlog) + 1
    BY <2>2
  <2>6. peer'[c] = "up" /\ \A d \in Conns \ {c} : peer'[d] = peer[d]
    BY <2>1 DEF AcceptedOnce
  <2>7. peer' \in [Conns -> {"new", "up", "fin", "rst", "finrst"}]
    BY <2>1 DEF AcceptedOnce
  <2> QED BY <2>1, <2>2, <2>3, <2>4, <2>5, <2>6, <2>7 DEF AcceptedOnce
<1>3. CASE ClientSend(c) \/ ClientLeave(c)
  <2>1. UNCHANGED <<fds, backlog>> /\ peer' \in [Conns -> {"new", "up", "fin", "rst", "finrst"}]
    BY <1>3 DEF ClientSend, ClientLeave, Ended, AcceptedOnce
  <2>2. \A d \in Conns : peer'[d] = "new" => peer[d] = "new"
    BY <1>3 DEF ClientSend, ClientLeave, Ended, AcceptedOnce
  <2>3. \A k \in 1 .. Len(backlog) : backlog[k] \in Conns
    BY ElementOfSeq DEF IInv, Shapes
  <2> QED BY <2>1, <2>2, <2>3 DEF AcceptedOnce
<1> QED BY <1>1, <1>2, <1>3 DEF Client

LEMMA OnceStep == ASSUME IInv, AcceptedOnce, Main \/ Sigint \/ Clients PROVE AcceptedOnce'
<1> DEFINE Closing == UNCHANGED <<peer, backlog>> /\ (UNCHANGED fds \/ \E f : CloseFd(f))
<1>1. ASSUME Closing PROVE AcceptedOnce'
  <2>1. \A f \in Fds : fds'[f] \in {fds[f], Closed}
    BY <1>1 DEF CloseFd, IInv, Shapes
  <2> QED BY <1>1, <2>1, ClosedAcceptedOnce
<1>2. EpollWait \/ NextEvent \/ Dispatch \/ AcceptEnds \/ Lock \/ Unlock \/ Log \/ Sigint => Closing
  BY DEF EpollWait, NextEvent, Dispatch, AcceptEnds, Lock, Unlock, Log, Sigint, netVars
<1>3. Handshake \/ HandshakeFailed \/ Initial => Closing
  BY DEF Handshake, HandshakeFailed, Initial, Refuse, Dies
<1>4. Recv \/ ProcessFrame \/ FramesEnd \/ Sweep => Closing
  BY DEF Recv, ProcessFrame, FramesEnd, Sweep, Drop, netVars
<1>5. broadcast_client_count \/ broadcast_to_clients => Closing
  BY DEF broadcast_client_count, broadcast_to_clients, Send, Dies
<1> HIDE DEF Closing
<1> QED BY <1>1, <1>2, <1>3, <1>4, <1>5, AcceptAcceptedOnce, ClientsAcceptedOnce DEF Main

-----------------------------------------------------------------------------
LEMMA OpenAlone ==
  ASSUME IInv, NEW i \in Open
  PROVE  /\ i \in Slots /\ slots[i].fd \in Fds /\ ConnOf(i) \in Conns
         /\ \A j \in Open : slots[j].fd = slots[i].fd => j = i
<1>1. SlotsOwnSockets
  BY OwnsSockets
<1> QED BY <1>1 DEF SlotsOwnSockets, Open, IInv, Shapes, SlotShapes

(* Who is open was open, with the same connection.                         *)
OpenKept == \A i \in Open' : i \in Open /\ ConnOf(i)' = ConnOf(i)

LEMMA SameKept == ASSUME UNCHANGED <<fds, slots>> PROVE OpenKept
BY DEF OpenKept, Open, ConnOf

LEMMA CloseKept ==
  ASSUME IInv, NEW f, fds' = [fds EXCEPT ![f] = Closed],
         \A i \in Open' : i \in Open /\ slots'[i].fd = slots[i].fd /\ slots[i].fd # f
  PROVE  OpenKept
<1> SUFFICES ASSUME NEW i \in Open' PROVE i \in Open /\ ConnOf(i)' = ConnOf(i)
  BY DEF OpenKept
<1>1. i \in Open /\ slots'[i].fd = slots[i].fd /\ slots[i].fd # f /\ slots[i].fd \in Fds
  BY OpenAlone
<1>2. fds'[slots[i].fd] = fds[slots[i].fd]
  BY <1>1 DEF IInv, Shapes
<1> QED BY <1>1, <1>2 DEF ConnOf

(* Slot i is given back, which shares its number with no other open slot.  *)
LEMMA BackKept ==
  ASSUME IInv, NEW i \in Slots, \A j \in Open : slots[j].fd = slots[i].fd => j = i,
         CloseFd(slots[i].fd), ~slots'[i].active, \A j \in Slots \ {i} : slots'[j] = slots[j]
  PROVE  OpenKept
<1>1. \A j \in Open' : j # i /\ j \in Slots
  BY DEF Open
<1>2. \A j \in Open' : j \in Open /\ slots'[j].fd = slots[j].fd
  BY <1>1 DEF Open
<1>3. \A j \in Open' : slots[j].fd # slots[i].fd
  BY <1>1, <1>2
<1> QED BY <1>2, <1>3, CloseKept DEF CloseFd

LEMMA DropKept == ASSUME IInv, Handling, NEW ret, Drop(cur, ret) PROVE OpenKept
<1>1. cur \in Slots /\ \A j \in Open : slots[j].fd = slots[cur].fd => j = cur
  BY OnlyCurrent
<1>2. ~slots'[cur].active /\ \A j \in Slots \ {cur} : slots'[j] = slots[j]
  BY <1>1 DEF Drop, IInv, Shapes, SlotShapes, Fields
<1> QED BY <1>1, <1>2, BackKept DEF Drop

LEMMA RefuseKept == ASSUME IInv, Place \in {"handshake", "refuse"}, Refuse PROVE OpenKept
<1>1. cur \in Slots /\ ~slots[cur].done /\ \A j \in Open : slots[j].fd = slots[cur].fd => j = cur
  BY OnlyCurrent DEF Handling, IInv, CurrentFirst
<1>2. UNCHANGED slots /\ \A j \in Open' : j \in Open /\ j # cur
  BY <1>1 DEF Refuse, Open
<1> QED BY <1>1, <1>2, CloseKept DEF Refuse, CloseFd

LEMMA AcceptKept == ASSUME IInv, Accept PROVE OpenKept
<1> DEFINE i == Least(Unused)
           Taken == [Free EXCEPT !.fd = Lowest, !.active = TRUE]
<1>1. CASE UNCHANGED <<fds, slots>>
  BY <1>1, SameKept
<1>2. CASE /\ Unused # {} /\ slots' = [slots EXCEPT ![i] = Taken]
           /\ fds' = [fds EXCEPT ![Lowest] = Head(backlog)] \/ UNCHANGED fds
  <2>1. i \in Slots
    BY <1>2, LeastIn DEF Unused
  <2>2. slots'[i] = Taken /\ ~slots'[i].done /\ \A j \in Slots \ {i} : slots'[j] = slots[j]
    BY <1>2, <2>1 DEF IInv, Shapes, SlotShapes, Free
  <2>3. Lowest \in Fds /\ fds[Lowest] = Closed
    BY LowestIn DEF Accept
  <2> HIDE DEF i, Taken
  <2>4. \A j \in Open' : j \in Open /\ slots'[j].fd = slots[j].fd
    BY <2>2 DEF Open
  <2>5. \A j \in Open' : slots[j].fd # Lowest /\ slots[j].fd \in Fds
    BY <2>3, <2>4, OpenAlone, Names DEF ConnOf
  <2>6. \A f \in Fds \ {Lowest} : fds'[f] = fds[f]
    BY <1>2, <2>3 DEF IInv, Shapes
  <2> QED BY <2>4, <2>5, <2>6 DEF OpenKept, ConnOf
<1> QED BY <1>1, <1>2 DEF Accept

-----------------------------------------------------------------------------
(* The process ends, or waits for its own mutex.                           *)
LEMMA HaltedReaches ==
  ASSUME Halted', {"kind", "cell", "cnt"} \subseteq DOMAIN call',
         pc' = "lock" => call'.kind = "count"
  PROVE  Reaches'
BY DEF Reaches, Control, CountReaches, PixelReaches, Halted, Sending

(* No broadcast is under way, and none starts.                             *)
LEMMA QuietReaches ==
  ASSUME IInv, Reaches, ~Halted, ~Sending, ~Sending', pc' \notin {"dead", "stuck"}, OpenKept,
         UNCHANGED <<wire, shown, screen, canvas, clientCnt, held, call>>,
         pc' \in {"log", "logging"} => pc \in {"log", "logging"}
  PROVE  Reaches'
<1>1. ~held /\ ~held'
  BY DEF Reaches, Control, Sending
<1>2. Control'
  BY <1>1 DEF Reaches, Control, Sending
<1>3. \A i \in Open' : CountTold(i)'
  BY DEF OpenKept, Reaches, CountReaches, CountTold, Pending
<1>4. \A i \in Open' : CellsTold(i, Told)'
  BY DEF OpenKept, Reaches, PixelReaches, CellsTold, Pending, Told
<1> QED BY <1>2, <1>3, <1>4 DEF Reaches, CountReaches, PixelReaches

(* The count is going to be broadcast to all.                              *)
LEMMA CountStarts ==
  ASSUME IInv, Reaches, ~Halted, ~Sending, UNCHANGED held, NEW ret \in Rets, CallCount(clientCnt', ret),
         \A i \in Open' : CellsTold(i, Told)'
  PROVE  Reaches'
<1>1. ~held /\ ~held' /\ pc' = "lock"
  BY DEF Reaches, Control, Sending, CallCount
<1>2. /\ {"kind", "cell", "cnt"} \subseteq DOMAIN call'
      /\ call'.kind = "count" /\ call'.cnt = clientCnt' /\ call'.ret = ret /\ call'.at = 1
  BY DEF CallCount, NoCall
<1>3. Control'
  BY <1>1, <1>2 DEF Control, Sending, Halted, Rets
<1>4. \A i \in Open' : i >= 1
  BY DEF Open, Slots
<1>5. CountReaches' /\ PixelReaches'
  BY <1>1, <1>2, <1>4 DEF CountReaches, PixelReaches, Pending, Sending
<1> QED BY <1>3, <1>5 DEF Reaches

LEMMA KeptCells ==
  ASSUME IInv, Reaches, ~Halted, ~Sending, OpenKept, UNCHANGED <<wire, screen, canvas>>
  PROVE  \A i \in Open' : CellsTold(i, Told)'
BY DEF OpenKept, Reaches, PixelReaches, CellsTold, Pending, Told

-----------------------------------------------------------------------------
LEMMA LoopReaches ==
  ASSUME IInv, Delivery, EpollWait \/ NextEvent \/ Dispatch \/ AcceptEnds \/ Accept
  PROVE  Reaches'
<1>1. ~Halted /\ ~Sending /\ ~held /\ Reaches
  BY DEF EpollWait, NextEvent, Dispatch, AcceptEnds, Accept, Halted, Sending, Delivery, Reaches, Control
<1>2. UNCHANGED <<wire, shown, screen, canvas>>
  BY DEF EpollWait, NextEvent, Dispatch, AcceptEnds, Accept, netVars, fileVars, pageVars
<1>3. OpenKept
  <2>1. CASE UNCHANGED <<fds, slots>>
    BY <2>1, SameKept
  <2>2. CASE Dispatch /\ Matching(Head(batch).fd) = {} /\ CloseFd(Head(batch).fd)
    <3>1. UNCHANGED slots /\ \A i \in Open' : i \in Open /\ slots[i].fd # Head(batch).fd
      BY <2>2 DEF Dispatch, Matching, Open
    <3> QED BY <2>2, <3>1, CloseKept DEF CloseFd
  <2>3. CASE Accept
    BY <2>3, AcceptKept
  <2> QED BY <2>1, <2>2, <2>3 DEF EpollWait, NextEvent, Dispatch, AcceptEnds, netVars
<1>4. CASE /\ UNCHANGED <<clientCnt, held, call>>
           /\ pc' \in {"wait", "dispatch", "next", "accept", "sweep", "recv", "handshake"}
  BY <1>1, <1>2, <1>3, <1>4, QuietReaches DEF Sending
<1>5. CASE Accept /\ held' /\ CallCount(Fewer, "accept")
  BY <1>5, HaltedReaches DEF CallCount, NoCall, Halted
<1> QED BY <1>4, <1>5 DEF EpollWait, NextEvent, Dispatch, AcceptEnds, Accept, GoTo

LEMMA RefuseReaches ==
  ASSUME IInv, Reaches, ~Halted, ~Sending, Place \in {"handshake", "refuse"}, Refuse, UNCHANGED <<fileVars, pageVars>>
  PROVE  Reaches'
<1>1. OpenKept /\ UNCHANGED <<held, wire, screen, canvas>> /\ CallCount(clientCnt', "sweep")
  BY RefuseKept DEF Refuse, fileVars, pageVars
<1> QED BY <1>1, KeptCells, CountStarts DEF Rets

LEMMA HandshakeReaches == ASSUME IInv, Delivery, Handshake PROVE Reaches'
<1>1. /\ pc = "handshake" /\ Place = "handshake" /\ Handling /\ ~Halted /\ ~Sending /\ Reaches
      /\ UNCHANGED <<fileVars, pageVars, shown, screen, canvas>>
  BY DEF Handshake, Place, Handling, Halted, Sending, Delivery, fileVars, pageVars
<1>2. CASE Refuse
  BY <1>1, <1>2, RefuseReaches
<1>3. CASE Dies
  BY <1>3, HaltedReaches DEF Dies, GoTo, Halted, Delivery, Reaches, Control
<1>4. CASE clientCnt' = Fewer /\ CallCount(Fewer, "refuse") /\ UNCHANGED <<fds, slots, held, wire>>
  <2>1. OpenKept /\ CallCount(clientCnt', "refuse")
    BY <1>4, SameKept
  <2> QED BY <1>1, <1>4, <2>1, KeptCells, CountStarts DEF Rets
<1>5. ASSUME Request, NEW w, wire' = [wire EXCEPT ![ConnOf(cur)] = w], GoTo("initial"),
             UNCHANGED <<fds, slots, clientCnt, held>>
      PROVE  Reaches'
  <2>1. /\ cur \in Slots /\ slots[cur].fd \in Fds /\ ConnOf(cur) \in Conns /\ ~slots[cur].done
        /\ \A j \in Open : slots[j].fd = slots[cur].fd => j = cur
    BY <1>1, <1>5, OnlyCurrent DEF Request, ConnOf, IInv, CurrentFirst
  <2>2. \A i \in Open : ConnOf(i) # ConnOf(cur)
    <3> SUFFICES ASSUME NEW i \in Open, ConnOf(i) = ConnOf(cur) PROVE FALSE
      OBVIOUS
    <3>1. slots[i].fd = slots[cur].fd
      BY <2>1, OpenAlone DEF Delivery, AcceptedOnce, ConnOf
    <3> QED BY <2>1, <3>1 DEF Open
  <2>3. OpenKept
    BY <1>5, SameKept
  <2>4. \A i \in Open' : i \in Open /\ ConnOf(i)' = ConnOf(i) /\ wire'[ConnOf(i)] = wire[ConnOf(i)]
    BY <1>5, <2>2, <2>3, OpenAlone DEF OpenKept, Delivery, Displays
  <2>5. \A i \in Open' : CountTold(i)' /\ CellsTold(i, Told)'
    BY <1>1, <1>5, <2>4 DEF Reaches, CountReaches, PixelReaches, CountTold, CellsTold, Pending, Told
  <2>6. Control'
    BY <1>1, <1>5 DEF Reaches, Control, Sending, Halted, GoTo
  <2> QED BY <2>5, <2>6 DEF Reaches, CountReaches, PixelReaches
<1> QED BY <1>2, <1>3, <1>4, <1>5 DEF Handshake

(* The page that opens is sent all cells but the last one.                 *)
LEMMA InitialReaches == ASSUME IInv, Delivery, Initial PROVE Reaches'
<1> DEFINE c == ConnOf(cur)
<1>1. /\ pc = "initial" /\ Place = "initial" /\ Handling /\ ~Halted /\ ~Sending /\ Reaches
      /\ UNCHANGED <<fileVars, canvas>>
  BY DEF Initial, Place, Handling, Halted, Sending, Delivery, fileVars
<1>2. cur \in Slots /\ slots[cur].fd \in Fds /\ \A j \in Open : slots[j].fd = slots[cur].fd => j = cur
  BY <1>1, OnlyCurrent
<1>3. CASE Dies
  BY <1>3, HaltedReaches DEF Dies, GoTo, Halted, Delivery, Reaches, Control
<1>4. CASE /\ CloseFd(slots[cur].fd) /\ clientCnt' = Fewer /\ CallCount(Fewer, "next")
           /\ slots' = [slots EXCEPT ![cur].active = FALSE, ![cur].done = TRUE]
           /\ UNCHANGED <<held, wire, pageVars>>
  <2>1. ~slots'[cur].active /\ \A j \in Slots \ {cur} : slots'[j] = slots[j]
    BY <1>2, <1>4 DEF IInv, Shapes, SlotShapes, Fields
  <2>2. OpenKept
    BY <1>2, <1>4, <2>1, BackKept
  <2>3. CallCount(clientCnt', "next") /\ UNCHANGED <<held, wire, screen, canvas>>
    BY <1>1, <1>4 DEF pageVars
  <2> QED BY <1>1, <2>2, <2>3, KeptCells, CountStarts DEF Rets
<1>5. ASSUME NEW result \in SendResults(slots[cur].fd), result \in {"all", "short"},
             slots' = [slots EXCEPT ![cur].done = TRUE], Heard(c, result),
             result = "all" /\ wire[c] = "open" =>
               screen' = [screen EXCEPT ![c] = [i \in 1 .. Cells |-> IF i \in Told THEN canvas[i] ELSE @[i]]],
             clientCnt' = More, CallCount(More, "sweep"), UNCHANGED <<fds, held>>
      PROVE  Reaches'
  <2>1. c \in Conns
    BY <1>2, <1>5, Names DEF SendResults, ConnOf, IInv, Shapes
  <2>2. \A i \in Open' : (i \in Open \/ i = cur) /\ ConnOf(i)' = ConnOf(i)
    <3>1. \A j \in Slots \ {cur} : slots'[j] = slots[j]
      BY <1>2, <1>5 DEF IInv, Shapes, SlotShapes
    <3>2. slots'[cur].fd = slots[cur].fd
      BY <1>2, <1>5 DEF IInv, Shapes, SlotShapes, Fields
    <3> QED BY <1>5, <3>1, <3>2 DEF Open, ConnOf
  <2>3. \A i \in Open' : ConnOf(i) \in Conns
    BY <2>1, <2>2, OpenAlone
  <2>4. \A d \in Conns \ {c} : wire'[d] = wire[d] /\ screen'[d] = screen[d]
    BY <1>5, <2>1 DEF Heard, pageVars, Delivery, Displays
  <2>5. wire'[c] = "open" => wire[c] = "open" /\ \A k \in Told : screen'[c][k] = canvas[k]
    <3> SUFFICES ASSUME wire'[c] = "open"
                 PROVE  wire[c] = "open" /\ \A k \in Told : screen'[c][k] = canvas[k]
      OBVIOUS
    <3>1. result = "all" /\ wire[c] = "open"
      BY <1>5, <2>1 DEF Heard, Delivery, Displays
    <3>2. screen'[c] = [i \in 1 .. Cells |-> IF i \in Told THEN canvas[i] ELSE screen[c][i]]
      BY <1>5, <2>1, <3>1 DEF Delivery, Displays
    <3>3. \A k \in Told : k \in 1 .. Cells
      BY CanvasFileAssumption DEF Told
    <3> QED BY <3>1, <3>2, <3>3
  <2> HIDE DEF c
  <2>6. \A i \in Open' : CellsTold(i, Told)'
    <3> SUFFICES ASSUME NEW i \in Open', wire'[ConnOf(i)] = "open"
                 PROVE  \A k \in Told : screen'[ConnOf(i)][k] = canvas[k]
      BY <1>1, <2>2 DEF CellsTold, Told
    <3>1. CASE ConnOf(i) = c
      BY <2>5, <3>1
    <3>2. CASE ConnOf(i) # c
      <4>1. i \in Open
        BY <2>2, <3>2 DEF c
      <4> QED BY <1>1, <2>3, <2>4, <3>2, <4>1 DEF Reaches, PixelReaches, CellsTold, Pending
    <3> QED BY <3>1, <3>2
  <2>7. CallCount(clientCnt', "sweep") /\ UNCHANGED held
    BY <1>5
  <2> QED BY <1>1, <2>6, <2>7, CountStarts DEF Rets
<1> QED BY <1>3, <1>4, <1>5 DEF Initial

(* A pixel is drawn: all open pages show the canvas but for its cell.      *)
LEMMA PixelReachesAll ==
  ASSUME IInv, Delivery, pc = "frames", OpenKept, NEW at \in 1 .. Cells, NEW color, SetPixel(at, color),
         CallPixel(at, "frames"), UNCHANGED <<wire, shown, screen, clientCnt, held>>
  PROVE  Reaches'
<1>1. ~Halted /\ ~Sending /\ Reaches /\ ~held
  BY DEF Halted, Sending, Delivery, Reaches, Control
<1>2. /\ {"kind", "cell", "cnt"} \subseteq DOMAIN call' /\ pc' = "lock"
      /\ call'.kind = "pixel" /\ call'.cell = at /\ call'.ret = "frames" /\ call'.at = 1
  BY DEF CallPixel, NoCall
<1>3. Control'
  BY <1>1, <1>2 DEF Control, Sending, Halted
<1>4. \A k \in Told \ {at} : canvas'[k] = canvas[k]
  BY CanvasFileAssumption DEF SetPixel, Delivery, Displays, Told
<1>5. \A i \in Open' : i \in Open /\ ConnOf(i)' = ConnOf(i) /\ CountTold(i) /\ CellsTold(i, Told)
  BY <1>1 DEF OpenKept, Reaches, CountReaches, PixelReaches, Pending
<1>6. \A i \in Open' : CountTold(i)'
  BY <1>5 DEF CountTold
<1>7. \A i \in Open' : CellsTold(i, Told \ {call.cell})' /\ i >= 1
  BY <1>2, <1>4, <1>5 DEF CellsTold, Told, Open, Slots
<1>8. \A i \in Open' : Pending(i, "pixel")'
  BY <1>2, <1>7 DEF Pending, Sending
<1> QED BY <1>3, <1>6, <1>7, <1>8 DEF Reaches, CountReaches, PixelReaches

LEMMA ReadReaches ==
  ASSUME IInv, Delivery, Recv \/ ProcessFrame \/ FramesEnd \/ Sweep
  PROVE  Reaches'
<1>1. /\ pc \in {"recv", "frames", "sweep"} /\ Place = pc /\ Handling /\ ~Halted /\ ~Sending /\ Reaches
      /\ UNCHANGED <<wire, shown, screen, held>>
  BY DEF Recv, ProcessFrame, FramesEnd, Sweep, Place, Handling, Halted, Sending, Delivery, netVars, pageVars
<1>2. ASSUME NEW ret \in {"sweep", "frames", "next"}, Drop(cur, ret), UNCHANGED canvas PROVE Reaches'
  <2>1. OpenKept /\ CallCount(clientCnt', ret)
    BY <1>1, <1>2, DropKept DEF Drop
  <2> QED BY <1>1, <1>2, <2>1, KeptCells, CountStarts DEF Rets
<1>3. ASSUME NEW place \in {"sweep", "recv", "frames", "next"}, GoTo(place), UNCHANGED <<fds, slots, canvas, clientCnt>>
      PROVE  Reaches'
  BY <1>1, <1>3, SameKept, QuietReaches DEF GoTo, Sending
<1>4. CASE Recv
  <2>1. UNCHANGED canvas
    BY <1>4 DEF Recv, fileVars
  <2> QED BY <1>2, <1>3, <1>4, <2>1 DEF Recv
<1>5. CASE ProcessFrame
  <2>1. ASSUME NEW at \in 1 .. Cells, NEW color, SetPixel(at, color), CallPixel(at, "frames"),
               UNCHANGED <<fds, slots, clientCnt>>
        PROVE  Reaches'
    <3>1. pc = "frames"
      BY <1>5 DEF ProcessFrame
    <3> QED BY <1>1, <2>1, <3>1, SameKept, PixelReachesAll
  <2> QED BY <1>2, <1>3, <1>5, <2>1 DEF ProcessFrame
<1>6. CASE FramesEnd
  BY <1>3, <1>6 DEF FramesEnd, netVars, fileVars
<1>7. CASE Sweep
  <2>1. UNCHANGED canvas
    BY <1>7 DEF Sweep, fileVars
  <2> QED BY <1>2, <1>3, <1>7, <2>1 DEF Sweep
<1> QED BY <1>4, <1>5, <1>6, <1>7

LEMMA MutexReaches == ASSUME IInv, Delivery, Lock \/ Unlock \/ Log \/ Sigint PROVE Reaches'
<1>1. /\ Reaches /\ OpenKept
      /\ UNCHANGED <<wire, shown, screen, canvas, clientCnt, slots, fds, call>>
  BY SameKept DEF Lock, Unlock, Log, Sigint, GoTo, netVars, fileVars, pageVars, Delivery
<1>2. CASE Lock
  <2>1. pc = "lock" /\ ~held /\ pc' = "send" /\ held' /\ ~Halted
    BY <1>2 DEF Lock, GoTo, Halted
  <2>2. Control'
    BY <1>1, <2>1 DEF Reaches, Control, Halted, Sending
  <2>3. \A i \in Open' : /\ i \in Open /\ CountTold(i)' = CountTold(i)
                         /\ \A S : CellsTold(i, S)' = CellsTold(i, S)
                         /\ \A kind : Pending(i, kind)' = Pending(i, kind)
    BY <1>1, <2>1 DEF OpenKept, CountTold, CellsTold, Pending, Sending
  <2> QED BY <1>1, <2>1, <2>2, <2>3 DEF Reaches, CountReaches, PixelReaches
<1>3. CASE Unlock
  <2>1. /\ pc = "send" /\ ~held' /\ Rest = {} /\ ~Halted
        /\ pc' = "log" \/ pc' = call.ret
        /\ call.ret \in {"refuse", "sweep", "frames", "next"}
    BY <1>1, <1>3 DEF Unlock, GoTo, Halted, Reaches, Control
  <2>2. Control'
    BY <1>1, <2>1 DEF Reaches, Control, Halted, Sending
  <2>3. \A i \in Open, kind \in {"count", "pixel"} : ~Pending(i, kind)
    BY <2>1 DEF Pending, Rest
  <2>4. \A i \in Open' : CountTold(i)' /\ CellsTold(i, Told)'
    BY <1>1, <2>1, <2>3 DEF OpenKept, Reaches, CountReaches, PixelReaches, CountTold, CellsTold, Told
  <2> QED BY <2>2, <2>4 DEF Reaches, CountReaches, PixelReaches
<1>4. CASE Log
  <2>1. /\ pc \in {"log", "logging"} /\ UNCHANGED held /\ ~Halted /\ ~Sending
        /\ pc' = "logging" \/ (pc = "logging" /\ pc' = call.ret)
        /\ call.ret \in {"refuse", "sweep", "frames", "next"}
    BY <1>1, <1>4 DEF Log, GoTo, Halted, Sending, Reaches, Control
  <2>2. ~Sending' /\ pc' \notin {"dead", "stuck"}
    BY <2>1 DEF Sending
  <2> QED BY <1>1, <2>1, <2>2, QuietReaches
<1>5. CASE Sigint
  <2>1. pc' \in {"dead", "stuck"}
    BY <1>5 DEF Sigint, GoTo
  <2> QED BY <1>1, <2>1, HaltedReaches DEF Halted, Reaches, Control
<1> QED BY <1>2, <1>3, <1>4, <1>5

(* One writev of a broadcast: the page of slot call.at, or of the next one *)
(* that is open, is told.                                                  *)
LEMMA WritevReaches ==
  ASSUME IInv, Delivery, pc = "send", Rest # {}, call.kind \in {"count", "pixel"},
         NEW result \in SendResults(slots[Least(Rest)].fd), result \in {"all", "short"},
         Heard(ConnOf(Least(Rest)), result),
         result = "all" /\ wire[ConnOf(Least(Rest))] = "open" => OnMessage(ConnOf(Least(Rest))),
         call' = [call EXCEPT !.at = Least(Rest) + 1],
         UNCHANGED <<pc, fds, slots, clientCnt, held, canvas>>
  PROVE  Reaches'
<1> DEFINE n == Least(Rest)
           c == ConnOf(n)
<1>1. ~Halted /\ Reaches /\ Sending
  BY DEF Halted, Sending, Delivery
<1>2. n \in Rest /\ n \in Open /\ n \in Nat /\ n >= call.at /\ c \in Conns /\ \A j \in Rest : n <= j
  <2>1. Rest \in SUBSET Slots
    BY DEF Rest, Open
  <2>2. n \in Rest /\ \A j \in Rest : n <= j
    BY <2>1, LeastIn
  <2> QED BY <2>1, <2>2, OpenAlone, Names DEF Rest
<1>3. /\ {"kind", "cell", "cnt", "ret", "at"} \subseteq DOMAIN call' /\ call'.at = n + 1
      /\ call'.kind = call.kind /\ call'.cell = call.cell /\ call'.cnt = call.cnt /\ call'.ret = call.ret
  BY <1>1 DEF IInv, Shapes, Reaches, Control
<1>4. \A d \in Conns \ {c} : wire'[d] = wire[d] /\ shown'[d] = shown[d] /\ screen'[d] = screen[d]
  BY <1>2 DEF Heard, OnMessage, pageVars, Delivery, Displays
<1>5. wire'[c] = "open" => wire[c] = "open" /\ result = "all" /\ OnMessage(c)
  BY <1>2 DEF Heard, Delivery, Displays
<1>6. ~(wire[c] = "open" /\ result = "all") => UNCHANGED pageVars
  BY DEF Heard
<1>7. ASSUME call.kind = "count", wire'[c] = "open" PROVE shown'[c] = clientCnt /\ UNCHANGED screen
  BY <1>1, <1>2, <1>5, <1>7 DEF OnMessage, Delivery, Displays, Reaches, Control
<1>8. ASSUME call.kind = "pixel", wire'[c] = "open"
      PROVE  /\ UNCHANGED shown /\ screen'[c][call.cell] = canvas[call.cell]
             /\ \A k \in Told \ {call.cell} : screen'[c][k] = screen[c][k]
  <2>1. UNCHANGED shown /\ screen' = [screen EXCEPT ![c][call.cell] = canvas[call.cell]]
    BY <1>5, <1>8 DEF OnMessage
  <2>2. call.cell \in 1 .. Cells /\ DOMAIN screen[c] = 1 .. Cells /\ c \in DOMAIN screen
    BY <1>1, <1>2, <1>8 DEF Reaches, Control, Delivery, Displays
  <2>3. \A k \in Told : k \in 1 .. Cells
    BY CanvasFileAssumption DEF Told
  <2> QED BY <2>1, <2>2, <2>3
<1>9. \A i \in Open' : /\ i \in Open /\ i \in Nat /\ ConnOf(i)' = ConnOf(i) /\ ConnOf(i) \in Conns
                       /\ i >= call.at => i = n \/ i >= n + 1
  <2> SUFFICES ASSUME NEW i \in Open'
               PROVE  /\ i \in Open /\ i \in Nat /\ ConnOf(i)' = ConnOf(i) /\ ConnOf(i) \in Conns
                      /\ i >= call.at => i = n \/ i >= n + 1
    OBVIOUS
  <2>1. i \in Open /\ i \in Nat /\ ConnOf(i)' = ConnOf(i) /\ ConnOf(i) \in Conns
    BY OpenAlone, Names DEF Open, ConnOf
  <2>2. i >= call.at => n <= i
    BY <1>2, <2>1 DEF Rest
  <2> QED BY <1>2, <2>1, <2>2
<1> HIDE DEF n, c
<1>10. Control'
  BY <1>1, <1>3 DEF Reaches, Control, Sending, Halted
<1>11. ASSUME NEW i \in Open' PROVE CountTold(i)' \/ Pending(i, "count")'
  <2>1. CASE call.kind = "count" /\ i >= n + 1
    BY <1>1, <1>3, <2>1 DEF Pending, Sending
  <2>2. CASE ConnOf(i) = c
    <3>1. CASE call.kind = "count"
      BY <1>7, <1>9, <2>2, <3>1 DEF CountTold
    <3>2. CASE call.kind = "pixel"
      BY <1>1, <1>5, <1>8, <1>9, <2>2, <3>2 DEF CountTold, Reaches, CountReaches, Pending
    <3> QED BY <3>1, <3>2
  <2>3. CASE ConnOf(i) # c /\ ~(call.kind = "count" /\ i >= n + 1)
    <3>1. ~(call.kind = "count" /\ i >= call.at)
      BY <1>9, <2>3 DEF c
    <3> QED BY <1>1, <1>4, <1>9, <2>3, <3>1 DEF CountTold, Reaches, CountReaches, Pending
  <2> QED BY <2>1, <2>2, <2>3
<1>12. ASSUME NEW i \in Open'
       PROVE  CellsTold(i, Told)' \/ (Pending(i, "pixel")' /\ CellsTold(i, Told \ {call.cell})')
  <2>1. CASE ConnOf(i) = c
    <3>1. CASE call.kind = "count"
      BY <1>1, <1>5, <1>7, <1>9, <2>1, <3>1 DEF CellsTold, Told, Reaches, PixelReaches, Pending
    <3>2. CASE call.kind = "pixel"
      <4>1. wire'[c] = "open" => \A k \in Told \ {call.cell} : screen[c][k] = canvas[k]
        BY <1>1, <1>5, <1>9, <2>1 DEF CellsTold, Reaches, PixelReaches
      <4> QED BY <1>8, <1>9, <2>1, <3>2, <4>1 DEF CellsTold, Told
    <3> QED BY <3>1, <3>2
  <2>2. CASE ConnOf(i) # c
    <3>1. i >= call.at => i >= n + 1
      BY <1>9, <2>2 DEF c
    <3>2. Pending(i, "pixel") => Pending(i, "pixel")'
      BY <1>1, <1>3, <3>1 DEF Pending, Sending
    <3>3. CellsTold(i, Told) => CellsTold(i, Told)'
      BY <1>4, <1>9, <2>2 DEF CellsTold, Told
    <3>4. CellsTold(i, Told \ {call.cell}) => CellsTold(i, Told \ {call.cell})'
      BY <1>3, <1>4, <1>9, <2>2 DEF CellsTold, Told
    <3> QED BY <1>1, <1>9, <3>2, <3>3, <3>4 DEF Reaches, PixelReaches
  <2> QED BY <2>1, <2>2
<1> QED BY <1>10, <1>11, <1>12 DEF Reaches, CountReaches, PixelReaches

LEMMA SendReaches ==
  ASSUME IInv, Delivery, broadcast_client_count \/ broadcast_to_clients
  PROVE  Reaches'
<1> DEFINE f == slots[Least(Rest)].fd
<1>1. pc = "send" /\ Rest # {} /\ call.kind \in {"count", "pixel"} /\ UNCHANGED canvas
  BY DEF broadcast_client_count, broadcast_to_clients, Send, fileVars
<1>2. fds[f] \in Conns
  <2>1. Rest \in SUBSET Slots /\ Rest \in SUBSET Open
    BY DEF Rest, Open
  <2> QED BY <1>1, <2>1, LeastIn, OpenAlone DEF ConnOf
<1>3. "file" \notin SendResults(f)
  <2>1. f \in Fds
    BY <1>1, OpenAlone, LeastIn DEF Rest, Open, IInv, Shapes, SlotShapes
  <2>2. peer[fds[f]] \in {"up", "fin", "rst", "finrst"}
    BY <1>2, <2>1 DEF Delivery, AcceptedOnce
  <2>3. fds[f] # TmpFile /\ fds[f] # Closed
    BY <1>2, Names
  <2> HIDE DEF f
  <2> QED BY <2>1, <2>2, <2>3 DEF SendResults
<1>4. CASE Dies
  BY <1>4, HaltedReaches DEF Dies, GoTo, Halted, Delivery, Reaches, Control
<1>5. ASSUME NEW cnt, CallCount(cnt, "send"), UNCHANGED held PROVE Reaches'
  <2>1. held' /\ pc' = "lock" /\ {"kind", "cell", "cnt"} \subseteq DOMAIN call' /\ call'.kind = "count"
    BY <1>1, <1>5 DEF CallCount, NoCall, Delivery, Reaches, Control
  <2> QED BY <2>1, HaltedReaches DEF Halted
<1> QED BY <1>1, <1>3, <1>4, <1>5, WritevReaches DEF broadcast_client_count, broadcast_to_clients, Send

LEMMA SameDisplays ==
  ASSUME Displays, UNCHANGED <<wire, shown, screen, canvas>>
  PROVE  Displays'
BY DEF Displays

LEMMA DisplaysStep == ASSUME Delivery, Main \/ Sigint \/ Clients PROVE Displays'
<1>1. Displays
  BY DEF Delivery
<1>2. CASE EpollWait \/ NextEvent \/ Dispatch \/ AcceptEnds \/ Accept \/ Lock \/ Unlock \/ Log \/ Sigint
  BY <1>1, <1>2, SameDisplays DEF EpollWait, NextEvent, Dispatch, AcceptEnds, Accept, Lock, Unlock, Log,
     Sigint, netVars, fileVars, pageVars
<1>3. CASE Recv \/ FramesEnd \/ Sweep \/ HandshakeFailed \/ Clients
  BY <1>1, <1>3, SameDisplays DEF Recv, FramesEnd, netVars, Sweep, HandshakeFailed, Refuse, Clients, Client, Connect, ClientSend,
     ClientLeave, Ended, fileVars, pageVars
<1>4. CASE ProcessFrame
  <2>1. UNCHANGED <<wire, shown, screen>> /\ DOMAIN canvas' = DOMAIN canvas
    BY <1>4 DEF ProcessFrame, SetPixel, pageVars
  <2> QED BY <1>1, <2>1 DEF Displays
<1>5. CASE Handshake
  <2>1. UNCHANGED <<shown, screen, canvas>> /\ DOMAIN wire' = DOMAIN wire
    BY <1>5 DEF Handshake, Refuse, fileVars, pageVars
  <2> QED BY <1>1, <2>1 DEF Displays
<1>6. CASE Initial
  <2>1. UNCHANGED canvas /\ DOMAIN wire' = DOMAIN wire /\ UNCHANGED shown
    BY <1>6 DEF Initial, Heard, fileVars, pageVars
  <2>2. \/ UNCHANGED screen
        \/ screen' = [screen EXCEPT ![ConnOf(cur)] =
                        [i \in 1 .. Cells |-> IF i \in Told THEN canvas[i] ELSE @[i]]]
    BY <1>6 DEF Initial, Heard, pageVars
  <2>3. DOMAIN screen' = Conns /\ \A c \in Conns : DOMAIN screen'[c] = 1 .. Cells
    BY <1>1, <2>2 DEF Displays
  <2> QED BY <1>1, <2>1, <2>3 DEF Displays
<1>7. CASE broadcast_client_count \/ broadcast_to_clients
  <2> DEFINE c == ConnOf(Least(Rest))
  <2>1. UNCHANGED canvas /\ DOMAIN wire' = DOMAIN wire
    BY <1>7 DEF broadcast_client_count, broadcast_to_clients, Send, Heard, fileVars
  <2>2. UNCHANGED pageVars \/ OnMessage(c)
    BY <1>7 DEF broadcast_client_count, broadcast_to_clients, Send, Heard
  <2>3. /\ DOMAIN shown' = Conns /\ DOMAIN screen' = Conns
        /\ \A d \in Conns : DOMAIN screen'[d] = 1 .. Cells
    BY <1>1, <2>2 DEF OnMessage, pageVars, Displays
  <2> QED BY <1>1, <2>1, <2>3 DEF Displays
<1> QED BY <1>2, <1>3, <1>4, <1>5, <1>6, <1>7 DEF Main

LEMMA IInvStep == ASSUME IInv, Main \/ Sigint \/ Clients PROVE IInv'
BY DispatchKeeps, AcceptKeeps, HandshakeKeeps, HandshakeFailedKeeps, InitialKeeps, ReadKeeps, SendKeeps,
   MoveKeeps, ClientsKeep DEF Main

LEMMA SameReaches ==
  ASSUME Reaches, UNCHANGED <<slots, clientCnt, pc, held, call, fds, wire, shown, screen, canvas>>
  PROVE  Reaches'
<1>1. Control' /\ (Halted' <=> Halted) /\ Open' = Open
  BY DEF Reaches, Control, Halted, Sending, Open
<1>2. \A i \in Open : /\ CountTold(i)' = CountTold(i)
                      /\ \A S : CellsTold(i, S)' = CellsTold(i, S)
                      /\ \A kind : Pending(i, kind)' = Pending(i, kind)
  BY DEF CountTold, CellsTold, Pending, Sending, ConnOf
<1> QED BY <1>1, <1>2 DEF Reaches, CountReaches, PixelReaches, Told

LEMMA ReachesStep == ASSUME IInv, Delivery, Main \/ Sigint \/ Clients PROVE Reaches'
<1>1. CASE Clients
  <2>1. UNCHANGED <<slots, clientCnt, pc, held, call, fds, wire, shown, screen, canvas>>
    BY <1>1 DEF Clients, Client, Connect, ClientSend, ClientLeave, Ended, fileVars, loopVars, pageVars
  <2> QED BY <2>1, SameReaches DEF Delivery
<1>2. CASE HandshakeFailed
  <2>1. ~Halted /\ ~Sending /\ Place = "refuse"
    BY <1>2 DEF HandshakeFailed, Halted, Sending, Place
  <2> QED BY <1>2, <2>1, RefuseReaches DEF HandshakeFailed, Delivery
<1> QED BY <1>1, <1>2, LoopReaches, HandshakeReaches, InitialReaches, ReadReaches, MutexReaches, SendReaches
        DEF Main

-----------------------------------------------------------------------------
(* Picked: what it returns are the elements at the places asked for, in    *)
(* their order.                                                            *)
LEMMA Induction ==
  ASSUME NEW S, 0 \in S, \A n \in Nat : n \in S => n + 1 \in S
  PROVE  Nat \subseteq S
<1> SUFFICES ASSUME Nat \ S # {} PROVE FALSE
  OBVIOUS
<1>1. PICK m \in Nat \ S : \A x \in Nat \ S : m <= x
  <2>1. Nat \ S \in SUBSET Nat
    OBVIOUS
  <2> QED BY <2>1, Minimum
<1>2. m # 0 /\ m - 1 \in Nat /\ m - 1 \in S
  BY <1>1
<1> QED BY <1>1, <1>2

(* f is the function that Picked defines, up to N. *)
Picks(s, P, f, N) ==
  f = [n \in 0 .. N |-> IF n = 0 THEN <<>>
                        ELSE IF n \in P THEN Append(f[n - 1], s[n]) ELSE f[n - 1]]

LEMMA PicksExists ==
  ASSUME NEW s, NEW P, NEW N \in Nat
  PROVE  \E f : Picks(s, P, f, N)
<1> DEFINE S == {m \in Nat : \E f : Picks(s, P, f, m)}
<1>1. 0 \in S
  <2> DEFINE f == [n \in 0 .. 0 |-> <<>>]
  <2>1. Picks(s, P, f, 0)
    BY DEF Picks
  <2> QED BY <2>1
<1>2. ASSUME NEW m \in Nat, m \in S PROVE m + 1 \in S
  <2>1. PICK f : Picks(s, P, f, m)
    BY <1>2
  <2> DEFINE g == [n \in 0 .. m + 1 |-> IF n <= m THEN f[n]
                      ELSE IF m + 1 \in P THEN Append(f[m], s[m + 1]) ELSE f[m]]
  <2>2. \A n \in 0 .. m : g[n] = f[n]
    OBVIOUS
  <2>3. ASSUME NEW n \in 0 .. m + 1
        PROVE  g[n] = IF n = 0 THEN <<>>
                      ELSE IF n \in P THEN Append(g[n - 1], s[n]) ELSE g[n - 1]
    <3>1. \A i \in 0 .. m : f[i] = IF i = 0 THEN <<>>
                        ELSE IF i \in P THEN Append(f[i - 1], s[i]) ELSE f[i - 1]
      BY <2>1 DEF Picks
    <3>2. CASE n = m + 1
      <4>1. n # 0 /\ n - 1 = m /\ g[m] = f[m]
        BY <3>2, <2>2
      <4> QED BY <4>1, <3>2
    <3>3. CASE n # m + 1
      <4>1. n \in 0 .. m /\ g[n] = f[n]
        BY <3>3, <2>2
      <4>2. n # 0 => n - 1 \in 0 .. m /\ g[n - 1] = f[n - 1]
        BY <4>1, <2>2
      <4> HIDE DEF g
      <4> QED BY <3>1, <4>1, <4>2
    <3> QED BY <3>2, <3>3
  <2>4. Picks(s, P, g, m + 1)
    <3>1. g = [n \in 0 .. m + 1 |-> g[n]]
      OBVIOUS
    <3> HIDE DEF g
    <3> QED BY <2>3, <3>1 DEF Picks
  <2> HIDE DEF g
  <2> QED BY <2>4
<1> QED BY <1>1, <1>2, Induction

(* t holds the elements of s at the places Q, in their order: e[j] is the  *)
(* place the j-th of them had.                                             *)
Embeds(t, s, Q, e) ==
  /\ e \in [1 .. Len(t) -> Q]
  /\ \A j \in 1 .. Len(t) : t[j] = s[e[j]]
  /\ \A j, k \in 1 .. Len(t) : j < k => e[j] < e[k]
  /\ \A i \in Q : \E j \in 1 .. Len(t) : e[j] = i

EmbedsFirst(t, S, s, P, n) == t \in Seq(S) /\ \E e : Embeds(t, s, P \cap (1 .. n), e)

LEMMA PickedElements ==
  ASSUME NEW S, NEW s \in Seq(S), NEW P \in SUBSET DOMAIN s
  PROVE  Picked(s, P) \in Seq(S) /\ \E e : Embeds(Picked(s, P), s, P, e)
<1>1. Len(s) \in Nat /\ DOMAIN s = 1 .. Len(s) /\ \A i \in 1 .. Len(s) : s[i] \in S
  BY LenProperties, ElementOfSeq
<1> DEFINE first[n \in 0 .. Len(s)] ==
        IF n = 0 THEN <<>>
        ELSE IF n \in P THEN Append(first[n - 1], s[n]) ELSE first[n - 1]
<1>2. Picked(s, P) = first[Len(s)]
  BY DEF Picked
<1>3. Picks(s, P, first, Len(s))
  <2>1. \E f : Picks(s, P, f, Len(s))
    BY <1>1, PicksExists
  <2>2. \E f : f = [n \in 0 .. Len(s) |-> IF n = 0 THEN <<>>
                        ELSE IF n \in P THEN Append(f[n - 1], s[n]) ELSE f[n - 1]]
    BY <2>1 DEF Picks
  <2> QED BY <2>2 DEF Picks
<1> HIDE DEF first
<1>4. \A n \in 0 .. Len(s) : first[n] = IF n = 0 THEN <<>>
                        ELSE IF n \in P THEN Append(first[n - 1], s[n]) ELSE first[n - 1]
  BY <1>3 DEF Picks
<1> DEFINE G == {n \in Nat : n <= Len(s) => EmbedsFirst(first[n], S, s, P, n)}
<1>5. 0 \in G
  <2>1. first[0] = <<>>
    BY <1>1, <1>4
  <2> DEFINE e == [j \in 1 .. 0 |-> 0]
  <2>2. <<>> \in Seq(S) /\ Len(<<>>) = 0
    BY EmptySeq
  <2>3. e \in [1 .. 0 -> P \cap (1 .. 0)]
    OBVIOUS
  <2> HIDE DEF e
  <2>4. Embeds(<<>>, s, P \cap (1 .. 0), e)
    BY <2>2, <2>3 DEF Embeds
  <2>5. EmbedsFirst(first[0], S, s, P, 0)
    BY <2>1, <2>2, <2>4 DEF EmbedsFirst
  <2> QED BY <2>5
<1>6. ASSUME NEW n \in Nat, n \in G PROVE n + 1 \in G
  <2> SUFFICES ASSUME n + 1 <= Len(s)
               PROVE  EmbedsFirst(first[n + 1], S, s, P, n + 1)
    OBVIOUS
  <2> DEFINE t == first[n]
  <2>0. EmbedsFirst(t, S, s, P, n)
    BY <1>1, <1>6
  <2>1. t \in Seq(S) /\ \E e : Embeds(t, s, P \cap (1 .. n), e)
    BY <2>0 DEF EmbedsFirst
  <2>2. PICK e : Embeds(t, s, P \cap (1 .. n), e)
    BY <2>1
  <2>3. first[n + 1] = IF n + 1 \in P THEN Append(t, s[n + 1]) ELSE t
    <3>1. n + 1 \in 0 .. Len(s) /\ n + 1 # 0 /\ (n + 1) - 1 = n
      BY <1>1
    <3> QED BY <1>4, <3>1
  <2> HIDE DEF t
  <2>4. Len(t) \in Nat
    BY <2>1, LenProperties
  <2>5. CASE n + 1 \notin P
    <3>1. P \cap (1 .. n + 1) = P \cap (1 .. n)
      BY <2>5
    <3> QED BY <2>1, <2>2, <2>3, <2>5, <3>1 DEF EmbedsFirst
  <2>6. CASE n + 1 \in P
    <3> DEFINE u == Append(t, s[n + 1])
               d == [j \in 1 .. Len(t) + 1 |-> IF j = Len(t) + 1 THEN n + 1 ELSE e[j]]
    <3>1. /\ u \in Seq(S)
          /\ Len(u) = Len(t) + 1
          /\ \A j \in 1 .. Len(t) : u[j] = t[j]
          /\ u[Len(t) + 1] = s[n + 1]
      <4>1. s[n + 1] \in S
        BY <1>1
      <4> QED BY <2>1, <4>1, AppendProperties
    <3>2. d[Len(t) + 1] = n + 1 /\ \A j \in 1 .. Len(t) : d[j] = e[j]
      BY <2>4
    <3>3. \A j \in 1 .. Len(t) : e[j] \in P /\ e[j] \in 1 .. n
      BY <2>2 DEF Embeds
    <3>4. d \in [1 .. Len(t) + 1 -> P \cap (1 .. n + 1)]
      BY <2>4, <2>6, <3>3
    <3> HIDE DEF u, d
    <3>5. \A j \in 1 .. Len(u) : u[j] = s[d[j]]
      BY <2>2, <2>4, <3>1, <3>2 DEF Embeds
    <3>6. ASSUME NEW j \in 1 .. Len(u), NEW k \in 1 .. Len(u), j < k PROVE d[j] < d[k]
      <4>1. j \in 1 .. Len(t) /\ d[j] = e[j] /\ e[j] \in 1 .. n
        BY <2>4, <3>1, <3>2, <3>3, <3>6
      <4>2. CASE k = Len(t) + 1
        BY <3>2, <4>1, <4>2
      <4>3. CASE k # Len(t) + 1
        <5>1. k \in 1 .. Len(t)
          BY <2>4, <3>1, <4>3
        <5> QED BY <2>2, <3>2, <3>6, <4>1, <5>1 DEF Embeds
      <4> QED BY <4>2, <4>3
    <3>7. ASSUME NEW i \in P \cap (1 .. n + 1) PROVE \E j \in 1 .. Len(u) : d[j] = i
      <4>1. CASE i = n + 1
        BY <2>4, <3>1, <3>2, <4>1
      <4>2. CASE i # n + 1
        <5>1. i \in P \cap (1 .. n)
          BY <4>2
        <5>2. PICK j \in 1 .. Len(t) : e[j] = i
          BY <2>2, <5>1 DEF Embeds
        <5>3. j \in 1 .. Len(u) /\ d[j] = i
          BY <2>4, <3>1, <3>2, <5>2
        <5> QED BY <5>3
      <4> QED BY <4>1, <4>2
    <3>8. Embeds(u, s, P \cap (1 .. n + 1), d)
      BY <3>1, <3>4, <3>5, <3>6, <3>7 DEF Embeds
    <3>9. EmbedsFirst(u, S, s, P, n + 1)
      BY <3>1, <3>8 DEF EmbedsFirst
    <3> QED BY <2>3, <2>6, <3>9 DEF u
  <2> QED BY <2>5, <2>6
<1>7. Len(s) \in G
  <2> HIDE DEF G
  <2> QED BY <1>1, <1>5, <1>6, Induction
<1>8. EmbedsFirst(first[Len(s)], S, s, P, Len(s))
  BY <1>1, <1>7
<1>9. P \cap (1 .. Len(s)) = P
  BY <1>1
<1> QED BY <1>2, <1>8, <1>9 DEF EmbedsFirst


LEMMA PickedOnce ==
  ASSUME NEW S, NEW s \in Seq(S), NEW P \in SUBSET DOMAIN s,
         \A j, k \in 1 .. Len(s) : s[j] = s[k] => j = k
  PROVE  LET t == Picked(s, P) IN
         /\ t \in Seq(S)
         /\ \A j, k \in 1 .. Len(t) : t[j] = t[k] => j = k
         /\ \A j \in 1 .. Len(t) : \E i \in P : i \in 1 .. Len(s) /\ t[j] = s[i]
<1> DEFINE t == Picked(s, P)
<1>1. Len(s) \in Nat /\ DOMAIN s = 1 .. Len(s)
  BY LenProperties
<1>2. t \in Seq(S) /\ \E e : Embeds(t, s, P, e)
  BY PickedElements
<1>3. PICK e : Embeds(t, s, P, e)
  BY <1>2
<1> HIDE DEF t
<1>4. Len(t) \in Nat
  BY <1>2, LenProperties
<1>5. \A j \in 1 .. Len(t) : e[j] \in P /\ e[j] \in 1 .. Len(s) /\ t[j] = s[e[j]]
  BY <1>1, <1>3 DEF Embeds
<1>6. ASSUME NEW j \in 1 .. Len(t), NEW k \in 1 .. Len(t), t[j] = t[k] PROVE j = k
  <2>1. e[j] = e[k]
    BY <1>5, <1>6
  <2>2. ~(j < k) /\ ~(k < j)
    BY <1>3, <1>5, <2>1 DEF Embeds
  <2> QED BY <1>4, <2>2
<1> QED BY <1>2, <1>5, <1>6 DEF t

-----------------------------------------------------------------------------
(***************************************************************************)
(* Worlds in which no connection is reset, no send fails or falls short    *)
(* and epoll_ctl succeeds: no descriptor is closed but a connection's, by  *)
(* the handler of its client, and the count is right.                      *)
(***************************************************************************)
(* The ready list r is one of the sockets of the descriptors F.            *)
Listed(r, F) == /\ r \in Seq(Conns \cup {Listener})
                /\ \A j, k \in 1 .. Len(r) : r[j] = r[k] => j = k
                /\ \A k \in 1 .. Len(r) : r[k] # Listener => \E f \in Fds : F[f] = r[k]

(* Nobody's connection was reset.                                          *)
Live == \A c \in Conns : Registered(c) \/ Contains(backlog, c) => peer[c] \in {"up", "fin"}

Events == [fd : Fds \cup {0}, in : BOOLEAN, hup : {FALSE}]

(* Each event left is that of a socket.                                    *)
Expected == /\ batch \in Seq(Events)
            /\ Handling \/ Place \in {"dispatch", "accept", "next"} => batch # <<>>
            /\ \A j, k \in 1 .. Len(batch) : batch[j].fd = batch[k].fd => j = k
            /\ \A k \in 1 .. Len(batch) : batch[k].fd # 0 /\ (k > 1 \/ pc = "dispatch") =>
                                            fds[batch[k].fd] \in Conns

(* The slot of the event being handled, by the place of the handler.       *)
InHand == /\ Handling => slots[cur].fd = Head(batch).fd
          /\ Place # "refuse"
          /\ Place \in {"handshake", "initial"} => fds[slots[cur].fd] \in Conns
          /\ Place = "initial" => ~slots[cur].done
          /\ Place \in {"recv", "frames"} => slots[cur].done

Counted == clientCnt = Cardinality(Open)

Gentle == SoundCount /\ Listed(ready, fds) /\ Live /\ Expected /\ InHand /\ Counted

(* The number of the stream stays its.                                     *)
StreamLeft == \A f \in Fds : fds[f] = TmpFile => fds'[f] = TmpFile

LEMMA SoundAlways == ASSUME SoundCount, UNCHANGED world PROVE SoundCount'
BY DEF SoundCount, ClosesOnce, Script, Aborting, Slow, CtlFails

LEMMA InitGentle == ASSUME Init, SoundCount PROVE Gentle
<1>1. /\ ready = <<>> /\ batch = <<>> /\ backlog = <<>> /\ pc = "wait" /\ clientCnt = 0
      /\ fds = [f \in Fds |-> Closed] /\ slots = [i \in Slots |-> Free]
  BY DEF Init, setup_server, NetInit
<1>2. Listed(ready, fds)
  BY <1>1, EmptySeq DEF Listed
<1>3. Live
  BY <1>1, Names, EmptySeq DEF Live, Registered, Contains
<1>4. Place = "wait" /\ ~Handling
  BY <1>1 DEF Place, Handling
<1>5. Expected
  BY <1>1, <1>4, EmptySeq DEF Expected
<1>6. Counted
  <2>1. Open = {}
    BY <1>1 DEF Open, Free
  <2> QED BY <1>1, <2>1, FS_EmptySet DEF Counted
<1> QED BY <1>2, <1>3, <1>4, <1>5, <1>6 DEF Gentle, InHand

(* Arrivals and closing keep the list.                                     *)
LEMMA NotifiedListed ==
  ASSUME NEW r, NEW F, Listed(r, F), NEW s \in Conns \cup {Listener},
         s # Listener => \E f \in Fds : F[f] = s
  PROVE  Listed(IF Contains(r, s) THEN r ELSE Append(r, s), F)
<1> SUFFICES ASSUME ~Contains(r, s) PROVE Listed(Append(r, s), F)
  OBVIOUS
<1>1. r \in Seq(Conns \cup {Listener}) /\ Len(r) \in Nat /\ \A k \in 1 .. Len(r) : r[k] # s
  BY LenProperties DEF Listed, Contains
<1>2. /\ Append(r, s) \in Seq(Conns \cup {Listener}) /\ Len(Append(r, s)) = Len(r) + 1
      /\ \A k \in 1 .. Len(r) : Append(r, s)[k] = r[k]
      /\ Append(r, s)[Len(r) + 1] = s
  BY <1>1, AppendProperties
<1>3. \A k \in 1 .. Len(r) + 1 : k \in 1 .. Len(r) \/ k = Len(r) + 1
  BY <1>1
<1>4. \A j, k \in 1 .. Len(r) + 1 : Append(r, s)[j] = Append(r, s)[k] => j = k
  BY <1>1, <1>2, <1>3 DEF Listed
<1>5. \A k \in 1 .. Len(r) + 1 : Append(r, s)[k] # Listener => \E f \in Fds : F[f] = Append(r, s)[k]
  BY <1>2, <1>3 DEF Listed
<1> QED BY <1>2, <1>4, <1>5 DEF Listed

LEMMA CloseListed ==
  ASSUME IInv, AcceptedOnce, Listed(ready, fds), NEW f \in Fds, CloseFd(f)
  PROVE  Listed(ready', fds')
<1>1. DOMAIN fds' = Fds /\ fds'[f] = Closed /\ \A g \in Fds \ {f} : fds'[g] = fds[g]
  BY DEF CloseFd, IInv, Shapes
<1>2. CASE fds[f] \notin Conns
  <2>1. ready' = ready
    BY <1>2 DEF CloseFd
  <2>2. ASSUME NEW k \in 1 .. Len(ready), ready[k] # Listener PROVE \E g \in Fds : fds'[g] = ready[k]
    <3>1. PICK g \in Fds : fds[g] = ready[k]
      BY <2>2 DEF Listed
    <3>2. ready[k] \in Conns
      BY <2>2, ElementOfSeq DEF Listed
    <3> QED BY <1>1, <1>2, <3>1, <3>2
  <2> QED BY <2>1, <2>2 DEF Listed
<1>3. CASE fds[f] \in Conns
  <2> DEFINE P == {k \in DOMAIN ready : ready[k] # fds[f]}
  <2>1. ready' = Picked(ready, P) /\ P \in SUBSET DOMAIN ready
    BY <1>3 DEF CloseFd, Without
  <2> HIDE DEF P
  <2>2. /\ ready' \in Seq(Conns \cup {Listener})
        /\ \A j, k \in 1 .. Len(ready') : ready'[j] = ready'[k] => j = k
        /\ \A j \in 1 .. Len(ready') : \E i \in P : i \in 1 .. Len(ready) /\ ready'[j] = ready[i]
    BY <2>1, PickedOnce DEF Listed
  <2>3. ASSUME NEW k \in 1 .. Len(ready'), ready'[k] # Listener PROVE \E g \in Fds : fds'[g] = ready'[k]
    <3>1. PICK i \in P : i \in 1 .. Len(ready) /\ ready'[k] = ready[i]
      BY <2>2
    <3>2. ready[i] # fds[f]
      BY DEF P
    <3>3. PICK g \in Fds : fds[g] = ready[i]
      BY <2>3, <3>1 DEF Listed
    <3> QED BY <1>1, <3>1, <3>2, <3>3
  <2> QED BY <2>2, <2>3 DEF Listed
<1> QED BY <1>2, <1>3

(* Registered connections are those of before, or fewer.                   *)
LEMMA LiveKept ==
  ASSUME Live, UNCHANGED <<peer, backlog>>, \A c \in Conns : Registered(c)' => Registered(c)
  PROVE  Live'
BY DEF Live

(* The open slots are finitely many, fewer than the count can count.       *)
LEMMA OpenFinite ==
  /\ IsFiniteSet(Open) /\ Cardinality(Open) \in Nat /\ Cardinality(Open) <= MaxClients
  /\ \A i \in Open : Cardinality(Open \ {i}) = Cardinality(Open) - 1
  /\ \A i \in Slots \ Open : Cardinality(Open \cup {i}) = Cardinality(Open) + 1
                              /\ Cardinality(Open) + 1 <= MaxClients
<1>1. IsFiniteSet(Slots) /\ Cardinality(Slots) = MaxClients
  <2>1. 1 \in Int /\ MaxClients \in Int /\ 1 <= MaxClients /\ MaxClients - 1 + 1 = MaxClients
    BY CountServerAssumption
  <2>2. IsFiniteSet(1 .. MaxClients) /\ Cardinality(1 .. MaxClients) = MaxClients - 1 + 1
    BY <2>1, FS_Interval
  <2> QED BY <2>1, <2>2 DEF Slots
<1>2. Open \subseteq Slots
  BY DEF Open
<1>3. IsFiniteSet(Open) /\ Cardinality(Open) <= MaxClients
  BY <1>1, <1>2, FS_Subset
<1>4. Cardinality(Open) \in Nat
  BY <1>3, FS_CardinalityType
<1>5. \A i \in Open : Cardinality(Open \ {i}) = Cardinality(Open) - 1
  BY <1>3, FS_RemoveElement
<1>6. ASSUME NEW i \in Slots \ Open
      PROVE  Cardinality(Open \cup {i}) = Cardinality(Open) + 1 /\ Cardinality(Open) + 1 <= MaxClients
  <2>1. Cardinality(Open \cup {i}) = Cardinality(Open) + 1
    BY <1>3, FS_AddElement
  <2>2. Open \cup {i} \subseteq Slots
    BY <1>2
  <2>3. Cardinality(Open \cup {i}) <= MaxClients
    BY <1>1, <2>2, FS_Subset
  <2> QED BY <2>1, <2>3
<1> QED BY <1>3, <1>4, <1>5, <1>6

(* A socket that is sent something takes it.                               *)
LEMMA SendAll ==
  ASSUME IInv, AcceptedOnce, Gentle, NEW f \in Fds, fds[f] \in Conns
  PROVE  SendResults(f) = {"all"}
<1>1. peer[fds[f]] \in {"up", "fin"}
  BY DEF Gentle, Live, Registered
<1>2. Slow = {}
  BY DEF Gentle, SoundCount
<1>3. fds[f] # Closed /\ fds[f] # TmpFile
  BY Names
<1> QED BY <1>1, <1>2, <1>3 DEF SendResults

-----------------------------------------------------------------------------
(* Steps that leave sockets, events and open slots alone.                  *)
LEMMA StayGentle ==
  ASSUME IInv, Gentle, UNCHANGED <<world, fds, ready, peer, backlog, batch, clientCnt, cur>>,
         \A i \in Slots : /\ slots'[i].fd = slots[i].fd /\ slots'[i].done = slots[i].done
                          /\ slots'[i].active = slots[i].active,
         Place' = Place \/ Place' = "sweep" \/ Place' \in {"next", "dead", "stuck", "accept"}
           \/ (Place = "handshake" /\ Place' = "initial") \/ {Place, Place'} = {"recv", "frames"},
         Handling' => Handling,
         Place' \in {"next", "accept"} => Handling \/ Place \in {"dispatch", "next", "accept"},
         pc' = "dispatch" => pc = "dispatch"
  PROVE  Gentle' /\ StreamLeft
<1>1. Listed(ready, fds)' /\ Live'
  BY DEF Gentle, Listed, Live, Registered
<1>2. Open' = Open
  BY DEF Open
<1>3. Counted'
  BY <1>2 DEF Gentle, Counted
<1>4. Handling' \/ Place' \in {"dispatch", "accept", "next"} =>
        Handling \/ Place \in {"dispatch", "accept", "next"}
  BY DEF Handling
<1>5. Expected'
  BY <1>4 DEF Gentle, Expected
<1>6. cur \in Slots \/ ~Handling
  BY DEF IInv, CurrentFirst
<1>7. Place' = "initial" => ~slots[cur].done /\ Handling
  BY DEF Gentle, InHand, IInv, CurrentFirst, Handling
<1>8. InHand'
  BY <1>6, <1>7 DEF Gentle, InHand, Handling
<1> QED BY <1>1, <1>3, <1>5, <1>8, SoundAlways DEF Gentle, StreamLeft

(* The number in hand, a socket's, is closed, and the count broadcast.     *)
LEMMA CloseGentle ==
  ASSUME IInv, AcceptedOnce, Gentle, Handling, CloseFd(slots[cur].fd), fds[slots[cur].fd] \in Conns,
         UNCHANGED <<world, peer, backlog, batch, cur>>,
         slots'[cur].fd = slots[cur].fd, slots'[cur].done = slots[cur].done,
         Place' \in {"sweep", "frames"}, Place' = "frames" => Place = "frames", pc' = "lock",
         Counted'
  PROVE  Gentle' /\ StreamLeft
<1>1. cur \in Slots /\ slots[cur].fd \in Fds
  BY OnlyCurrent
<1> DEFINE f == slots[cur].fd
<1>2. \A g \in Fds : fds'[g] = IF g = f THEN Closed ELSE fds[g]
  BY <1>1 DEF CloseFd, IInv, Shapes
<1>3. StreamLeft
  BY <1>1, <1>2, Names DEF StreamLeft
<1>4. Listed(ready, fds)'
  BY <1>1, CloseListed DEF Gentle
<1>5. Live'
  <2>1. \A c \in Conns : Registered(c)' => Registered(c)
    BY <1>2, Names DEF Registered
  <2> QED BY <2>1, LiveKept DEF Gentle
<1>6. Expected'
  <2>1. Len(batch) \in Nat /\ Len(batch) >= 1 /\ batch[1].fd = f
    BY LenProperties, EmptySeq DEF Gentle, Expected, InHand
  <2>2. ASSUME NEW k \in 1 .. Len(batch), batch[k].fd # 0, k > 1 PROVE fds'[batch[k].fd] \in Conns
    <3>1. fds[batch[k].fd] \in Conns /\ batch[k].fd # batch[1].fd
      BY <2>1, <2>2 DEF Gentle, Expected
    <3>2. batch[k] \in Events
      BY ElementOfSeq DEF Gentle, Expected
    <3>3. batch[k].fd \in Fds
      BY <2>2, <3>2 DEF Events
    <3> QED BY <1>2, <2>1, <3>1, <3>3
  <2> QED BY <2>2 DEF Gentle, Expected
<1>7. InHand'
  BY DEF Gentle, InHand
<1> QED BY <1>3, <1>4, <1>5, <1>6, <1>7, SoundAlways DEF Gentle

LEMMA WaitGentle == ASSUME IInv, AcceptedOnce, Gentle, EpollWait, UNCHANGED world PROVE Gentle' /\ StreamLeft
<1>1. UNCHANGED <<fds, peer, backlog, slots, cur, clientCnt>> /\ ready' = Relisted /\ pc = "wait"
  BY DEF EpollWait
<1>2. Listed(ready', fds') /\ Live' /\ StreamLeft
  <2>1. Relisted = <<>> \/ Relisted = <<Listener>>
    BY DEF Relisted
  <2>2. Listed(<<>>, fds)
    BY EmptySeq DEF Listed
  <2>3. Listed(<<Listener>>, fds)
    <3>1. <<Listener>> \in Seq(Conns \cup {Listener}) /\ Len(<<Listener>>) = 1 /\ <<Listener>>[1] = Listener
      OBVIOUS
    <3> QED BY <3>1 DEF Listed
  <2>4. Live'
    BY <1>1 DEF Gentle, Live, Registered
  <2> QED BY <1>1, <2>1, <2>2, <2>3, <2>4 DEF StreamLeft
<1>3. Counted'
  <2>1. Open' = Open
    BY <1>1 DEF Open
  <2> QED BY <1>1, <2>1 DEF Gentle, Counted
<1>4. CASE UNCHANGED <<batch, pc, call>>
  <2>1. Place' = Place
    BY <1>4 DEF Place
  <2>2. Expected' /\ InHand'
    BY <1>1, <1>4, <2>1 DEF Gentle, Expected, InHand, Handling
  <2> QED BY <1>2, <1>3, <2>2, SoundAlways DEF Gentle
<1>5. CASE /\ Reported # <<>>
           /\ batch' = [k \in DOMAIN Reported |-> Event(Reported[k])]
           /\ GoTo("dispatch")
  <2> DEFINE P == {k \in DOMAIN ready : Reportable(ready[k])}
             t == Reported
  <2>1. t = Picked(ready, P) /\ P \in SUBSET DOMAIN ready
    BY DEF Reported
  <2> HIDE DEF P, t
  <2>2. /\ t \in Seq(Conns \cup {Listener})
        /\ \A j, k \in 1 .. Len(t) : t[j] = t[k] => j = k
        /\ \A j \in 1 .. Len(t) : \E i \in P : i \in 1 .. Len(ready) /\ t[j] = ready[i]
    <3>1. ready \in Seq(Conns \cup {Listener}) /\ \A j, k \in 1 .. Len(ready) : ready[j] = ready[k] => j = k
      BY DEF Gentle, Listed
    <3> QED BY <2>1, <3>1, PickedOnce
  <2>3. Len(t) \in Nat /\ DOMAIN t = 1 .. Len(t) /\ t # <<>>
    BY <1>5, <2>2, LenProperties DEF t
  <2>4. ASSUME NEW k \in 1 .. Len(t), t[k] # Listener
        PROVE  /\ t[k] \in Conns /\ \E f \in Fds : fds[f] = t[k] /\ Event(t[k]).fd = f
               /\ ~Hup(t[k])
    <3>1. t[k] \in Conns
      BY <2>2, <2>4, ElementOfSeq
    <3>2. \E f \in Fds : fds[f] = t[k]
      BY <2>2, <2>4 DEF Gentle, Listed
    <3>3. Event(t[k]).fd = CHOOSE f \in Fds : fds[f] = t[k]
      BY <2>4 DEF Event
    <3>4. Event(t[k]).fd \in Fds /\ fds[Event(t[k]).fd] = t[k]
      BY <3>2, <3>3
    <3>5. peer[t[k]] \in {"up", "fin"}
      BY <3>1, <3>2 DEF Gentle, Live, Registered
    <3> QED BY <3>1, <3>4, <3>5 DEF Hup
  <2>5. \A k \in 1 .. Len(t) : t[k] = Listener => Event(t[k]).fd = 0
    BY DEF Event
  <2>6. \A k \in 1 .. Len(t) : Event(t[k]) \in Events
    <3> SUFFICES ASSUME NEW k \in 1 .. Len(t) PROVE Event(t[k]) \in Events
      OBVIOUS
    <3>1. Event(t[k]).fd \in Fds \cup {0}
      BY <2>4, <2>5
    <3>2. (t[k] # Listener /\ Hup(t[k])) = FALSE
      BY <2>4
    <3>3. (t[k] = Listener \/ CanRead(t[k])) \in BOOLEAN
      BY DEF CanRead
    <3> QED BY <3>1, <3>2, <3>3 DEF Event, Events
  <2>7. batch' = [k \in 1 .. Len(t) |-> Event(t[k])]
    BY <1>5, <2>3 DEF t
  <2>8. batch' \in Seq(Events) /\ Len(batch') = Len(t) /\ batch' # <<>>
    <3>1. batch' \in [1 .. Len(t) -> Events]
      BY <2>6, <2>7
    <3>2. batch' \in Seq(Events) /\ Len(batch') = Len(t)
      BY <2>3, <3>1, SeqDef, LenProperties
    <3>3. Len(t) # 0
      BY <2>2, <2>3, EmptySeq
    <3> QED BY <3>2, <3>3
  <2>9. ASSUME NEW j \in 1 .. Len(t), NEW k \in 1 .. Len(t), batch'[j].fd = batch'[k].fd PROVE j = k
    <3>1. Event(t[j]).fd = Event(t[k]).fd
      BY <2>7, <2>9
    <3>2. t[j] = t[k]
      BY <2>4, <2>5, <3>1, Names
    <3> QED BY <2>2, <3>2
  <2>10. ASSUME NEW k \in 1 .. Len(t), batch'[k].fd # 0 PROVE fds[batch'[k].fd] \in Conns
    <3>1. t[k] # Listener /\ batch'[k].fd = Event(t[k]).fd
      BY <2>5, <2>7, <2>10
    <3> QED BY <2>4, <3>1
  <2>11. Expected'
    BY <1>1, <2>8, <2>9, <2>10 DEF Expected
  <2>12. InHand'
    BY <1>5 DEF GoTo, InHand, Handling, Place
  <2> QED BY <1>2, <1>3, <2>11, <2>12, SoundAlways DEF Gentle
<1> QED BY <1>4, <1>5 DEF EpollWait

LEMMA NextGentle == ASSUME IInv, Gentle, NextEvent, UNCHANGED world PROVE Gentle' /\ StreamLeft
<1>1. UNCHANGED <<netVars, slots, cur, clientCnt>> /\ pc = "next" /\ Place = "next" /\ batch' = Tail(batch)
  BY DEF NextEvent, Place
<1>2. /\ batch # <<>> /\ batch \in Seq(Events) /\ Len(batch) \in Nat /\ Len(batch) >= 1
      /\ Tail(batch) \in Seq(Events) /\ Len(Tail(batch)) = Len(batch) - 1
      /\ \A k \in 1 .. Len(Tail(batch)) : Tail(batch)[k] = batch[k + 1] /\ k + 1 \in 1 .. Len(batch) /\ k + 1 > 1
  BY <1>1, HeadTailProperties, LenProperties, EmptySeq DEF Gentle, Expected
<1>3. Listed(ready, fds)' /\ Live' /\ StreamLeft /\ Open' = Open
  BY <1>1 DEF Gentle, Listed, Live, Registered, StreamLeft, netVars, Open
<1>4. pc' = (IF Len(batch) = 1 THEN "wait" ELSE "dispatch") /\ Place' = pc' /\ ~Handling'
  BY DEF NextEvent, GoTo, Place, Handling
<1>5. Expected'
  <2>1. Place' = "dispatch" => batch' # <<>>
    <3>1. SUFFICES ASSUME Len(batch) # 1 PROVE Tail(batch) # <<>>
      BY <1>1, <1>4
    <3>2. Len(Tail(batch)) # 0
      BY <1>2, <3>1
    <3> QED BY <3>2
  <2>2. \A j, k \in 1 .. Len(Tail(batch)) : Tail(batch)[j].fd = Tail(batch)[k].fd => j = k
    <3> SUFFICES ASSUME NEW j \in 1 .. Len(Tail(batch)), NEW k \in 1 .. Len(Tail(batch)),
                        Tail(batch)[j].fd = Tail(batch)[k].fd
                 PROVE  j = k
      OBVIOUS
    <3>1. j + 1 = k + 1
      BY <1>2 DEF Gentle, Expected
    <3> QED BY <1>2, <3>1
  <2>3. \A k \in 1 .. Len(Tail(batch)) : Tail(batch)[k].fd # 0 => fds'[Tail(batch)[k].fd] \in Conns
    BY <1>1, <1>2 DEF Gentle, Expected, netVars
  <2> QED BY <1>1, <1>2, <1>4, <2>1, <2>2, <2>3 DEF Expected
<1>6. InHand'
  BY <1>4 DEF InHand, Handling
<1> QED BY <1>1, <1>3, <1>5, <1>6, SoundAlways DEF Gentle, Counted

LEMMA DispatchGentle ==
  ASSUME IInv, AcceptedOnce, Gentle, Dispatch, UNCHANGED world
  PROVE  Gentle' /\ StreamLeft
<1> DEFINE f == Head(batch).fd
<1>1. /\ pc = "dispatch" /\ Place = "dispatch" /\ UNCHANGED <<slots, batch, peer, backlog, clientCnt>>
      /\ pc' # "dispatch"
  BY DEF Dispatch, Place, GoTo, netVars
<1>2. /\ batch # <<>> /\ Len(batch) \in Nat /\ Len(batch) >= 1
      /\ f = batch[1].fd /\ batch[1] \in Events
  BY <1>1, LenProperties, EmptySeq, HeadTailProperties, ElementOfSeq DEF Gentle, Expected
<1>3. f # 0 => f \in Fds /\ fds[f] \in Conns
  <2>1. 1 \in 1 .. Len(batch)
    BY <1>2
  <2>2. f # 0 => fds[f] \in Conns
    BY <1>1, <1>2, <2>1 DEF Gentle, Expected
  <2>3. f \in Fds \cup {0}
    BY <1>2 DEF Events
  <2> QED BY <2>2, <2>3
<1>4. Counted'
  <2>1. Open' = Open
    BY <1>1 DEF Open
  <2> QED BY <1>1, <2>1 DEF Gentle, Counted
<1>5. CASE UNCHANGED netVars
  <2>1. Listed(ready, fds)' /\ Live' /\ StreamLeft
    BY <1>1, <1>5 DEF Gentle, Listed, Live, Registered, StreamLeft, netVars
  <2>2. Expected'
    BY <1>1, <1>2, <1>5 DEF Gentle, Expected, netVars
  <2>3. CASE GoTo("accept")
    <3>1. InHand'
      BY <2>3 DEF InHand, Handling, Place, GoTo
    <3> QED BY <1>4, <2>1, <2>2, <3>1, SoundAlways DEF Gentle
  <2>4. CASE /\ f # 0 /\ Matching(f) # {} /\ cur' = Least(Matching(f))
             /\ GoTo(IF ~Head(batch).in THEN "sweep" ELSE IF slots[cur'].done THEN "recv" ELSE "handshake")
    <3>1. slots[cur'].fd = f
      BY <2>4, LeastIn DEF Matching
    <3>2. /\ Place' \in {"sweep", "recv", "handshake"}
          /\ Place' = "recv" => slots[cur'].done
      BY <2>4 DEF GoTo, Place
    <3>3. InHand'
      BY <1>1, <1>3, <1>5, <2>4, <3>1, <3>2 DEF InHand, netVars
    <3> QED BY <1>4, <2>1, <2>2, <3>3, SoundAlways DEF Gentle
  <2>5. CASE CloseFd(f) /\ f # 0 /\ GoTo("next")
    <3>1. InHand'
      BY <2>5 DEF InHand, Handling, Place, GoTo
    <3> QED BY <1>4, <2>1, <2>2, <3>1, SoundAlways DEF Gentle
  <2> QED BY <2>3, <2>4, <2>5 DEF Dispatch
<1>6. CASE f # 0 /\ CloseFd(f) /\ GoTo("next")
  <2>1. \A g \in Fds : fds'[g] = IF g = f THEN Closed ELSE fds[g]
    BY <1>3, <1>6 DEF CloseFd, IInv, Shapes
  <2>2. StreamLeft
    BY <1>3, <1>6, <2>1, Names DEF StreamLeft
  <2>3. Listed(ready, fds)'
    BY <1>3, <1>6, CloseListed DEF Gentle
  <2>4. Live'
    <3>1. \A c \in Conns : Registered(c)' => Registered(c)
      BY <2>1, Names DEF Registered
    <3> QED BY <1>1, <3>1, LiveKept DEF Gentle
  <2>5. ASSUME NEW k \in 1 .. Len(batch), batch[k].fd # 0, k > 1 PROVE fds'[batch[k].fd] \in Conns
    <3>1. fds[batch[k].fd] \in Conns /\ batch[k].fd # f
      BY <1>2, <2>5 DEF Gentle, Expected
    <3>2. batch[k] \in Events
      BY <2>5, ElementOfSeq DEF Gentle, Expected
    <3>3. batch[k].fd \in Fds
      BY <2>5, <3>2 DEF Events
    <3> QED BY <2>1, <3>1, <3>3
  <2>6. Expected'
    BY <1>1, <1>2, <2>5 DEF Gentle, Expected
  <2>7. InHand'
    BY <1>6 DEF InHand, Handling, Place, GoTo
  <2> QED BY <1>4, <2>2, <2>3, <2>4, <2>6, <2>7, SoundAlways DEF Gentle
<1> QED BY <1>5, <1>6 DEF Dispatch

LEMMA AcceptGentle ==
  ASSUME IInv, AcceptedOnce, Gentle, Accept, UNCHANGED world
  PROVE  Gentle' /\ StreamLeft
<1> DEFINE c == Head(backlog)
           i == Least(Unused)
           Taken == [Free EXCEPT !.fd = Lowest, !.active = TRUE]
<1>1. /\ pc = "accept" /\ UNCHANGED <<peer, batch, cur>> /\ backlog' = Tail(backlog)
      /\ Lowest \in Fds /\ fds[Lowest] = Closed /\ ~CtlFails
  BY LowestIn DEF Accept, Gentle, SoundCount
<1>2. UNCHANGED <<pc, call, clientCnt>>
  BY <1>1 DEF Accept, GoTo
<1>3. /\ c \in Conns /\ c = backlog[1] /\ 1 \in 1 .. Len(backlog) /\ Len(backlog) \in Nat
      /\ Len(backlog') = Len(backlog) - 1
      /\ \A k \in 1 .. Len(backlog') : backlog'[k] = backlog[k + 1] /\ k + 1 \in 1 .. Len(backlog)
  BY HeadTailProperties, LenProperties, EmptySeq DEF Accept, IInv, Shapes
<1>4. Contains(backlog, c) /\ \A d \in Conns : Contains(backlog', d) => Contains(backlog, d)
  BY <1>3 DEF Contains
<1>5. Place = "accept" /\ Place' = "accept" /\ InHand'
  BY <1>1, <1>2 DEF Place, InHand, Handling
<1>6. CASE UNCHANGED <<fds, ready, slots>>
  <2>1. Listed(ready, fds)' /\ StreamLeft
    BY <1>6 DEF Gentle, Listed, StreamLeft
  <2>2. \A d \in Conns : Registered(d)' => Registered(d)
    BY <1>6 DEF Registered
  <2>3. Live'
    BY <1>1, <1>4, <2>2 DEF Gentle, Live
  <2>4. Expected'
    BY <1>1, <1>2, <1>5, <1>6 DEF Gentle, Expected
  <2>5. Counted'
    <3>1. Open' = Open
      BY <1>6 DEF Open
    <3> QED BY <1>2, <3>1 DEF Gentle, Counted
  <2> QED BY <1>5, <2>1, <2>3, <2>4, <2>5, SoundAlways DEF Gentle
<1>7. CASE /\ Unused # {} /\ fds' = [fds EXCEPT ![Lowest] = c]
           /\ slots' = [slots EXCEPT ![i] = Taken]
           /\ ready' = IF CanRead(c) THEN Notified(c) ELSE ready
  <2>1. fds'[Lowest] = c /\ \A g \in Fds \ {Lowest} : fds'[g] = fds[g]
    BY <1>1, <1>7 DEF IInv, Shapes
  <2>2. StreamLeft
    BY <1>1, <2>1, SocketsAssumption DEF StreamLeft
  <2>3. i \in Slots /\ ~slots[i].active
    BY <1>7, LeastIn DEF Unused
  <2>4. slots'[i] = Taken /\ ~slots'[i].done /\ \A j \in Slots \ {i} : slots'[j] = slots[j]
    BY <1>7, <2>3 DEF IInv, Shapes, SlotShapes, Free
  <2> HIDE DEF i, Taken
  <2>5. Counted'
    <3>1. Open' = Open
      BY <2>3, <2>4 DEF Open
    <3> QED BY <1>2, <3>1 DEF Gentle, Counted
  <2>6. \A g \in Fds : fds[g] \in Conns => fds'[g] = fds[g]
    BY <1>1, <2>1, Names
  <2>7. Listed(ready, fds')
    <3>1. ASSUME NEW k \in 1 .. Len(ready), ready[k] # Listener PROVE \E g \in Fds : fds'[g] = ready[k]
      <4>1. PICK g \in Fds : fds[g] = ready[k]
        BY <3>1 DEF Gentle, Listed
      <4>2. ready[k] \in Conns
        BY <3>1, ElementOfSeq DEF Gentle, Listed
      <4> QED BY <2>6, <4>1, <4>2
    <3> QED BY <3>1 DEF Gentle, Listed
  <2>8. Listed(ready', fds')
    <3>1. Listed(IF Contains(ready, c) THEN ready ELSE Append(ready, c), fds')
      BY <1>1, <1>3, <2>1, <2>7, NotifiedListed
    <3>2. ready' = ready \/ ready' = IF Contains(ready, c) THEN ready ELSE Append(ready, c)
      BY <1>7 DEF Notified
    <3> QED BY <2>7, <3>1, <3>2
  <2>9. \A d \in Conns : Registered(d)' => Registered(d) \/ d = c
    BY <2>1 DEF Registered
  <2>10. Live'
    BY <1>1, <1>3, <1>4, <2>9 DEF Gentle, Live
  <2>11. Expected'
    <3>1. ASSUME NEW k \in 1 .. Len(batch), batch[k].fd # 0, k > 1 PROVE fds'[batch[k].fd] \in Conns
      <4>1. batch[k] \in Events /\ fds[batch[k].fd] \in Conns
        BY <3>1, ElementOfSeq DEF Gentle, Expected
      <4>2. batch[k].fd \in Fds
        BY <3>1, <4>1 DEF Events
      <4> QED BY <2>6, <4>1, <4>2
    <3> QED BY <1>1, <1>2, <1>5, <3>1 DEF Gentle, Expected
  <2> QED BY <1>5, <2>2, <2>5, <2>8, <2>10, <2>11, SoundAlways DEF Gentle
<1> QED BY <1>1, <1>6, <1>7 DEF Accept

-----------------------------------------------------------------------------
(* The count goes up and down with the open slots, and does not wrap.      *)
LEMMA CountsUp ==
  ASSUME Gentle, NEW i \in Slots \ Open, Open' = Open \cup {i}, clientCnt' = More
  PROVE  Counted'
<1>1. clientCnt \in Nat /\ clientCnt + 1 <= MaxClients /\ Cardinality(Open \cup {i}) = clientCnt + 1
  BY OpenFinite DEF Gentle, Counted
<1>2. clientCnt + 1 \in 0 .. CountSize - 1 /\ CountSize \in Nat \ {0}
  BY <1>1, CountServerAssumption
<1>3. (clientCnt + 1) % CountSize = clientCnt + 1
  BY <1>2
<1> QED BY <1>1, <1>3 DEF Counted, More

LEMMA CountsDown ==
  ASSUME Gentle, NEW i \in Open, Open' = Open \ {i}, clientCnt' = Fewer
  PROVE  Counted'
<1>1. clientCnt \in Nat /\ clientCnt <= MaxClients /\ Cardinality(Open \ {i}) = clientCnt - 1
  BY OpenFinite DEF Gentle, Counted
<1>2. clientCnt - 1 \in Nat
  <2>1. Open \ {i} \subseteq Open
    OBVIOUS
  <2>2. IsFiniteSet(Open \ {i})
    BY <2>1, OpenFinite, FS_Subset
  <2>3. Cardinality(Open \ {i}) \in Nat
    BY <2>2, FS_CardinalityType
  <2> QED BY <1>1, <2>3
<1> DEFINE m == clientCnt - 1
<1>3. m \in 0 .. CountSize - 1 /\ CountSize \in Nat \ {0} /\ clientCnt + CountSize - 1 = m + CountSize
  BY <1>1, <1>2, CountServerAssumption
<1>4. (m + CountSize) % CountSize = m
  <2> HIDE DEF m
  <2> QED BY <1>3
<1> QED BY <1>1, <1>3, <1>4 DEF Counted, Fewer

(* The open client of the event leaves.                                    *)
LEMMA DropGentle ==
  ASSUME IInv, AcceptedOnce, Gentle, pc \in {"recv", "frames"}, NEW ret \in {"sweep", pc}, ret # "recv", Drop(cur, ret),
         fds[slots[cur].fd] \in Conns, UNCHANGED <<world, peer, backlog, batch, cur>>
  PROVE  Gentle' /\ StreamLeft
<1>1. Place = pc /\ Handling /\ cur \in Slots /\ slots[cur].done /\ slots[cur].active
  BY OnlyCurrent DEF Place, Handling, Gentle, InHand, IInv, CurrentFirst
<1>2. /\ slots'[cur].fd = slots[cur].fd /\ slots'[cur].done = slots[cur].done /\ ~slots'[cur].active
      /\ \A j \in Slots \ {cur} : slots'[j] = slots[j]
  BY <1>1 DEF Drop, IInv, Shapes, SlotShapes, Fields
<1>3. cur \in Open /\ Open' = Open \ {cur}
  BY <1>1, <1>2 DEF Open
<1>4. Counted'
  BY <1>3, CountsDown DEF Drop
<1>5. pc' = "lock" /\ Place' = ret /\ CloseFd(slots[cur].fd)
  BY DEF Drop, CallCount, NoCall, Place
<1> QED BY <1>1, <1>2, <1>4, <1>5, CloseGentle

LEMMA HandshakeGentle ==
  ASSUME IInv, AcceptedOnce, Gentle, Handshake, UNCHANGED world
  PROVE  Gentle' /\ StreamLeft
<1>1. /\ pc = "handshake" /\ Place = "handshake" /\ Handling /\ UNCHANGED <<peer, backlog, batch, cur>>
      /\ cur \in Slots /\ slots[cur].fd \in Fds /\ fds[slots[cur].fd] \in Conns
  BY OnlyCurrent DEF Handshake, Place, Handling, Gentle, InHand
<1>2. SendResults(slots[cur].fd) = {"all"}
  BY <1>1, SendAll
<1>3. CASE Refuse
  <2>1. UNCHANGED <<slots, clientCnt>> /\ CloseFd(slots[cur].fd) /\ pc' = "lock" /\ Place' = "sweep"
    BY <1>3 DEF Refuse, CallCount, NoCall, Place
  <2>2. Counted'
    <3>1. Open' = Open
      BY <2>1 DEF Open
    <3> QED BY <2>1, <3>1 DEF Gentle, Counted
  <2> QED BY <1>1, <2>1, <2>2, CloseGentle
<1>4. CASE GoTo("initial") /\ UNCHANGED <<fds, ready, slots, clientCnt>>
  <2>1. Place' = "initial" /\ Handling' /\ pc' = "initial"
    BY <1>4 DEF GoTo, Place, Handling
  <2> QED BY <1>1, <1>4, <2>1, StayGentle
<1> QED BY <1>2, <1>3, <1>4 DEF Handshake

LEMMA InitialGentle ==
  ASSUME IInv, AcceptedOnce, Gentle, Initial, UNCHANGED world
  PROVE  Gentle' /\ StreamLeft
<1>1. /\ pc = "initial" /\ Place = "initial" /\ Handling /\ UNCHANGED <<peer, backlog, batch, cur>>
      /\ cur \in Slots /\ slots[cur].fd \in Fds /\ fds[slots[cur].fd] \in Conns
      /\ ~slots[cur].done /\ slots[cur].active
  BY OnlyCurrent DEF Initial, Place, Handling, Gentle, InHand, IInv, CurrentFirst
<1>2. SendResults(slots[cur].fd) = {"all"}
  BY <1>1, SendAll
<1>3. /\ slots' = [slots EXCEPT ![cur].done = TRUE] /\ clientCnt' = More
      /\ CallCount(More, "sweep") /\ UNCHANGED <<fds, ready>>
  BY <1>2 DEF Initial
<1>4. /\ slots'[cur].fd = slots[cur].fd /\ slots'[cur].active /\ slots'[cur].done
      /\ \A j \in Slots \ {cur} : slots'[j] = slots[j]
  BY <1>1, <1>3 DEF IInv, Shapes, SlotShapes, Fields
<1>5. Counted'
  <2>1. cur \in Slots \ Open /\ Open' = Open \cup {cur}
    BY <1>1, <1>4 DEF Open
  <2> QED BY <1>3, <2>1, CountsUp
<1>6. Place' = "sweep" /\ pc' = "lock"
  BY <1>3 DEF CallCount, NoCall, Place
<1>7. Listed(ready, fds)' /\ Live' /\ StreamLeft
  BY <1>1, <1>3 DEF Gentle, Listed, Live, Registered, StreamLeft
<1>8. Expected' /\ InHand'
  BY <1>1, <1>3, <1>4, <1>6 DEF Gentle, Expected, InHand
<1> QED BY <1>5, <1>7, <1>8, SoundAlways DEF Gentle

-----------------------------------------------------------------------------
(***************************************************************************)
(* A page sends one close frame at most: once it has been read nothing     *)
(* else that arrives is one.  So the slot whose close frame was processed  *)
(* has no other in its buffer.                                             *)
(***************************************************************************)
Chunks == UNION {Range(Script[c]) : c \in Conns}

Closes(s, k) == k \in DOMAIN s /\ s[k].kind = "close"
Closing(s) == \E k \in DOMAIN s : Closes(s, k)
Once(s) == \A j, k \in DOMAIN s : Closes(s, j) /\ Closes(s, k) => j = k

(* All close frames of the script have been sent.                          *)
Spent(c) == \A k \in DOMAIN Script[c] : Closes(Script[c], k) => k <= sent[c]

Orderly == /\ world \in DOMAIN Worlds /\ sent \in [Conns -> Nat]
           /\ rx \in [Conns -> Seq(Chunks)] /\ buffers \in [Slots -> Seq(Chunks)]
           /\ \A c \in Conns : Once(rx[c]) /\ (Closing(rx[c]) => Spent(c))
           /\ \A i \in Open : /\ Once(buffers[i])
                              /\ Closing(buffers[i]) => Spent(ConnOf(i)) /\ ~Closing(rx[ConnOf(i)])
           /\ \A i \in Active : slots[i].done \/ buffers[i] = <<>>
           /\ Place = "frames" /\ cur \notin Open => ~Closing(buffers[cur])

LEMMA NothingClosing == ~Closing(<<>>) /\ Once(<<>>)
BY DEF Closing, Once

LEMMA InitOrderly == Init => Orderly
<1> SUFFICES ASSUME Init PROVE Orderly
  OBVIOUS
<1>1. /\ world \in DOMAIN Worlds /\ sent = [c \in Conns |-> 0] /\ rx = [c \in Conns |-> <<>>]
      /\ buffers = [i \in Slots |-> <<>>] /\ slots = [i \in Slots |-> Free] /\ pc = "wait"
  BY DEF Init, setup_server, NetInit
<1>2. Open = {} /\ Active = {} /\ Place # "frames"
  BY <1>1 DEF Open, Active, Free, Place
<1>3. <<>> \in Seq(Chunks)
  BY EmptySeq
<1> QED BY <1>1, <1>2, <1>3, NothingClosing DEF Orderly

(* A close frame in the buffer is that of an open slot.                    *)
LEMMA FrameInBuffer ==
  ASSUME Orderly, NEW i \in Slots, WholeFrame(buffers[i])
  PROVE  /\ buffers[i] \in Seq(Chunks) /\ Len(buffers[i]) \in Nat
         /\ Segments(buffers[i]) \in {1, 2} /\ Segments(buffers[i]) \in DOMAIN buffers[i]
<1>1. buffers[i] \in Seq(Chunks) /\ Len(buffers[i]) \in Nat
  BY LenProperties DEF Orderly
<1>2. Segments(buffers[i]) \in {1, 2} /\ Segments(buffers[i]) <= Len(buffers[i])
  BY DEF Segments, WholeFrame
<1>3. DOMAIN buffers[i] = 1 .. Len(buffers[i])
  BY <1>1, LenProperties
<1> QED BY <1>1, <1>2, <1>3

LEMMA ClosingOpen ==
  ASSUME IInv, Orderly, pc = "frames",
         WholeFrame(buffers[cur]), FirstFrame(buffers[cur]).kind = "close"
  PROVE  cur \in Open /\ fds[slots[cur].fd] \in Conns
<1>1. Place = "frames" /\ Handling /\ cur \in Slots
  BY DEF Place, Handling, IInv, CurrentFirst
<1>2. Closing(buffers[cur])
  BY <1>1, FrameInBuffer DEF Closing, Closes, FirstFrame
<1>3. cur \in Open
  BY <1>1, <1>2 DEF Orderly
<1> QED BY <1>3, OpenAlone DEF ConnOf

(* No connection was reset: the sweep finds nothing, and no send fails.    *)
LEMMA SweepStays ==
  ASSUME Gentle, Sweep
  PROVE  GoTo("next") /\ UNCHANGED <<fds, ready, slots, clientCnt, sent, rx, buffers, cur>>
<1>1. batch # <<>> /\ batch \in Seq(Events)
  BY DEF Sweep, Gentle, Expected, Handling, Place
<1>2. Head(batch) \in Events
  BY <1>1, HeadTailProperties
<1>3. ~Head(batch).hup
  BY <1>2 DEF Events
<1> QED BY <1>3 DEF Sweep

LEMMA BroadcastStays ==
  ASSUME IInv, AcceptedOnce, Gentle, broadcast_client_count \/ broadcast_to_clients
  PROVE  /\ UNCHANGED <<pc, fds, ready, slots, clientCnt, sent, rx, buffers, cur, peer, backlog, batch>>
         /\ Place' = Place
<1>1. pc = "send" /\ Rest # {} /\ UNCHANGED <<sent, rx, buffers, peer, backlog, batch, cur>>
  BY DEF broadcast_client_count, broadcast_to_clients, Send
<1>2. Rest \in SUBSET Slots /\ Rest \in SUBSET Open
  BY DEF Rest, Open
<1>3. slots[Least(Rest)].fd \in Fds /\ fds[slots[Least(Rest)].fd] \in Conns
  BY <1>1, <1>2, LeastIn, OpenAlone DEF ConnOf
<1>4. SendResults(slots[Least(Rest)].fd) = {"all"}
  BY <1>3, SendAll
<1>5. UNCHANGED <<pc, fds, ready, slots, clientCnt>> /\ call' = [call EXCEPT !.at = Least(Rest) + 1]
  BY <1>4 DEF broadcast_client_count, broadcast_to_clients, Send
<1>6. Place' = Place
  BY <1>5 DEF Place, IInv, Shapes
<1> QED BY <1>1, <1>5, <1>6

LEMMA ReadGentle ==
  ASSUME IInv, AcceptedOnce, Gentle, Orderly, Recv \/ ProcessFrame \/ FramesEnd \/ Sweep, UNCHANGED world
  PROVE  Gentle' /\ StreamLeft
<1>1. /\ pc \in {"recv", "frames", "sweep"} /\ Place = pc /\ Handling /\ UNCHANGED <<peer, backlog, batch, cur>>
      /\ cur \in Slots
  BY OnlyCurrent DEF Recv, ProcessFrame, FramesEnd, Sweep, Place, Handling, netVars
<1>2. ASSUME NEW place \in {"sweep", "recv", "frames", "next"}, GoTo(place) \/ \E at : CallPixel(at, place),
             place \in {"recv", "frames"} => pc \in {"recv", "frames"}, UNCHANGED <<fds, ready, slots, clientCnt>>
      PROVE  Gentle' /\ StreamLeft
  <2>1. Place' = place /\ pc' # "dispatch"
    BY <1>1, <1>2 DEF Place, GoTo, CallPixel, NoCall
  <2>2. Place' = "sweep" \/ Place' = Place \/ Place' = "next" \/ {Place, Place'} = {"recv", "frames"}
    BY <1>1, <1>2, <2>1
  <2> QED BY <1>1, <1>2, <2>1, <2>2, StayGentle
<1>3. CASE Recv
  <2>1. CASE Drop(cur, "sweep") /\ Received = "end"
    <3>1. fds[slots[cur].fd] \in Conns /\ pc = "recv"
      BY <1>3, <2>1 DEF Received, RecvResult, Recv
    <3> QED BY <1>1, <2>1, <3>1, DropGentle
  <2>2. ASSUME NEW place \in {"sweep", "frames"}, GoTo(place), UNCHANGED <<fds, ready, slots, clientCnt>>
        PROVE  Gentle' /\ StreamLeft
    BY <1>2, <1>3, <2>2 DEF Recv
  <2> QED BY <1>3, <2>1, <2>2 DEF Recv
<1>4. CASE ProcessFrame
  <2>1. CASE Drop(cur, "frames") /\ FirstFrame(buffers[cur]).kind = "close"
    <3>1. pc = "frames" /\ fds[slots[cur].fd] \in Conns
      BY <1>1, <1>4, <2>1, ClosingOpen DEF ProcessFrame
    <3> QED BY <1>1, <2>1, <3>1, DropGentle
  <2> QED BY <1>2, <1>4, <2>1 DEF ProcessFrame
<1>5. CASE FramesEnd
  BY <1>2, <1>5 DEF FramesEnd, netVars
<1>6. CASE Sweep
  BY <1>2, <1>6, SweepStays
<1> QED BY <1>3, <1>4, <1>5, <1>6

LEMMA BroadcastGentle ==
  ASSUME IInv, Delivery, Gentle, UNCHANGED world,
         AcceptEnds \/ Lock \/ Unlock \/ Log \/ Sigint \/ broadcast_client_count \/ broadcast_to_clients
  PROVE  Gentle' /\ StreamLeft
<1>1. ASSUME UNCHANGED <<fds, ready, peer, backlog, batch, clientCnt, cur, slots>>, pc' # "dispatch",
             Place' = Place \/ Place' \in {"dead", "stuck"}
                \/ (Place = "accept" /\ Place' = "next")
      PROVE  Gentle' /\ StreamLeft
  <2>1. Handling' => Handling
    BY <1>1 DEF Handling
  <2>2. Place' \in {"next", "accept"} => Handling \/ Place \in {"dispatch", "next", "accept"}
    BY <1>1
  <2> QED BY <1>1, <2>1, <2>2, StayGentle
<1>2. CASE AcceptEnds
  <2>1. UNCHANGED <<fds, ready, peer, backlog>> /\ pc = "accept" /\ pc' = "next"
    BY <1>2 DEF AcceptEnds, GoTo, netVars
  <2>2. Place = "accept" /\ Place' = "next"
    BY <2>1 DEF Place
  <2> QED BY <1>1, <1>2, <2>1, <2>2 DEF AcceptEnds
<1>3. CASE Lock
  BY <1>1, <1>3 DEF Lock, GoTo, netVars, Place
<1>4. CASE Unlock \/ Log
  <2>1. call.ret \in Rets
    BY <1>4 DEF Unlock, Log, Delivery, Reaches, Control, Halted, Rets
  <2>2. UNCHANGED <<fds, ready, peer, backlog, batch, clientCnt, cur, slots, call>>
    BY <1>4 DEF Unlock, Log, GoTo, netVars
  <2>3. pc \in {"send", "log", "logging"} /\ pc' \in {"log", "logging", call.ret}
    BY <1>4 DEF Unlock, Log, GoTo
  <2>4. Place' = Place /\ pc' # "dispatch"
    BY <2>1, <2>2, <2>3 DEF Place, Rets
  <2> QED BY <1>1, <2>2, <2>4
<1>5. CASE Sigint
  BY <1>1, <1>5 DEF Sigint, GoTo, netVars, Place
<1>6. CASE broadcast_client_count \/ broadcast_to_clients
  <2>1. pc = "send"
    BY <1>6 DEF broadcast_client_count, broadcast_to_clients, Send
  <2> QED BY <1>1, <1>6, <2>1, BroadcastStays DEF Delivery
<1> QED BY <1>2, <1>3, <1>4, <1>5, <1>6

LEMMA MainGentle ==
  ASSUME IInv, Delivery, Gentle, Orderly, Main \/ Sigint, UNCHANGED world
  PROVE  Gentle' /\ StreamLeft
<1>1. AcceptedOnce
  BY DEF Delivery
<1>2. ~HandshakeFailed
  BY DEF HandshakeFailed, Place, Gentle, InHand
<1> QED BY <1>1, <1>2, WaitGentle, NextGentle, DispatchGentle, AcceptGentle, HandshakeGentle, InitialGentle,
           ReadGentle, BroadcastGentle DEF Main

LEMMA ClientsGentle == ASSUME IInv, AcceptedOnce, Gentle, Clients PROVE Gentle' /\ StreamLeft
<1>1. PICK c \in Conns : Client(c)
  BY DEF Clients
<1>2. UNCHANGED <<world, slots, clientCnt, pc, call, batch, cur, fds>>
  BY <1>1 DEF Clients, loopVars, Client, Connect, ClientSend, ClientLeave, Ended
<1>3. Place' = Place /\ Open' = Open /\ StreamLeft /\ \A d : Registered(d)' = Registered(d)
  BY <1>2 DEF Place, Open, StreamLeft, Registered
<1>4. Expected' /\ InHand' /\ Counted'
  BY <1>2, <1>3 DEF Gentle, Expected, InHand, Counted, Handling
<1>5. ready' = Notified(Listener) \/ (ready' = NotifiedOf(c))
  BY <1>1 DEF Client, Connect, ClientSend, ClientLeave, Ended
<1>6. Listed(ready', fds')
  <2>1. Listed(Notified(Listener), fds)
    BY NotifiedListed DEF Gentle, Notified
  <2>2. Registered(c) => Listed(Notified(c), fds)
    BY NotifiedListed DEF Gentle, Notified, Registered
  <2> QED BY <1>2, <1>5, <2>1, <2>2 DEF NotifiedOf, Gentle
<1>7. Live'
  <2>1. CASE Connect(c)
    <3>1. peer' = [peer EXCEPT ![c] = "up"] /\ backlog' = Append(backlog, c)
      BY <2>1 DEF Connect
    <3>2. \A d \in Conns \ {c} : Contains(backlog', d) => Contains(backlog, d)
      <4>1. /\ Len(backlog) \in Nat /\ Len(backlog') = Len(backlog) + 1 /\ backlog'[Len(backlog) + 1] = c
            /\ \A k \in 1 .. Len(backlog) : backlog'[k] = backlog[k]
        BY <3>1, AppendProperties, LenProperties DEF IInv, Shapes
      <4>2. \A k \in 1 .. Len(backlog') : k \in 1 .. Len(backlog) \/ k = Len(backlog) + 1
        BY <4>1
      <4> QED BY <4>1, <4>2 DEF Contains
    <3>3. peer'[c] = "up" /\ \A d \in Conns \ {c} : peer'[d] = peer[d]
      BY <3>1 DEF AcceptedOnce
    <3> QED BY <1>3, <3>2, <3>3 DEF Gentle, Live
  <2>2. CASE ClientSend(c)
    <3>1. UNCHANGED <<peer, backlog>>
      BY <2>2 DEF ClientSend
    <3> QED BY <1>3, <3>1 DEF Gentle, Live
  <2>3. CASE ClientLeave(c)
    <3>1. UNCHANGED backlog /\ peer' = [peer EXCEPT ![c] = "fin"]
      BY <2>3 DEF ClientLeave, Ended, Gentle, SoundCount
    <3>2. \A d \in Conns : peer'[d] = peer[d] \/ peer'[d] = "fin"
      BY <3>1 DEF AcceptedOnce
    <3> QED BY <1>3, <3>1, <3>2 DEF Gentle, Live
  <2> QED BY <1>1, <2>1, <2>2, <2>3 DEF Client
<1> QED BY <1>2, <1>3, <1>4, <1>6, <1>7, SoundAlways DEF Gentle

-----------------------------------------------------------------------------
(* Steps that empty buffers, or leave them alone.                          *)
LEMMA OrderlyKept ==
  ASSUME Orderly, UNCHANGED <<world, sent>>,
         DOMAIN rx' = Conns, rx' = [c \in Conns |-> rx'[c]], \A c \in Conns : rx'[c] \in {rx[c], <<>>},
         buffers' = [i \in Slots |-> buffers'[i]], \A i \in Slots : buffers'[i] \in {buffers[i], <<>>},
         \A i \in Open' : (i \in Open /\ ConnOf(i)' = ConnOf(i) /\ ConnOf(i) \in Conns) \/ buffers'[i] = <<>>,
         \A i \in Active' : slots'[i].done \/ (i \in Active /\ ~slots[i].done) \/ buffers'[i] = <<>>,
         Place' = "frames" => Place = "frames" /\ UNCHANGED <<cur, buffers>> /\ (cur \in Open => cur \in Open')
  PROVE  Orderly'
<1>1. Chunks' = Chunks /\ (\A c \in Conns : Spent(c)' = Spent(c)) /\ <<>> \in Seq(Chunks)
  BY EmptySeq DEF Chunks, Script, Spent
<1>2. rx' \in [Conns -> Seq(Chunks)] /\ buffers' \in [Slots -> Seq(Chunks)]
  <2>1. (\A c \in Conns : rx'[c] \in Seq(Chunks)) /\ (\A i \in Slots : buffers'[i] \in Seq(Chunks))
    BY <1>1 DEF Orderly
  <2> QED BY <2>1
<1>3. \A c \in Conns : Once(rx'[c]) /\ (Closing(rx'[c]) => Closing(rx[c]) /\ Spent(c)')
  BY <1>1, NothingClosing DEF Orderly
<1>4. ASSUME NEW i \in Open'
      PROVE  /\ Once(buffers'[i])
             /\ Closing(buffers'[i]) => Spent(ConnOf(i))' /\ ~Closing(rx'[ConnOf(i)'])
  <2>1. CASE buffers'[i] = <<>>
    BY <2>1, NothingClosing
  <2>2. CASE buffers'[i] # <<>>
    <3>1. i \in Slots /\ i \in Open /\ ConnOf(i)' = ConnOf(i) /\ ConnOf(i) \in Conns /\ buffers'[i] = buffers[i]
      BY <2>2 DEF Open
    <3> DEFINE c == ConnOf(i)
    <3>2. c \in Conns /\ ConnOf(i)' = c /\ (Closing(buffers[i]) => Spent(c) /\ ~Closing(rx[c])) /\ Once(buffers[i])
      BY <3>1 DEF Orderly
    <3>3. Spent(c)' = Spent(c)
      BY <3>1 DEF Spent, Script
    <3> QED BY <1>3, <3>1, <3>2, <3>3
  <2> QED BY <2>1, <2>2
<1>5. \A i \in Active' : slots'[i].done \/ buffers'[i] = <<>>
  <2>1. \A i \in Active' : i \in Slots
    BY DEF Active
  <2> QED BY <2>1 DEF Orderly
<1>6. Place' = "frames" /\ cur' \notin Open' => ~Closing(buffers'[cur'])
  BY DEF Orderly
<1> QED BY <1>1, <1>2, <1>3, <1>4, <1>5, <1>6 DEF Orderly

(* Those of them that change no buffer and open no slot.                   *)
LEMMA OrderlyStays ==
  ASSUME IInv, Orderly, UNCHANGED <<world, sent, rx, buffers>>, OpenKept,
         \A i \in Active' : slots'[i].done \/ (i \in Active /\ ~slots[i].done),
         Place' = "frames" => Place = "frames" /\ UNCHANGED cur /\ (cur \in Open => cur \in Open')
  PROVE  Orderly'
<1>1. /\ DOMAIN rx' = Conns /\ rx' = [c \in Conns |-> rx'[c]]
      /\ buffers' = [i \in Slots |-> buffers'[i]]
  BY DEF Orderly
<1>2. \A i \in Open' : i \in Open /\ ConnOf(i)' = ConnOf(i) /\ ConnOf(i) \in Conns
  BY OpenAlone DEF OpenKept
<1>3. (\A c \in Conns : rx'[c] \in {rx[c], <<>>}) /\ (\A i \in Slots : buffers'[i] \in {buffers[i], <<>>})
  OBVIOUS
<1> QED BY <1>1, <1>2, <1>3, OrderlyKept

LEMMA MovesOrderly ==
  ASSUME IInv, Delivery, Gentle, Orderly, UNCHANGED world,
         \/ EpollWait \/ NextEvent \/ Dispatch \/ AcceptEnds \/ FramesEnd \/ Sweep
         \/ Lock \/ Unlock \/ Log \/ Sigint \/ broadcast_client_count \/ broadcast_to_clients
  PROVE  Orderly'
<1>1. UNCHANGED <<sent, rx, buffers, slots>>
  BY SweepStays, BroadcastStays DEF Delivery, EpollWait, NextEvent, Dispatch, AcceptEnds, FramesEnd, Lock, Unlock, Log,
     Sigint, netVars
<1>2. Active' = Active /\ Open' = Open
  BY <1>1 DEF Active, Open
<1>3. OpenKept
  <2>1. CASE Dispatch /\ Matching(Head(batch).fd) = {} /\ CloseFd(Head(batch).fd)
    <3>1. \A i \in Open' : i \in Open /\ slots'[i].fd = slots[i].fd /\ slots[i].fd # Head(batch).fd
      BY <1>1, <1>2, <2>1 DEF Matching, Open
    <3> QED BY <2>1, <3>1, CloseKept DEF CloseFd
  <2>2. CASE UNCHANGED fds
    BY <1>1, <2>2, SameKept
  <2> QED BY <2>1, <2>2, SweepStays, BroadcastStays DEF Delivery, EpollWait, NextEvent, Dispatch, AcceptEnds, FramesEnd,
              Lock, Unlock, Log, Sigint, netVars
<1>4. \/ Place' # "frames"
      \/ Place' = Place /\ UNCHANGED cur
  <2>1. CASE EpollWait \/ NextEvent \/ Dispatch \/ AcceptEnds \/ FramesEnd \/ Sigint
    BY <2>1 DEF EpollWait, NextEvent, Dispatch, AcceptEnds, FramesEnd, Sigint, GoTo, Place
  <2>2. CASE Sweep
    BY <2>2, SweepStays DEF GoTo, Place
  <2>3. CASE Lock \/ Unlock \/ Log
    BY <2>3 DEF Lock, Unlock, Log, GoTo, Place
  <2>4. CASE broadcast_client_count \/ broadcast_to_clients
    BY <2>4, BroadcastStays DEF Delivery
  <2> QED BY <2>1, <2>2, <2>3, <2>4
<1>5. \A i \in Active' : slots'[i].done \/ (i \in Active /\ ~slots[i].done)
  <2>1. \A i \in Active : slots[i].done \/ ~slots[i].done
    OBVIOUS
  <2> QED BY <1>1, <1>2, <2>1
<1> QED BY <1>1, <1>2, <1>3, <1>4, <1>5, OrderlyStays

(* A slot is taken with an empty buffer.                                   *)
LEMMA AcceptOrderly == ASSUME IInv, Gentle, Orderly, Accept, UNCHANGED world PROVE Orderly'
<1> DEFINE i == Least(Unused)
           Taken == [Free EXCEPT !.fd = Lowest, !.active = TRUE]
<1>1. pc = "accept" /\ UNCHANGED <<sent, rx, cur>> /\ ~CtlFails /\ pc' = "accept"
  BY DEF Accept, Gentle, SoundCount, GoTo
<1>2. Place' # "frames"
  BY <1>1 DEF Place
<1>3. OpenKept
  BY AcceptKept
<1>4. CASE UNCHANGED <<slots, buffers>>
  <2>1. Active' = Active
    BY <1>4 DEF Active
  <2> QED BY <1>1, <1>2, <1>3, <1>4, <2>1, OrderlyStays
<1>5. CASE /\ Unused # {} /\ slots' = [slots EXCEPT ![i] = Taken]
           /\ buffers' = [buffers EXCEPT ![i] = <<>>]
  <2>1. i \in Slots
    BY <1>5, LeastIn DEF Unused
  <2>2. \A j \in Slots \ {i} : slots'[j] = slots[j]
    BY <1>5, <2>1 DEF IInv, Shapes, SlotShapes
  <2>3. /\ DOMAIN rx' = Conns /\ rx' = [c \in Conns |-> rx'[c]] /\ \A c \in Conns : rx'[c] \in {rx[c], <<>>}
        /\ buffers' = [j \in Slots |-> buffers'[j]] /\ buffers'[i] = <<>>
        /\ \A j \in Slots : buffers'[j] \in {buffers[j], <<>>}
    BY <1>1, <1>5, <2>1 DEF Orderly
  <2>4. \A j \in Open' : j \in Open /\ ConnOf(j)' = ConnOf(j) /\ ConnOf(j) \in Conns
    BY <1>3, OpenAlone DEF OpenKept
  <2> HIDE DEF i, Taken
  <2>5. \A j \in Active' : slots'[j].done \/ (j \in Active /\ ~slots[j].done) \/ buffers'[j] = <<>>
    BY <2>2, <2>3 DEF Active
  <2> QED BY <1>1, <1>2, <2>3, <2>4, <2>5, OrderlyKept
<1> QED BY <1>1, <1>4, <1>5 DEF Accept

(* What is read with the request is thrown away; a slot is opened with its *)
(* buffer still empty.                                                     *)
LEMMA HandshakeOrderly ==
  ASSUME IInv, AcceptedOnce, Gentle, Orderly, Handshake \/ Initial, UNCHANGED world
  PROVE  Orderly'
<1>1. /\ pc \in {"handshake", "initial"} /\ Place = pc /\ Handling /\ UNCHANGED <<sent, buffers, cur>>
      /\ cur \in Slots /\ slots[cur].fd \in Fds /\ fds[slots[cur].fd] \in Conns
      /\ ~slots[cur].done /\ slots[cur].active
  BY OnlyCurrent DEF Handshake, Initial, Place, Handling, Gentle, InHand, IInv, CurrentFirst
<1>2. SendResults(slots[cur].fd) = {"all"}
  BY <1>1, SendAll
<1>3. buffers[cur] = <<>>
  BY <1>1 DEF Orderly, Active
<1>4. DOMAIN rx' = Conns /\ rx' = [c \in Conns |-> rx'[c]] /\ \A c \in Conns : rx'[c] \in {rx[c], <<>>}
  BY DEF Handshake, Initial, TakeAll, Orderly
<1>5. buffers' = [j \in Slots |-> buffers'[j]] /\ \A j \in Slots : buffers'[j] \in {buffers[j], <<>>}
  BY <1>1 DEF Orderly
<1>6. Place' # "frames"
  BY <1>2 DEF Handshake, Initial, Refuse, GoTo, CallCount, NoCall, Place
<1>7. CASE Handshake
  <2>1. UNCHANGED slots /\ Active' = Active
    BY <1>2, <1>7 DEF Handshake, Refuse, Active
  <2>2. OpenKept
    BY <1>1, <1>2, <1>7, RefuseKept, SameKept DEF Handshake
  <2>3. \A j \in Open' : j \in Open /\ ConnOf(j)' = ConnOf(j) /\ ConnOf(j) \in Conns
    BY <2>2, OpenAlone DEF OpenKept
  <2> QED BY <1>1, <1>4, <1>5, <1>6, <2>1, <2>3, OrderlyKept
<1>8. CASE Initial
  <2>1. slots' = [slots EXCEPT ![cur].done = TRUE] /\ UNCHANGED fds
    BY <1>2, <1>8 DEF Initial
  <2>2. \A j \in Slots \ {cur} : slots'[j] = slots[j]
    BY <1>1, <2>1 DEF IInv, Shapes, SlotShapes
  <2>3. \A j \in Open' : (j \in Open /\ ConnOf(j)' = ConnOf(j) /\ ConnOf(j) \in Conns) \/ buffers'[j] = <<>>
    BY <1>1, <1>3, <2>1, <2>2, OpenAlone DEF Open, ConnOf
  <2>4. \A j \in Active' : slots'[j].done \/ (j \in Active /\ ~slots[j].done) \/ buffers'[j] = <<>>
    BY <1>1, <1>3, <2>2 DEF Active
  <2> QED BY <1>1, <1>4, <1>5, <1>6, <2>3, <2>4, OrderlyKept
<1> QED BY <1>7, <1>8

(* Two open slots have two connections.                                    *)
LEMMA OtherConn ==
  ASSUME IInv, AcceptedOnce, NEW i \in Open, NEW j \in Open, i # j
  PROVE  ConnOf(i) # ConnOf(j)
<1>1. slots[i].fd # slots[j].fd /\ slots[i].fd \in Fds /\ slots[j].fd \in Fds /\ ConnOf(i) \in Conns
  BY OpenAlone
<1> QED BY <1>1 DEF AcceptedOnce, ConnOf

LEMMA RoomForSome ==
  ASSUME NEW S, NEW s \in Seq(S), s # <<>>
  PROVE  RoomFor(s) \in 1 .. Len(s)
<1>1. Len(s) \in Nat /\ Len(s) # 0 /\ DOMAIN s = 1 .. Len(s)
  BY LenProperties, EmptySeq
<1>2. CASE Fills(s) # {}
  <2>1. Fills(s) \in SUBSET Nat /\ Fills(s) \subseteq 1 .. Len(s)
    BY <1>1 DEF Fills
  <2>2. \E k \in Fills(s) : \A j \in Fills(s) : k <= j
    BY <1>2, <2>1, Minimum
  <2>3. RoomFor(s) \in Fills(s)
    BY <1>2, <2>2 DEF RoomFor
  <2> QED BY <2>1, <2>3
<1> QED BY <1>1, <1>2 DEF RoomFor

(* What has arrived goes from the socket to the buffer.                    *)
LEMMA RecvOrderly ==
  ASSUME IInv, AcceptedOnce, Gentle, Orderly, Recv, UNCHANGED world
  PROVE  Orderly'
<1>1. /\ pc = "recv" /\ Place = "recv" /\ Handling /\ UNCHANGED <<sent, cur>>
      /\ cur \in Slots /\ slots[cur].fd \in Fds /\ slots[cur].done
  BY OnlyCurrent DEF Recv, Place, Handling, Gentle, InHand
<1>2. CASE Drop(cur, "sweep") /\ UNCHANGED <<buffers, rx>>
  <2>1. OpenKept /\ Place' # "frames"
    BY <1>1, <1>2, DropKept DEF Drop, CallCount, NoCall, Place
  <2>2. ~slots'[cur].active /\ \A j \in Slots \ {cur} : slots'[j] = slots[j]
    BY <1>1, <1>2 DEF Drop, IInv, Shapes, SlotShapes, Fields
  <2>3. \A i \in Active' : slots'[i].done \/ (i \in Active /\ ~slots[i].done)
    BY <2>2 DEF Active
  <2> QED BY <1>1, <1>2, <2>1, <2>3, OrderlyStays
<1>3. CASE GoTo("sweep") /\ UNCHANGED <<buffers, rx, fds, slots>>
  <2>1. OpenKept /\ Place' # "frames" /\ Active' = Active
    BY <1>3, SameKept DEF GoTo, Place, Active
  <2>2. \A i \in Active' : slots'[i].done \/ (i \in Active /\ ~slots[i].done)
    BY <1>3, <2>1
  <2> QED BY <1>1, <1>3, <2>1, <2>2, OrderlyStays
<1>4. CASE Received = "data"
  <2> DEFINE c == ConnOf(cur)
             s == rx[c]
             b == buffers[cur]
             n == RoomFor(rx[c])
             x == SubSeq(s, 1, n)
             y == SubSeq(s, n + 1, Len(s))
  <2>1. /\ UNCHANGED <<fds, slots>> /\ Active' = Active /\ Open' = Open /\ Place' = "frames"
        /\ buffers' = [buffers EXCEPT ![cur] = b \o x]
        /\ rx' = [rx EXCEPT ![c] = y]
    BY <1>1, <1>4 DEF Recv, GoTo, Active, Open, Place
  <2>2. c \in Conns /\ s # <<>> /\ cur \in Open
    <3>1. RecvResult(slots[cur].fd) = "data"
      BY <1>4 DEF Received
    <3>2. fds[slots[cur].fd] \in Conns /\ rx[fds[slots[cur].fd]] # <<>>
      <4>1. CASE fds[slots[cur].fd] \notin Conns
        BY <3>1, <4>1 DEF RecvResult
      <4>2. CASE fds[slots[cur].fd] \in Conns /\ rx[fds[slots[cur].fd]] = <<>>
        <5>1. peer[fds[slots[cur].fd]] \in {"up", "fin"}
          BY <1>1, <4>2 DEF Gentle, Live, Registered
        <5> QED BY <3>1, <4>2, <5>1 DEF RecvResult
      <4> QED BY <4>1, <4>2
    <3>3. slots[cur].active
      BY <1>1, <3>2 DEF IInv, CurrentFirst
    <3> QED BY <1>1, <3>2, <3>3 DEF ConnOf, Open
  <2>3. s \in Seq(Chunks) /\ b \in Seq(Chunks) /\ Len(s) \in Nat /\ Len(b) \in Nat /\ n \in 1 .. Len(s)
    <3>1. s \in Seq(Chunks) /\ b \in Seq(Chunks)
      BY <1>1, <2>2 DEF Orderly
    <3>2. Len(s) \in Nat /\ Len(b) \in Nat
      BY <3>1, LenProperties
    <3>3. n \in 1 .. Len(s)
      BY <2>2, <3>1, RoomForSome
    <3> QED BY <3>1, <3>2, <3>3
  <2> HIDE DEF n
  <2>4. /\ x \in Seq(Chunks) /\ Len(x) = n /\ \A k \in 1 .. n : x[k] = s[k]
        /\ y \in Seq(Chunks) /\ Len(y) = Len(s) - n /\ \A k \in 1 .. Len(s) - n : y[k] = s[n + k]
    <3>1. /\ x \in Seq(Chunks) /\ Len(x) = n /\ \A k \in 1 .. n : x[k] = s[k]
      BY <2>3, SubSeqProperties
    <3>2. y \in Seq(Chunks) /\ Len(y) = Len(s) - n /\ \A k \in 1 .. Len(s) - n : y[k] = s[n + k]
      BY <2>3, SubSeqProperties
    <3> QED BY <3>1, <3>2
  <2>5. /\ b \o x \in Seq(Chunks) /\ Len(b \o x) = Len(b) + n
        /\ \A k \in 1 .. Len(b) : (b \o x)[k] = b[k]
        /\ \A k \in Len(b) + 1 .. Len(b) + n : (b \o x)[k] = s[k - Len(b)]
    <3> HIDE DEF x
    <3>1. /\ b \o x \in Seq(Chunks) /\ Len(b \o x) = Len(b) + Len(x)
          /\ \A k \in 1 .. Len(b) + Len(x) : (b \o x)[k] = IF k <= Len(b) THEN b[k] ELSE x[k - Len(b)]
      BY <2>3, <2>4, ConcatProperties
    <3>2. \A k \in Len(b) + 1 .. Len(b) + n : k \in 1 .. Len(b) + Len(x) /\ ~(k <= Len(b)) /\ k - Len(b) \in 1 .. n
      BY <2>3, <2>4
    <3>3. \A k \in 1 .. Len(b) : k \in 1 .. Len(b) + Len(x)
      BY <2>3, <2>4
    <3> QED BY <2>3, <2>4, <3>1, <3>2, <3>3
  <2>6. /\ Once(s) /\ (Closing(s) => Spent(c)) /\ Once(b) /\ (Closing(b) => Spent(c) /\ ~Closing(s))
    BY <2>2 DEF Orderly
  <2>7. DOMAIN s = 1 .. Len(s) /\ DOMAIN b = 1 .. Len(b) /\ DOMAIN y = 1 .. Len(s) - n
        /\ DOMAIN (b \o x) = 1 .. Len(b) + n
    BY <2>3, <2>4, <2>5, LenProperties
  <2> DEFINE z == b \o x
  <2> HIDE DEF s, b, x, y, z
  <2>8. Once(y) /\ (Closing(y) => Closing(s))
    <3>1. \A k \in DOMAIN y : Closes(y, k) => Closes(s, n + k) /\ n + k \in DOMAIN s
      <4> SUFFICES ASSUME NEW k \in DOMAIN y, Closes(y, k)
                   PROVE  Closes(s, n + k) /\ n + k \in DOMAIN s
        OBVIOUS
      <4>1. k \in 1 .. Len(s) - n
        BY <2>7
      <4>2. n + k \in 1 .. Len(s)
        BY ONLY <4>1, <2>3
      <4>3. y[k] = s[n + k]
        BY ONLY <4>1, <2>4
      <4>4. n + k \in DOMAIN s
        BY <4>2, <2>7
      <4> QED BY <4>3, <4>4 DEF Closes
    <3>2. \A j, k \in DOMAIN y : n + j = n + k => j = k
      BY <2>3, <2>7
    <3> QED BY <2>6, <3>1, <3>2 DEF Once, Closing
  <2>9. \A k \in DOMAIN z : Closes(z, k) => \/ k \in DOMAIN b /\ Closes(b, k)
                                            \/ k - Len(b) \in 1 .. n /\ Closes(s, k - Len(b))
    <3> SUFFICES ASSUME NEW k \in DOMAIN z, Closes(z, k)
                 PROVE  \/ k \in DOMAIN b /\ Closes(b, k)
                        \/ k - Len(b) \in 1 .. n /\ Closes(s, k - Len(b))
      OBVIOUS
    <3>1. CASE k \in 1 .. Len(b)
      BY <2>5, <2>7, <3>1 DEF Closes, z
    <3>2. CASE k \in Len(b) + 1 .. Len(b) + n
      <4>1. k - Len(b) \in 1 .. n /\ k - Len(b) \in DOMAIN s /\ z[k] = s[k - Len(b)]
        BY <2>3, <2>5, <2>7, <3>2 DEF z
      <4> QED BY <4>1 DEF Closes
    <3> QED BY <2>3, <2>7, <3>1, <3>2 DEF z
  <2>10. Once(z)
    <3> SUFFICES ASSUME NEW j \in DOMAIN z, NEW k \in DOMAIN z, Closes(z, j), Closes(z, k) PROVE j = k
      BY DEF Once
    <3>1. CASE Closing(b)
      <4>1. Closes(b, j) /\ Closes(b, k)
        BY <2>6, <2>9, <3>1 DEF Closing, Closes
      <4> QED BY <2>6, <4>1 DEF Once, Closes
    <3>2. CASE ~Closing(b)
      <4>1. Closes(s, j - Len(b)) /\ Closes(s, k - Len(b))
        BY <2>9, <3>2 DEF Closing, Closes
      <4>2. j - Len(b) = k - Len(b)
        BY <2>6, <4>1 DEF Once, Closes
      <4>3. j \in Nat /\ k \in Nat
        BY <2>3, <2>7 DEF z
      <4> QED BY <2>3, <4>2, <4>3
    <3> QED BY <3>1, <3>2
  <2>11. Closing(z) => Spent(c) /\ ~Closing(y)
    <3> SUFFICES ASSUME NEW k \in DOMAIN z, Closes(z, k) PROVE Spent(c) /\ ~Closing(y)
      BY DEF Closing
    <3>1. CASE k \in DOMAIN b /\ Closes(b, k)
      BY <2>6, <2>8, <3>1 DEF Closing
    <3>2. CASE k - Len(b) \in 1 .. n /\ Closes(s, k - Len(b))
      <4>1. Spent(c)
        BY <2>6, <3>2 DEF Closing, Closes
      <4>2. ASSUME NEW j \in DOMAIN y, Closes(y, j) PROVE FALSE
        <5>1. Closes(s, n + j) /\ n + j > n /\ j \in 1 .. Len(s) - n
          <6>1. j \in 1 .. Len(s) - n /\ n + j \in DOMAIN s /\ n + j > n /\ y[j] = s[n + j]
            BY <2>3, <2>4, <2>7
          <6> QED BY <4>2, <6>1 DEF Closes
        <5>2. n + j = k - Len(b)
          BY <2>6, <3>2, <5>1 DEF Once, Closes
        <5> QED BY <2>3, <3>2, <5>1, <5>2
      <4> QED BY <4>1, <4>2 DEF Closing
    <3> QED BY <2>9, <3>1, <3>2
  <2>12. Chunks' = Chunks /\ (\A d : Spent(d)' = Spent(d)) /\ \A i : ConnOf(i)' = ConnOf(i)
    BY <1>1, <2>1 DEF Chunks, Script, Spent, ConnOf
  <2>13. /\ rx'[c] = y /\ (\A d \in Conns \ {c} : rx'[d] = rx[d]) /\ rx' \in [Conns -> Seq(Chunks)]
         /\ buffers'[cur] = z /\ (\A i \in Slots \ {cur} : buffers'[i] = buffers[i])
         /\ buffers' \in [Slots -> Seq(Chunks)]
    BY <1>1, <2>1, <2>2, <2>4, <2>5 DEF Orderly, z, c
  <2>14. \A d \in Conns : Once(rx'[d]) /\ (Closing(rx'[d]) => Spent(d))
    BY <2>6, <2>8, <2>13 DEF Orderly
  <2>15. ASSUME NEW i \in Open
         PROVE  Once(buffers'[i]) /\ (Closing(buffers'[i]) => Spent(ConnOf(i)) /\ ~Closing(rx'[ConnOf(i)]))
    <3>1. CASE i = cur
      BY <2>10, <2>11, <2>13, <3>1 DEF c
    <3>2. CASE i # cur
      <4>1. ConnOf(i) # c /\ ConnOf(i) \in Conns /\ i \in Slots
        BY <2>2, <3>2, OtherConn, OpenAlone DEF c
      <4> QED BY <2>13, <3>2, <4>1 DEF Orderly
    <3> QED BY <3>1, <3>2
  <2>16. \A i \in Active : slots[i].done \/ buffers'[i] = <<>>
    BY <1>1, <2>13 DEF Orderly, Active
  <2>17. UNCHANGED <<world, sent, cur, slots>>
    BY <1>1, <2>1
  <2> QED BY <2>1, <2>2, <2>12, <2>13, <2>14, <2>15, <2>16, <2>17 DEF Orderly
<1> QED BY <1>2, <1>3, <1>4 DEF Recv

(* The first frame is taken out of the buffer.                             *)
LEMMA FrameOrderly ==
  ASSUME IInv, AcceptedOnce, Gentle, Orderly, ProcessFrame, UNCHANGED world
  PROVE  Orderly'
<1> DEFINE b == buffers[cur]
           m == Segments(b)
           y == Leftover(b)
<1>1. /\ pc = "frames" /\ Place = "frames" /\ Handling /\ UNCHANGED <<sent, rx, cur>> /\ WholeFrame(b)
      /\ cur \in Slots /\ buffers' = [buffers EXCEPT ![cur] = y]
  BY OnlyCurrent DEF ProcessFrame, Place, Handling
<1>2. b \in Seq(Chunks) /\ Len(b) \in Nat /\ m \in {1, 2} /\ m \in DOMAIN b /\ DOMAIN b = 1 .. Len(b)
  BY <1>1, FrameInBuffer, LenProperties
<1> HIDE DEF m
<1>3. y \in Seq(Chunks) /\ DOMAIN y = 1 .. Len(b) - m /\ \A k \in 1 .. Len(b) - m : y[k] = b[m + k]
  <2>1. y = SubSeq(b, m + 1, Len(b))
    BY DEF Leftover, m
  <2> HIDE DEF y
  <2>2. y \in Seq(Chunks) /\ Len(y) = Len(b) - m /\ \A k \in 1 .. Len(b) - m : y[k] = b[m + k]
    BY <1>2, <2>1, SubSeqProperties
  <2> QED BY <2>2, LenProperties
<1>4. /\ buffers'[cur] = y /\ (\A i \in Slots \ {cur} : buffers'[i] = buffers[i])
      /\ buffers' \in [Slots -> Seq(Chunks)]
  BY <1>1, <1>3 DEF Orderly
<1> HIDE DEF b, y
<1>5. \A k \in DOMAIN y : Closes(y, k) => m + k \in DOMAIN b /\ Closes(b, m + k) /\ m + k # m /\ k \in Nat
  BY <1>2, <1>3 DEF Closes
<1>6. (Closing(y) => Closing(b)) /\ (Once(b) => Once(y))
  <2>1. \A j, k \in Nat : m + j = m + k => j = k
    BY <1>2
  <2> QED BY <1>5, <2>1 DEF Closing, Once
<1>7. Once(b) /\ b[m].kind = "close" => ~Closing(y)
  BY <1>2, <1>5 DEF Once, Closing, Closes
<1>8. Chunks' = Chunks /\ (\A d : Spent(d)' = Spent(d))
  BY <1>1 DEF Chunks, Script, Spent
<1>9. UNCHANGED slots \/ (Drop(cur, "frames") /\ b[m].kind = "close")
  BY DEF ProcessFrame, FirstFrame, b, m
<1>10. UNCHANGED <<fds, slots>> \/ (Drop(cur, "frames") /\ b[m].kind = "close")
  BY DEF ProcessFrame, FirstFrame, b, m
<1>11. OpenKept
  BY <1>1, <1>10, SameKept, DropKept
<1>12. \A i \in Active' : i \in Active /\ slots'[i].done = slots[i].done
  <2>1. CASE UNCHANGED slots
    BY <2>1 DEF Active
  <2>2. CASE Drop(cur, "frames")
    <3>1. ~slots'[cur].active /\ \A j \in Slots \ {cur} : slots'[j] = slots[j]
      BY <1>1, <2>2 DEF Drop, IInv, Shapes, SlotShapes, Fields
    <3> QED BY <3>1 DEF Active
  <2> QED BY <1>9, <2>1, <2>2
<1>13. ASSUME NEW i \in Open'
       PROVE  Once(buffers'[i]) /\ (Closing(buffers'[i]) => Spent(ConnOf(i)') /\ ~Closing(rx[ConnOf(i)']))
  <2>1. i \in Open /\ i \in Slots /\ ConnOf(i)' = ConnOf(i)
    BY <1>11 DEF OpenKept, Open
  <2>2. Once(buffers[i]) /\ (Closing(buffers[i]) => Spent(ConnOf(i)) /\ ~Closing(rx[ConnOf(i)]))
    BY <2>1 DEF Orderly
  <2>3. Once(buffers'[i]) /\ (Closing(buffers'[i]) => Closing(buffers[i]))
    BY <1>4, <1>6, <2>1, <2>2 DEF b
  <2> QED BY <2>1, <2>2, <2>3
<1>14. \A i \in Active' : slots'[i].done \/ buffers'[i] = <<>>
  <2>1. slots[cur].done
    BY <1>1 DEF Gentle, InHand
  <2> QED BY <1>4, <1>12, <2>1 DEF Orderly, Active
<1>15. cur \notin Open' => ~Closing(buffers'[cur])
  <2>1. CASE UNCHANGED slots
    <3>1. Open' = Open
      BY <2>1 DEF Open
    <3> QED BY <1>1, <1>4, <1>6, <3>1 DEF Orderly, b
  <2>2. CASE b[m].kind = "close"
    <3>1. cur \in Open
      BY <1>1, <2>2, ClosingOpen DEF FirstFrame, b, m
    <3> QED BY <1>4, <1>7, <2>2, <3>1 DEF Orderly, b
  <2> QED BY <1>9, <2>1, <2>2
<1> QED BY <1>1, <1>4, <1>8, <1>13, <1>14, <1>15 DEF Orderly

(* A page sends its close frame: none of it has arrived before.            *)
LEMMA ClientsOrderly ==
  ASSUME IInv, Gentle, Orderly, Clients, UNCHANGED world
  PROVE  Orderly'
<1>1. PICK c \in Conns : Client(c)
  BY DEF Clients
<1>2. UNCHANGED <<slots, buffers, pc, call, cur, fds>>
  BY <1>1 DEF Clients, loopVars, Client, Connect, ClientSend, ClientLeave, Ended
<1>3. /\ Place' = Place /\ Open' = Open /\ Active' = Active /\ Chunks' = Chunks /\ Script' = Script
      /\ \A i : ConnOf(i)' = ConnOf(i)
  BY <1>2 DEF Place, Open, Active, Chunks, Script, ConnOf
<1>4. CASE Connect(c) \/ ClientLeave(c)
  <2>1. UNCHANGED <<sent, rx>>
    BY <1>4 DEF Connect, ClientLeave, Ended
  <2>2. OpenKept
    BY <1>2, SameKept
  <2>3. \A i \in Active' : slots'[i].done \/ (i \in Active /\ ~slots[i].done)
    BY <1>2, <1>3
  <2> QED BY <1>2, <1>3, <2>1, <2>2, <2>3, OrderlyStays
<1>5. CASE ClientSend(c)
  <2> DEFINE s == rx[c]
             m == sent[c] + 1
             chunk == Script[c][m]
             z == Append(s, chunk)
  <2>1. /\ sent[c] < Len(Script[c]) /\ sent' = [sent EXCEPT ![c] = m] /\ rx' = [rx EXCEPT ![c] = z]
    BY <1>5 DEF ClientSend
  <2>2. s \in Seq(Chunks) /\ Len(s) \in Nat /\ DOMAIN s = 1 .. Len(s) /\ sent[c] \in Nat
    <3>1. s \in Seq(Chunks) /\ sent[c] \in Nat
      BY DEF Orderly
    <3> QED BY <3>1, LenProperties
  <2>3. Script[c] \in Seq(Range(Script[c])) /\ Len(Script[c]) \in Nat /\ DOMAIN Script[c] = 1 .. Len(Script[c])
    <3>1. Script[c] \in Seq(Range(Script[c]))
      BY SocketsAssumption DEF Orderly, Script
    <3> QED BY <3>1, LenProperties
  <2>4. m \in DOMAIN Script[c] /\ m \in Nat
    BY <2>1, <2>2, <2>3
  <2>5. chunk \in Chunks
    BY <2>4 DEF Chunks, Range
  <2>6. /\ sent' \in [Conns -> Nat] /\ sent'[c] = m /\ \A d \in Conns \ {c} : sent'[d] = sent[d]
    BY <2>1, <2>4 DEF Orderly
  <2> HIDE DEF s, chunk
  <2>7. /\ z \in Seq(Chunks) /\ DOMAIN z = 1 .. Len(s) + 1 /\ z[Len(s) + 1] = chunk
        /\ \A k \in 1 .. Len(s) : z[k] = s[k]
    <3>1. /\ z \in Seq(Chunks) /\ Len(z) = Len(s) + 1 /\ z[Len(s) + 1] = chunk
          /\ \A k \in 1 .. Len(s) : z[k] = s[k]
      BY <2>2, <2>5, AppendProperties
    <3> QED BY <3>1, LenProperties
  <2> HIDE DEF z
  <2>8. rx' \in [Conns -> Seq(Chunks)] /\ rx'[c] = z /\ \A d \in Conns \ {c} : rx'[d] = rx[d]
    BY <2>1, <2>7 DEF Orderly
  <2>9. Closes(Script[c], m) <=> chunk.kind = "close"
    BY <2>4 DEF Closes, chunk
  <2>10. \A d \in Conns : Spent(d) => Spent(d)'
    <3> SUFFICES ASSUME NEW d \in Conns, Spent(d), NEW k \in DOMAIN Script[d], Closes(Script[d], k)
                 PROVE  k <= sent'[d]
      BY <1>3 DEF Spent
    <3>1. k <= sent[d]
      BY DEF Spent
    <3>2. CASE d = c
      <4>1. k \in Nat
        BY <2>3, <3>2
      <4> QED BY <2>2, <2>6, <3>1, <3>2, <4>1
    <3>3. CASE d # c
      BY <2>6, <3>1, <3>3
    <3> QED BY <3>2, <3>3
  <2>11. CASE chunk.kind # "close"
    <3>1. \A k \in DOMAIN z : Closes(z, k) => k \in DOMAIN s /\ Closes(s, k)
      <4>1. \A k \in DOMAIN z : k \in DOMAIN s \/ k = Len(s) + 1
        BY <2>2, <2>7
      <4> QED BY <2>2, <2>7, <2>11, <4>1 DEF Closes
    <3>2. (Closing(z) => Closing(s)) /\ (Once(s) => Once(z))
      BY <3>1 DEF Closing, Once
    <3>3. \A d \in Conns : Once(rx'[d]) /\ (Closing(rx'[d]) => Closing(rx[d]) /\ Spent(d)')
      BY <2>8, <2>10, <3>2 DEF Orderly, s
    <3>4. ASSUME NEW i \in Open
          PROVE  Once(buffers[i]) /\ (Closing(buffers[i]) => Spent(ConnOf(i))' /\ ~Closing(rx'[ConnOf(i)]))
      <4>1. ConnOf(i) \in Conns
        BY OpenAlone
      <4>2. Once(buffers[i]) /\ (Closing(buffers[i]) => Spent(ConnOf(i)) /\ ~Closing(rx[ConnOf(i)]))
        BY DEF Orderly
      <4> QED BY <1>3, <2>10, <3>3, <4>1, <4>2
    <3> QED BY <1>2, <1>3, <2>6, <2>8, <3>3, <3>4 DEF Orderly
  <2>12. CASE chunk.kind = "close"
    <3>1. ~Spent(c)
      BY <2>2, <2>4, <2>9, <2>12 DEF Spent
    <3>2. Spent(c)'
      <4>1. \A k \in DOMAIN Script[c] : Closes(Script[c], k) => k = m
        BY <2>4, <2>9, <2>12 DEF Gentle, SoundCount, ClosesOnce, Closes
      <4>2. m <= sent'[c]
        BY <2>4, <2>6
      <4> QED BY <1>3, <4>1, <4>2 DEF Spent
    <3>3. ~Closing(s)
      BY <3>1 DEF Orderly, s
    <3>4. Once(z)
      <4>1. \A k \in DOMAIN z : Closes(z, k) => k = Len(s) + 1
        <5>1. \A k \in DOMAIN z : k \in DOMAIN s \/ k = Len(s) + 1
          BY <2>2, <2>7
        <5> QED BY <2>2, <2>7, <3>3, <5>1 DEF Closes, Closing
      <4> QED BY <4>1 DEF Once
    <3>5. \A d \in Conns : Once(rx'[d]) /\ (Closing(rx'[d]) => Spent(d)')
      BY <2>8, <2>10, <3>2, <3>4 DEF Orderly
    <3>6. ASSUME NEW i \in Open
          PROVE  Once(buffers[i]) /\ (Closing(buffers[i]) => Spent(ConnOf(i))' /\ ~Closing(rx'[ConnOf(i)]))
      <4>1. ConnOf(i) \in Conns
        BY OpenAlone
      <4>2. Once(buffers[i]) /\ (Closing(buffers[i]) => Spent(ConnOf(i)) /\ ~Closing(rx[ConnOf(i)]))
        BY DEF Orderly
      <4> QED BY <1>3, <2>8, <2>10, <3>1, <4>1, <4>2
    <3> QED BY <1>2, <1>3, <2>6, <2>8, <3>5, <3>6 DEF Orderly
  <2> QED BY <2>11, <2>12
<1> QED BY <1>1, <1>4, <1>5 DEF Client

LEMMA OrderlyStep ==
  ASSUME IInv, Delivery, Gentle, Orderly, Main \/ Sigint \/ Clients, UNCHANGED world
  PROVE  Orderly'
<1>1. AcceptedOnce
  BY DEF Delivery
<1>2. ~HandshakeFailed
  BY DEF HandshakeFailed, Place, Gentle, InHand
<1> QED BY <1>1, <1>2, MovesOrderly, AcceptOrderly, HandshakeOrderly, RecvOrderly, FrameOrderly, ClientsOrderly
        DEF Main

-----------------------------------------------------------------------------
(* A number that is no connection's changes hands.                         *)
LEMMA NumberKeeps ==
  ASSUME IInv, Delivery, NEW f \in Fds, fds[f] \notin Conns, NEW v \in {Closed, TmpFile},
         fds' = [fds EXCEPT ![f] = v],
         UNCHANGED <<peer, backlog, slots, clientCnt, pc, cur, held, call, wire, shown, screen, canvas>>
  PROVE  IInv' /\ Delivery'
<1>1. v \notin Conns
  BY Names
<1>2. /\ fds' \in [Fds -> Conns \cup {Closed, TmpFile}] /\ fds'[f] = v
      /\ \A g \in Fds \ {f} : fds'[g] = fds[g]
  BY DEF IInv, Shapes
<1>3. \A i \in Open : slots[i].fd \in Fds /\ slots[i].fd # f /\ ConnOf(i)' = ConnOf(i)
  <2> SUFFICES ASSUME NEW i \in Open PROVE slots[i].fd \in Fds /\ slots[i].fd # f /\ ConnOf(i)' = ConnOf(i)
    OBVIOUS
  <2>1. slots[i].fd \in Fds /\ slots[i].fd # f
    BY OpenAlone DEF ConnOf
  <2> QED BY <1>2, <2>1 DEF ConnOf
<1>4. Active' = Active /\ Open' = Open /\ Place' = Place
  BY DEF Active, Open, Place
<1>5. IInv'
  <2>1. Shapes'
    BY <1>2 DEF IInv, Shapes, SlotShapes
  <2>2. FirstOwns'
    BY <1>2, <1>3, <1>4 DEF IInv, FirstOwns
  <2>3. CurrentFirst'
    BY <1>1, <1>2, <1>4 DEF IInv, CurrentFirst, Handling
  <2> QED BY <2>1, <2>2, <2>3 DEF IInv
<1>6. AcceptedOnce'
  <2>1. \A g \in Fds : fds'[g] \in Conns => fds'[g] = fds[g]
    BY <1>1, <1>2
  <2>2. \A k \in 1 .. Len(backlog) : backlog[k] \in Conns
    BY ElementOfSeq DEF IInv, Shapes
  <2>3. \A g, h \in Fds : fds'[g] \in Conns /\ fds'[h] = fds'[g] => h = g
    BY <2>1 DEF Delivery, AcceptedOnce
  <2>4. \A k \in 1 .. Len(backlog) : \A g \in Fds : fds'[g] # backlog[k]
    BY <2>1, <2>2 DEF Delivery, AcceptedOnce
  <2> QED BY <2>1, <2>3, <2>4 DEF Delivery, AcceptedOnce
<1>7. Reaches'
  <2>1. Control' /\ (Halted' <=> Halted)
    BY DEF Delivery, Reaches, Control, Halted, Sending
  <2>2. \A i \in Open : /\ CountTold(i)' = CountTold(i)
                        /\ \A S : CellsTold(i, S)' = CellsTold(i, S)
                        /\ \A kind : Pending(i, kind)' = Pending(i, kind)
    BY <1>3 DEF CountTold, CellsTold, Pending, Sending
  <2> QED BY <1>4, <2>1, <2>2 DEF Delivery, Reaches, CountReaches, PixelReaches, Told
<1>8. Displays'
  BY SameDisplays DEF Delivery
<1> QED BY <1>5, <1>6, <1>7, <1>8 DEF Delivery

LEMMA NumberOrderly ==
  ASSUME IInv, Orderly, NEW f \in Fds, fds[f] \notin Conns, NEW v \in {Closed, TmpFile},
         fds' = [fds EXCEPT ![f] = v],
         UNCHANGED <<world, sent, rx, buffers, slots, pc, cur, call>>
  PROVE  Orderly'
<1>1. \A g \in Fds : fds[g] \in Conns => fds'[g] = fds[g]
  BY DEF IInv, Shapes
<1>2. \A i \in Open : ConnOf(i)' = ConnOf(i)
  BY <1>1, OpenAlone DEF ConnOf
<1>3. Place' = Place /\ Open' = Open /\ Active' = Active /\ Chunks' = Chunks /\ \A c : Spent(c)' = Spent(c)
  BY DEF Place, Open, Active, Chunks, Script, Spent
<1>4. /\ (\A c \in Conns : Once(rx'[c]) /\ (Closing(rx'[c]) => Spent(c)'))
      /\ rx' \in [Conns -> Seq(Chunks)] /\ buffers' \in [Slots -> Seq(Chunks)]
      /\ world' \in DOMAIN Worlds /\ sent' \in [Conns -> Nat]
  BY <1>3 DEF Orderly
<1>5. \A i \in Open : /\ Once(buffers'[i])
                       /\ Closing(buffers'[i]) => Spent(ConnOf(i)') /\ ~Closing(rx'[ConnOf(i)'])
  BY <1>2 DEF Orderly
<1>6. \A i \in Active : slots'[i].done \/ buffers'[i] = <<>>
  BY DEF Orderly
<1>7. Place = "frames" /\ cur' \notin Open => ~Closing(buffers'[cur'])
  BY DEF Orderly
<1>8. \A i \in Open : Spent(ConnOf(i))' <=> Spent(ConnOf(i)')
  BY <1>2, <1>3 DEF Spent, Script
<1> QED BY <1>3, <1>4, <1>5, <1>6, <1>7, <1>8 DEF Orderly

LEMMA SameOrderly ==
  ASSUME Orderly, UNCHANGED <<world, sent, rx, buffers, slots, pc, cur, call, fds>>
  PROVE  Orderly'
BY DEF Orderly, Place, Open, Active, Chunks, Script, Spent, ConnOf

LEMMA NumberGentle ==
  ASSUME IInv, Delivery, Gentle, NEW f \in Fds, fds[f] \notin Conns, NEW v \in {Closed, TmpFile},
         fds' = [fds EXCEPT ![f] = v],
         UNCHANGED <<world, ready, batch, peer, backlog, slots, clientCnt, pc, cur, call>>
  PROVE  Gentle'
<1>1. v \notin Conns /\ fds'[f] = v /\ \A g \in Fds \ {f} : fds'[g] = fds[g]
  BY Names DEF IInv, Shapes
<1>2. \A g \in Fds : fds[g] \in Conns => fds'[g] = fds[g]
  BY <1>1
<1>3. Live'
  <2>1. \A c \in Conns : Registered(c)' => Registered(c)
    BY <1>1 DEF Registered
  <2> QED BY <2>1, LiveKept DEF Gentle
<1>4. Listed(ready, fds)'
  <2>1. ASSUME NEW k \in 1 .. Len(ready), ready[k] # Listener PROVE \E g \in Fds : fds'[g] = ready[k]
    <3>1. PICK g \in Fds : fds[g] = ready[k]
      BY <2>1 DEF Gentle, Listed
    <3>2. ready[k] \in Conns
      BY <2>1, ElementOfSeq DEF Gentle, Listed
    <3> QED BY <1>2, <3>1, <3>2
  <2> QED BY <2>1 DEF Gentle, Listed
<1>5. Place' = Place /\ Open' = Open
  BY DEF Place, Open
<1>6. Expected'
  <2>1. ASSUME NEW k \in 1 .. Len(batch), batch[k].fd # 0, k > 1 \/ pc = "dispatch"
        PROVE  fds'[batch[k].fd] \in Conns
    <3>1. batch[k] \in Events /\ fds[batch[k].fd] \in Conns
      BY <2>1, ElementOfSeq DEF Gentle, Expected
    <3>2. batch[k].fd \in Fds
      BY <2>1, <3>1 DEF Events
    <3> QED BY <1>2, <3>1, <3>2
  <2> QED BY <1>5, <2>1 DEF Gentle, Expected, Handling
<1>7. InHand'
  <2>1. Handling => slots[cur].fd \in Fds
    BY DEF IInv, CurrentFirst
  <2> QED BY <1>2, <1>5, <2>1 DEF Gentle, InHand, Handling
<1>8. Counted'
  BY <1>5 DEF Gentle, Counted
<1> QED BY <1>3, <1>4, <1>6, <1>7, <1>8, SoundAlways DEF Gentle

-----------------------------------------------------------------------------
(***************************************************************************)
(* The invariant of all worlds but those where a thread saves and a number *)
(* may be closed twice.                                                    *)
(***************************************************************************)
Tame == ~SaverRuns \/ SoundCount

(* The number of the stream is the saving thread's.                        *)
Stream == saver \in {"open", "written"} => file \in Fds /\ fds[file] = TmpFile

Consistent == /\ Tame /\ IInv /\ Delivery /\ Stream
              /\ SoundCount => Gentle /\ Orderly
              /\ ~SaverRuns => saver = "asleep"

LEMMA SameWorld == ASSUME UNCHANGED world PROVE SoundCount' = SoundCount /\ SaverRuns' = SaverRuns
BY DEF SoundCount, ClosesOnce, Script, Aborting, Slow, CtlFails, SaverRuns

LEMMA InitConsistent == ASSUME Init, Tame PROVE Consistent
<1>1. saver = "asleep"
  BY DEF Init, FileInit
<1> QED BY <1>1, InitIInv, InitDelivery, InitGentle, InitOrderly DEF Consistent, Stream

LEMMA ThreadConsistent == ASSUME Consistent, Main \/ Sigint \/ Clients PROVE Consistent'
<1>1. UNCHANGED world
  BY DEF Main, Sigint, Clients, netVars
<1>2. UNCHANGED <<saver, file>>
  BY DEF Main, EpollWait, NextEvent, Dispatch, AcceptEnds, Accept, Handshake, HandshakeFailed, Initial, Recv,
     ProcessFrame, FramesEnd, Sweep, Lock, Unlock, broadcast_client_count, broadcast_to_clients, Send, Log, Sigint,
     Clients, fileVars
<1>3. IInv' /\ Delivery'
  BY IInvStep, OnceStep, DisplaysStep, ReachesStep DEF Consistent, Delivery
<1>4. SoundCount => Gentle' /\ Orderly' /\ StreamLeft
  BY <1>1, MainGentle, ClientsGentle, OrderlyStep DEF Consistent, Delivery
<1>5. Tame' /\ (SoundCount' => Gentle' /\ Orderly') /\ (~SaverRuns' => saver' = "asleep")
  BY <1>1, <1>2, <1>4, SameWorld DEF Consistent, Tame
<1>6. Stream'
  BY <1>2, <1>4 DEF Consistent, Tame, Stream, StreamLeft
<1> QED BY <1>3, <1>5, <1>6 DEF Consistent

LEMMA SaverConsistent == ASSUME Consistent, Saver PROVE Consistent'
<1>1. /\ SaverRuns /\ SoundCount /\ Gentle /\ Orderly /\ IInv /\ Delivery
      /\ UNCHANGED <<world, peer, sent, backlog, rx, screen, shown>>
      /\ UNCHANGED <<slots, buffers, clientCnt, batch, cur, held, call>>
  BY DEF Saver, Consistent, Tame, pageVars
<1>2. Tame' /\ SaverRuns'
  BY <1>1, SameWorld DEF Consistent, Tame
<1>3. ASSUME NEW f \in Fds, fds[f] \notin Conns, NEW v \in {Closed, TmpFile}, fds' = [fds EXCEPT ![f] = v],
             UNCHANGED <<ready, wire, pc, canvas>>, Stream'
      PROVE  Consistent'
  <2>1. IInv' /\ Delivery' /\ Gentle'
    BY <1>1, <1>3, NumberKeeps, NumberGentle
  <2>2. Orderly'
    BY <1>1, <1>3, NumberOrderly
  <2> QED BY <1>2, <1>3, <2>1, <2>2 DEF Consistent
<1>4. ASSUME UNCHANGED <<fds, ready, wire, pc, canvas>>, Stream' PROVE Consistent'
  <2>1. Place' = Place /\ Open' = Open
    BY <1>1, <1>4 DEF Place, Open
  <2>2. IInv'
    BY <1>1, <1>4, <2>1, SameSlots DEF Handling, IInv, Shapes
  <2>3. AcceptedOnce'
    BY <1>1, <1>4 DEF Delivery, AcceptedOnce
  <2>4. Displays' /\ Reaches'
    BY <1>1, <1>4, SameDisplays, SameReaches DEF Delivery
  <2>5. Gentle'
    BY <1>1, <1>4, <2>1, SoundAlways DEF Gentle, Listed, Live, Registered, Expected, InHand, Counted, Handling
  <2>6. Orderly'
    BY <1>1, <1>4, <2>1, SameOrderly
  <2> QED BY <1>2, <1>4, <2>2, <2>3, <2>4, <2>5, <2>6 DEF Consistent, Delivery
<1>5. CASE SaverOpens
  <2>1. Lowest \in Fds /\ fds[Lowest] = Closed /\ fds' = [fds EXCEPT ![Lowest] = TmpFile]
    BY <1>5, LowestIn DEF SaverOpens
  <2>2. fds'[Lowest] = TmpFile
    BY <1>1, <2>1 DEF IInv, Shapes
  <2>3. Stream'
    BY <1>5, <2>1, <2>2 DEF SaverOpens, Stream
  <2> QED BY <1>3, <1>5, <2>1, <2>3, Names DEF SaverOpens, OpenTmp
<1>6. CASE SaverWrites
  <2>1. UNCHANGED <<fds, ready, wire, pc, canvas, file>>
    BY <1>6 DEF SaverWrites, WriteTmp, Consistent, Stream
  <2>2. saver = "open"
    BY <1>6 DEF SaverWrites, WriteTmp
  <2>3. Stream'
    BY <2>1, <2>2 DEF Consistent, Stream
  <2> QED BY <1>4, <2>1, <2>3
<1>7. CASE SaverCloses
  <2>1. file \in Fds /\ fds[file] = TmpFile /\ saver' = "closed" /\ UNCHANGED <<wire, pc, canvas>>
    BY <1>7 DEF SaverCloses, CloseTmp, Consistent, Stream
  <2>2. fds[file] \notin Conns /\ fds' = [fds EXCEPT ![file] = Closed] /\ UNCHANGED ready
    BY <1>7, <2>1, Names DEF SaverCloses, CloseFd
  <2>3. Stream'
    BY <2>1 DEF Stream
  <2> QED BY <1>3, <2>1, <2>2, <2>3
<1>8. CASE (GiveUp \/ Rename) /\ UNCHANGED <<fds, ready, wire, file, pc>>
  <2>1. saver' = "asleep" /\ UNCHANGED canvas
    BY <1>8 DEF GiveUp, Rename
  <2> QED BY <1>4, <1>8, <2>1 DEF Stream
<1> QED BY <1>5, <1>6, <1>7, <1>8 DEF Saver

LEMMA StillConsistent == ASSUME Consistent, UNCHANGED vars PROVE Consistent'
<1>1. /\ UNCHANGED <<world, peer, sent, rx, backlog, slots, buffers, clientCnt, pc, batch, cur, held, call, fds, ready>>
      /\ UNCHANGED <<wire, shown, screen, canvas, saver, file>>
  BY DEF vars, netVars, fileVars, loopVars, pageVars
<1>2. Place' = Place /\ Open' = Open
  BY <1>1 DEF Place, Open
<1>3. IInv'
  BY <1>1, <1>2, SameSlots DEF Consistent, Handling, IInv, Shapes
<1>4. AcceptedOnce'
  BY <1>1 DEF Consistent, Delivery, AcceptedOnce
<1>5. Displays' /\ Reaches'
  BY <1>1, SameDisplays, SameReaches DEF Consistent, Delivery
<1>6. Gentle => Gentle'
  BY <1>1, <1>2, SoundAlways DEF Gentle, Listed, Live, Registered, Expected, InHand, Counted, Handling
<1>7. SoundCount => Orderly'
  BY <1>1, <1>2, SameOrderly DEF Consistent
<1>8. Tame' /\ (SoundCount' => Gentle' /\ Orderly') /\ (~SaverRuns' => saver' = "asleep") /\ Stream'
  BY <1>1, <1>6, <1>7, SameWorld DEF Consistent, Tame, Stream
<1> QED BY <1>3, <1>4, <1>5, <1>8 DEF Consistent, Delivery

LEMMA Invariance == ServerSpec => [](Tame => Consistent)
<1>1. (Tame => Consistent) /\ [ServerNext]_vars => (Tame => Consistent)'
  <2> SUFFICES ASSUME Tame => Consistent, [ServerNext]_vars, Tame' PROVE Consistent'
    OBVIOUS
  <2>1. UNCHANGED world
    BY DEF ServerNext, Main, Sigint, Saver, Clients, vars, netVars
  <2>2. Consistent
    BY <2>1, SameWorld DEF Tame
  <2> QED BY <2>2, ThreadConsistent, SaverConsistent, StillConsistent DEF ServerNext
<1>2. Init => (Tame => Consistent)
  BY InitConsistent
<1> QED BY <1>1, <1>2, PTL DEF ServerSpec

-----------------------------------------------------------------------------
(***************************************************************************)
(* 3.epoll_clicnt: every open slot has a socket, and one of its own, with  *)
(* refused clients, failing sends, resets and SIGINT as long as no thread  *)
(* saves the canvas, and beside a thread that does as long as no send      *)
(* fails, no connection is reset and epoll_ctl does not fail.  With both,  *)
(* a number closed twice may be that of the thread's file, and fclose then *)
(* closes the socket of a client.                                          *)
(***************************************************************************)
THEOREM OpenSlotsOwn == ServerSpec => [](Tame => SlotsOwnSockets)
<1>1. Consistent => SlotsOwnSockets
  BY OwnsSockets DEF Consistent
<1> QED BY <1>1, Invariance, PTL

(***************************************************************************)
(* 3.epoll_clicnt: every change of the count reaches every open page       *)
(* before the loop waits again, however many clients join, are refused, go *)
(* away or are dropped in the middle of a broadcast, in the same worlds.   *)
(***************************************************************************)
THEOREM CountReachesPages == ServerSpec => [](Tame => PagesShowCount)
<1>1. Consistent => PagesShowCount
  <2> SUFFICES ASSUME Consistent, Idle, NEW i \in Open, wire[ConnOf(i)] = "open"
               PROVE  shown[ConnOf(i)] = clientCnt
    BY DEF PagesShowCount, OpenConns
  <2> QED BY DEF Consistent, Delivery, Reaches, CountReaches, CountTold, Pending, Sending, Halted, Idle
<1> QED BY <1>1, Invariance, PTL

(***************************************************************************)
(* The same of the pixels: between two rounds every open page whose stream *)
(* was never cut short shows the canvas, but for the last cell.            *)
(***************************************************************************)
THEOREM PixelsReachPages == ServerSpec => [](Tame => PagesFollowCanvas)
<1>1. Consistent => PagesFollowCanvas
  <2> SUFFICES ASSUME Consistent, Idle, NEW i \in Open, wire[ConnOf(i)] = "open", NEW k \in Told
               PROVE  screen[ConnOf(i)][k] = canvas[k]
    BY DEF PagesFollowCanvas, OpenConns
  <2> QED BY DEF Consistent, Delivery, Reaches, PixelReaches, CellsTold, Pending, Sending, Halted, Idle
<1> QED BY <1>1, Invariance, PTL

(***************************************************************************)
(* 3.epoll_clicnt: the count is the number of open clients, whoever joins, *)
(* is refused, draws or goes away, and whatever else is in the buffer with *)
(* its close frame, as long as no send fails or falls short, no connection *)
(* is reset, epoll_ctl does not fail and no page sends a second close      *)
(* frame, which the loop over the buffer would count down again.           *)
(***************************************************************************)
THEOREM CountIsExact == ServerSpec => []CountExact
<1>1. (Tame => Consistent) => CountExact
  BY DEF Consistent, Tame, CountExact, Gentle, Counted
<1> QED BY <1>1, Invariance, PTL
=============================================================================
