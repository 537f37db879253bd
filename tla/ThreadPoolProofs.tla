-------------------------- MODULE ThreadPoolProofs --------------------------
(***************************************************************************)
(* 1.0v, for any number of workers, connections and descriptors.           *)
(*                                                                         *)
(* The list of clients and the open descriptors agree (ListAgrees).  The   *)
(* workers share the list and one struct epoll_event, and the event loop   *)
(* removes what a wrong number in that struct makes it remove; but an open *)
(* descriptor is always in one place, the hands of one worker or the list. *)
(*                                                                         *)
(* The clients are sent the messages in one order (MessagesInOrder): the   *)
(* worker that broadcasts holds the mutex that guards the list, so that    *)
(* every listed client has its place in the broadcast under way, and one   *)
(* that is not listed yet was sent nothing.                                *)
(***************************************************************************)
EXTENDS ThreadPoolServer, SequenceTheorems, WellFoundedInduction, TLAPS

EmptyHanded == {"pop", "accept", "broadcast", "send", "draw"}
Places == EmptyHanded \cup {"fill", "register", "add"}

Shapes == /\ DOMAIN fds = Fds
          /\ backlog \in Seq(Conns)
          /\ list \in Seq(Fds \cup {Invalid})
          /\ DOMAIN worker = Workers
          /\ \A w \in Workers : /\ {"pc", "fd"} \subseteq DOMAIN worker[w]
                                /\ worker[w].pc \in Places
                                /\ worker[w].fd \in Fds \cup {Invalid}
          /\ {"pc", "batch"} \subseteq DOMAIN loop
          /\ loop.pc = "remove" => Event1 # Invalid

(* No two workers hold the same descriptor. *)
OneHolder == /\ \A w \in Workers : worker[w].pc \in EmptyHanded => worker[w].fd = Invalid
             /\ \A w \in Workers : worker[w].pc \in {"fill", "register"} => worker[w].fd # Invalid
             /\ \A v, w \in Workers : worker[v].fd = worker[w].fd /\ worker[v].fd # Invalid => v = w

(* ListMatchesSockets, descriptor by descriptor.                           *)
Listed(f) == \E i \in DOMAIN list : list[i] = f
Held(f) == \E w \in Workers : worker[w].fd = f
OnePlace == /\ \A f \in Fds : fds[f] # Closed <=> Listed(f) \/ Held(f)
            /\ \A f \in Fds : ~(Listed(f) /\ Held(f))
            /\ \A i, j \in DOMAIN list : list[i] = list[j] /\ list[i] # Invalid => i = j

IInv == Shapes /\ OneHolder /\ OnePlace

-----------------------------------------------------------------------------
LEMMA InvalidIsNone == Invalid \notin Fds /\ Closed \notin Conns /\ Fds \subseteq Nat
BY SocketsAssumption DEF Invalid

LEMMA LowestAvailable ==
  ASSUME Available # {}
  PROVE  Lowest \in Available
<1>1. Available \subseteq Nat
  BY InvalidIsNone DEF Available
<1>2. PICK f \in Available : \A g \in Available : <<g, f>> \notin OpToRel(<, Nat)
  BY <1>1, WFMin, NatLessThanWellFounded
<1>3. \A g \in Available : ~(g < f)
  BY <1>1, <1>2 DEF OpToRel
<1>4. \A g \in Available : f <= g
  BY <1>1, <1>3
<1> QED BY <1>4 DEF Lowest

LEMMA PlacesMatch == ASSUME IInv PROVE ListMatchesSockets
<1>1. ListedFds = {f \in Fds : Listed(f)}
  <2>1. \A i \in DOMAIN list : list[i] \in Fds \cup {Invalid}
    BY ElementOfSeq, LenProperties DEF IInv, Shapes
  <2> QED BY <2>1, InvalidIsNone DEF ListedFds, ToSet, Listed
<1>2. Handled = {f \in Fds : Held(f)}
  BY InvalidIsNone DEF IInv, Shapes, Handled, Held
<1>3. {f \in Fds : fds[f] # Closed} = ListedFds \cup Handled /\ ListedFds \cap Handled = {}
  BY <1>1, <1>2 DEF IInv, OnePlace
<1> QED BY <1>3 DEF IInv, OnePlace, ListMatchesSockets

LEMMA InitIInv == Init => IInv
<1> SUFFICES ASSUME Init PROVE IInv
  OBVIOUS
<1> USE DEF Init, init_server, NetInit, initClientManager, init_thread_pool, Resting
<1>1. backlog \in Seq(Conns) /\ list \in Seq(Fds \cup {Invalid}) /\ DOMAIN list = {}
  BY EmptySeq
<1>2. Shapes
  BY <1>1 DEF Shapes, Places, EmptyHanded
<1>3. OneHolder
  BY DEF OneHolder
<1>4. OnePlace
  BY <1>1, InvalidIsNone DEF OnePlace, Listed, Held
<1> QED BY <1>2, <1>3, <1>4 DEF IInv

-----------------------------------------------------------------------------
(* Steps that move no descriptor.                                          *)
LEMMA NothingMoves ==
  ASSUME IInv, UNCHANGED <<fds, list>>, backlog' \in Seq(Conns),
         DOMAIN worker' = Workers,
         \A w \in Workers : /\ {"pc", "fd"} \subseteq DOMAIN worker'[w]
                            /\ worker'[w].pc \in Places /\ worker'[w].fd = worker[w].fd
                            /\ worker'[w].pc \in EmptyHanded => worker[w].fd = Invalid
                            /\ worker'[w].pc \in {"fill", "register"} => worker[w].fd # Invalid,
         {"pc", "batch"} \subseteq DOMAIN loop', loop'.pc = "remove" => Event1' # Invalid
  PROVE  IInv'
<1>1. Shapes'
  BY DEF IInv, Shapes
<1>2. OneHolder'
  BY DEF IInv, OneHolder
<1>3. OnePlace'
  BY DEF IInv, OnePlace, Listed, Held
<1> QED BY <1>1, <1>2, <1>3 DEF IInv

LEMMA SameWorkers ==
  ASSUME IInv, UNCHANGED <<fds, list, worker>>, backlog' \in Seq(Conns),
         {"pc", "batch"} \subseteq DOMAIN loop', loop'.pc = "remove" => Event1' # Invalid
  PROVE  IInv'
BY NothingMoves DEF IInv, Shapes, OneHolder

LEMMA SameLoop ==
  ASSUME IInv, UNCHANGED loop
  PROVE  {"pc", "batch"} \subseteq DOMAIN loop' /\ (loop'.pc = "remove" => Event1' # Invalid)
BY DEF IInv, Shapes, Event1

(* The first node with number f goes, and f is closed.                     *)
LEMMA RemoveKeeps ==
  ASSUME IInv, NEW f, f # Invalid, Contains(list, f), list' = RemoveFirst(list, f),
         fds' = [fds EXCEPT ![f] = Closed], UNCHANGED <<worker, backlog>>,
         {"pc", "batch"} \subseteq DOMAIN loop', loop'.pc # "remove"
  PROVE  IInv'
<1> DEFINE I == {i \in 1 .. Len(list) : list[i] = f}
           k == Min(I)
<1>1. Len(list) \in Nat /\ DOMAIN list = 1 .. Len(list) /\ \A i \in 1 .. Len(list) : list[i] \in Fds \cup {Invalid}
  BY LenProperties, ElementOfSeq DEF IInv, Shapes
<1>2. PICK i \in 1 .. Len(list) : list[i] = f
  BY DEF Contains
<1>3. I = {i}
  BY <1>1, <1>2 DEF IInv, OnePlace
<1>4. k = i
  BY <1>1, <1>3 DEF Min
<1>5. list' = SubSeq(list, 1, i - 1) \o SubSeq(list, i + 1, Len(list))
  <2>1. SelectInSeq(list, LAMBDA v : v = f) = k
    BY <1>3 DEF SelectInSeq
  <2> QED BY <1>2, <1>4, <2>1 DEF RemoveFirst, RemoveAt
<1> HIDE DEF I, k
<1>6. /\ list' \in Seq(Fds \cup {Invalid}) /\ Len(list') = Len(list) - 1
      /\ DOMAIN list' = 1 .. Len(list) - 1
      /\ \A j \in 1 .. Len(list) - 1 : list'[j] = IF j < i THEN list[j] ELSE list[j + 1]
  <2> DEFINE S == Fds \cup {Invalid}
             a == SubSeq(list, 1, i - 1)
             b == SubSeq(list, i + 1, Len(list))
  <2>1. a \in Seq(S) /\ Len(a) = i - 1 /\ \A j \in 1 .. i - 1 : a[j] = list[j]
    <3>1. \A j \in 1 .. i - 1 : list[j] \in S
      BY <1>1
    <3>2. /\ a \in Seq(S) /\ Len(a) = (IF 1 <= i - 1 THEN (i - 1) - 1 + 1 ELSE 0)
          /\ \A j \in 1 .. (i - 1) - 1 + 1 : a[j] = list[1 + j - 1]
      BY <1>1, <3>1, SubSeqProperties
    <3> HIDE DEF a, b, S
    <3> QED BY <1>1, <3>2
  <2>2. b \in Seq(S) /\ Len(b) = Len(list) - i /\ \A j \in 1 .. Len(list) - i : b[j] = list[i + j]
    <3>1. \A j \in i + 1 .. Len(list) : list[j] \in S
      BY <1>1
    <3>2. /\ b \in Seq(S) /\ Len(b) = (IF i + 1 <= Len(list) THEN Len(list) - (i + 1) + 1 ELSE 0)
          /\ \A j \in 1 .. Len(list) - (i + 1) + 1 : b[j] = list[(i + 1) + j - 1]
      BY <1>1, <3>1, SubSeqProperties
    <3> HIDE DEF a, b, S
    <3>3. Len(b) = Len(list) - i
      <4>1. Len(list) \in Nat /\ i \in Nat /\ i <= Len(list)
        BY <1>1
      <4>2. CASE i = Len(list)
        BY <3>2, <4>1, <4>2
      <4>3. CASE i < Len(list)
        BY <3>2, <4>1, <4>3
      <4> QED BY <4>1, <4>2, <4>3
    <3>4. ASSUME NEW j \in 1 .. Len(list) - i PROVE b[j] = list[i + j]
      <4>1. j \in 1 .. Len(list) - (i + 1) + 1 /\ (i + 1) + j - 1 = i + j
        BY <1>1
      <4>2. b[j] = list[(i + 1) + j - 1]
        BY <3>2, <4>1
      <4> QED BY <4>1, <4>2
    <3> QED BY <3>2, <3>3, <3>4
  <2> HIDE DEF S, a, b
  <2>3. /\ a \o b \in Seq(S) /\ Len(a \o b) = Len(a) + Len(b)
        /\ \A j \in 1 .. Len(a) + Len(b) : (a \o b)[j] = IF j <= Len(a) THEN a[j] ELSE b[j - Len(a)]
    BY <2>1, <2>2, ConcatProperties
  <2>4. list' = a \o b
    BY <1>5 DEF a, b
  <2>5. Len(list') = Len(list) - 1 /\ DOMAIN list' = 1 .. Len(list) - 1
    <3>1. Len(list') = Len(list) - 1
      <4>1. Len(a) = i - 1 /\ Len(b) = Len(list) - i
        BY <2>1, <2>2
      <4>2. Len(list') = Len(a) + Len(b)
        BY <2>3, <2>4
      <4> QED BY <1>1, <4>1, <4>2
    <3>2. list' \in Seq(S)
      BY <2>3, <2>4
    <3>3. DOMAIN list' = 1 .. Len(list')
      BY <3>2, LenProperties
    <3> QED BY <3>1, <3>3
  <2>6. ASSUME NEW j \in 1 .. Len(list) - 1
        PROVE  list'[j] = IF j < i THEN list[j] ELSE list[j + 1]
    <3>1. CASE j < i
      BY <1>1, <2>1, <2>2, <2>3, <2>4, <3>1
    <3>2. CASE ~(j < i)
      <4>1. j - (i - 1) \in 1 .. Len(list) - i /\ i + (j - (i - 1)) = j + 1
        BY <1>1, <3>2
      <4>2. j \in 1 .. Len(a) + Len(b) /\ ~(j <= Len(a)) /\ j - Len(a) = j - (i - 1)
        BY <1>1, <2>1, <2>2, <3>2
      <4>3. list'[j] = b[j - (i - 1)]
        BY <2>3, <2>4, <4>2
      <4>4. b[j - (i - 1)] = list[j + 1]
        BY <2>2, <4>1
      <4> QED BY <3>2, <4>3, <4>4
    <3> QED BY <3>1, <3>2
  <2> QED BY <2>3, <2>4, <2>5, <2>6 DEF S
<1>7. \A g : Listed(g)' <=> Listed(g) /\ g # f
  <2>1. ASSUME NEW g, Listed(g)' PROVE Listed(g) /\ g # f
    <3>1. PICK j \in 1 .. Len(list) - 1 : list'[j] = g
      BY <1>6, <2>1 DEF Listed
    <3>2. \E m \in 1 .. Len(list) : m # i /\ list[m] = g
      <4>1. CASE j < i
        <5>1. j \in 1 .. Len(list) /\ j # i /\ list[j] = g
          BY <1>1, <1>6, <3>1, <4>1
        <5> QED BY <5>1
      <4>2. CASE ~(j < i)
        <5>1. j + 1 \in 1 .. Len(list) /\ j + 1 # i
          BY <1>1, <4>2
        <5>2. list[j + 1] = g
          BY <1>6, <3>1, <4>2
        <5> QED BY <5>1, <5>2
      <4> QED BY <4>1, <4>2
    <3>3. PICK m \in 1 .. Len(list) : m # i /\ list[m] = g
      BY <3>2
    <3>4. Listed(g)
      BY <1>1, <3>3 DEF Listed
    <3>5. g # f
      BY <1>1, <1>2, <3>3 DEF IInv, OnePlace
    <3> QED BY <3>4, <3>5
  <2>2. ASSUME NEW g, Listed(g), g # f PROVE Listed(g)'
    <3>1. PICK m \in 1 .. Len(list) : list[m] = g
      BY <1>1, <2>2 DEF Listed
    <3>2. m # i
      BY <1>2, <2>2, <3>1
    <3>3. CASE m < i
      <4>1. m \in 1 .. Len(list) - 1
        BY <1>1, <3>3
      <4> QED BY <1>6, <3>1, <3>3, <4>1 DEF Listed
    <3>4. CASE m > i
      <4>1. m - 1 \in 1 .. Len(list) - 1 /\ ~(m - 1 < i) /\ (m - 1) + 1 = m
        BY <1>1, <3>4
      <4>2. list'[m - 1] = list[m]
        BY <1>6, <4>1
      <4> QED BY <1>6, <3>1, <4>1, <4>2 DEF Listed
    <3> QED BY <1>1, <3>2, <3>3, <3>4
  <2> QED BY <2>1, <2>2
<1>8. \A g : Held(g)' <=> Held(g)
  BY DEF Held
<1>9. f \in Fds /\ Listed(f) /\ ~Held(f)
  <2>1. f \in Fds /\ Listed(f)
    BY <1>1, <1>2 DEF Listed
  <2> QED BY <2>1 DEF IInv, OnePlace
<1>10. \A p, q \in DOMAIN list' : list'[p] = list'[q] /\ list'[p] # Invalid => p = q
  <2> SUFFICES ASSUME NEW p \in 1 .. Len(list) - 1, NEW q \in 1 .. Len(list) - 1,
                      list'[p] = list'[q], list'[p] # Invalid
               PROVE  p = q
    BY <1>6
  <2> DEFINE old(n) == IF n < i THEN n ELSE n + 1
  <2>1. old(p) \in DOMAIN list /\ old(q) \in DOMAIN list
    BY <1>1
  <2>2. list'[p] = list[old(p)] /\ list'[q] = list[old(q)]
    BY <1>1, <1>6
  <2>3. old(p) = old(q)
    BY <2>1, <2>2 DEF IInv, OnePlace
  <2> QED BY <1>1, <2>3
<1>11. OnePlace'
  <2>1. \A g \in Fds : fds'[g] # Closed <=> fds[g] # Closed /\ g # f
    BY <1>9 DEF IInv, Shapes
  <2> QED BY <1>7, <1>8, <1>9, <1>10, <2>1 DEF IInv, OnePlace
<1>12. Shapes' /\ OneHolder'
  BY <1>6 DEF IInv, Shapes, OneHolder
<1> QED BY <1>11, <1>12 DEF IInv

(* A descriptor that no one had is now in the hands of worker w.           *)
LEMMA TakeKeeps ==
  ASSUME IInv, NEW w \in Workers, NEW f \in Fds, fds[f] = Closed, NEW c \in Conns,
         worker[w].pc \in EmptyHanded,
         fds' = [fds EXCEPT ![f] = c], UNCHANGED <<list, loop>>, backlog' \in Seq(Conns),
         worker' = [worker EXCEPT ![w].pc = "fill", ![w].fd = f]
  PROVE  IInv'
<1>1. c # Closed /\ f # Invalid
  BY InvalidIsNone
<1>2. DOMAIN worker' = Workers /\ worker'[w].pc = "fill" /\ worker'[w].fd = f
      /\ {"pc", "fd"} \subseteq DOMAIN worker'[w]
      /\ \A v \in Workers \ {w} : worker'[v] = worker[v]
  BY DEF IInv, Shapes
<1>3. worker[w].fd = Invalid
  BY DEF IInv, OneHolder
<1>4. ~Listed(f) /\ ~Held(f)
  BY DEF IInv, OnePlace
<1>5. Shapes'
  BY <1>2, SameLoop DEF IInv, Shapes, Places
<1>6. OneHolder'
  <2>1. \A v \in Workers \ {w} : worker'[v].fd # f
    BY <1>2, <1>4 DEF Held
  <2>2. \A v \in Workers : worker'[v].pc \in EmptyHanded => worker'[v].fd = Invalid
    BY <1>2 DEF IInv, OneHolder, EmptyHanded
  <2>3. \A v \in Workers : worker'[v].pc \in {"fill", "register"} => worker'[v].fd # Invalid
    BY <1>1, <1>2 DEF IInv, OneHolder
  <2>4. \A u, v \in Workers : worker'[u].fd = worker'[v].fd /\ worker'[u].fd # Invalid => u = v
    BY <1>2, <2>1 DEF IInv, OneHolder
  <2> QED BY <2>2, <2>3, <2>4 DEF OneHolder
<1>7. OnePlace'
  <2>1. \A g \in Fds : Held(g)' <=> Held(g) \/ g = f
    BY <1>2, <1>3, InvalidIsNone DEF Held
  <2>2. \A g \in Fds : Listed(g)' <=> Listed(g)
    BY DEF Listed
  <2>3. \A g \in Fds : fds'[g] # Closed <=> fds[g] # Closed \/ g = f
    BY <1>1 DEF IInv, Shapes
  <2> QED BY <1>4, <2>1, <2>2, <2>3 DEF IInv, OnePlace
<1> QED BY <1>5, <1>6, <1>7 DEF IInv

(* A worker closes the descriptor it holds.                                *)
LEMMA DropKeeps ==
  ASSUME IInv, NEW w \in Workers, worker[w].pc = "register",
         fds' = [fds EXCEPT ![worker[w].fd] = Closed], UNCHANGED <<list, loop, backlog>>,
         worker' = [worker EXCEPT ![w].pc = "add", ![w].fd = Invalid]
  PROVE  IInv'
<1> DEFINE f == worker[w].fd
<1>1. f \in Fds /\ Held(f) /\ ~Listed(f)
  <2>1. f \in Fds
    BY DEF IInv, Shapes, OneHolder
  <2>2. Held(f)
    BY DEF Held
  <2> QED BY <2>1, <2>2 DEF IInv, OnePlace
<1>2. DOMAIN worker' = Workers /\ worker'[w].pc = "add" /\ worker'[w].fd = Invalid
      /\ {"pc", "fd"} \subseteq DOMAIN worker'[w]
      /\ \A v \in Workers \ {w} : worker'[v] = worker[v]
  BY DEF IInv, Shapes
<1>3. Shapes'
  BY <1>2, SameLoop DEF IInv, Shapes, Places
<1>4. OneHolder'
  BY <1>2 DEF IInv, OneHolder, EmptyHanded
<1>5. OnePlace'
  <2>1. \A v \in Workers \ {w} : worker[v].fd # f
    BY <1>1, InvalidIsNone DEF IInv, OneHolder
  <2>2. \A g \in Fds : Held(g)' <=> Held(g) /\ g # f
    BY <1>2, <2>1, InvalidIsNone DEF Held
  <2>3. \A g \in Fds : Listed(g)' <=> Listed(g)
    BY DEF Listed
  <2>4. \A g \in Fds : fds'[g] # Closed <=> fds[g] # Closed /\ g # f
    BY <1>1 DEF IInv, Shapes
  <2> QED BY <1>1, <2>2, <2>3, <2>4 DEF IInv, OnePlace
<1> QED BY <1>3, <1>4, <1>5 DEF IInv

(* A worker puts what it holds in the list, and rests.                     *)
LEMMA AddKeeps ==
  ASSUME IInv, NEW w \in Workers, worker[w].pc = "add",
         list' = <<worker[w].fd>> \o list, UNCHANGED <<fds, loop, backlog>>,
         worker' = [worker EXCEPT ![w] = Resting]
  PROVE  IInv'
<1> DEFINE f == worker[w].fd
           S == Fds \cup {Invalid}
<1>1. f \in S /\ list \in Seq(S) /\ DOMAIN list = 1 .. Len(list) /\ Len(list) \in Nat
  BY LenProperties DEF IInv, Shapes
<1>2. <<f>> \in Seq(S) /\ Len(<<f>>) = 1 /\ <<f>>[1] = f
  BY <1>1
<1> HIDE DEF S
<1>3. /\ list' \in Seq(S) /\ Len(list') = Len(list) + 1
      /\ \A j \in 1 .. Len(list) + 1 : list'[j] = IF j <= 1 THEN <<f>>[j] ELSE list[j - 1]
  <2>1. /\ <<f>> \o list \in Seq(S) /\ Len(<<f>> \o list) = Len(<<f>>) + Len(list)
        /\ \A j \in 1 .. Len(<<f>>) + Len(list) :
             (<<f>> \o list)[j] = IF j <= Len(<<f>>) THEN <<f>>[j] ELSE list[j - Len(<<f>>)]
    BY <1>1, <1>2, ConcatProperties
  <2> QED BY <1>1, <1>2, <2>1
<1>4. DOMAIN list' = 1 .. Len(list) + 1
  BY <1>3, LenProperties
<1>5. list'[1] = f /\ \A j \in 1 .. Len(list) : list'[j + 1] = list[j]
  <2>1. list'[1] = f
    BY <1>1, <1>2, <1>3
  <2>2. ASSUME NEW j \in 1 .. Len(list) PROVE list'[j + 1] = list[j]
    <3>1. j + 1 \in 1 .. Len(list) + 1 /\ ~(j + 1 <= 1) /\ (j + 1) - 1 = j
      BY <1>1
    <3>2. list'[j + 1] = list[(j + 1) - 1]
      BY <1>3, <3>1
    <3> QED BY <3>1, <3>2
  <2> QED BY <2>1, <2>2
<1>6. \A g : Listed(g)' <=> Listed(g) \/ g = f
  <2>1. ASSUME NEW g, Listed(g)', g # f PROVE Listed(g)
    <3>1. PICK j \in 1 .. Len(list) + 1 : list'[j] = g
      BY <1>4, <2>1 DEF Listed
    <3>2. j # 1
      BY <1>5, <2>1, <3>1
    <3>3. j - 1 \in 1 .. Len(list) /\ (j - 1) + 1 = j
      BY <1>1, <3>2
    <3>4. list[j - 1] = g
      BY <1>5, <3>1, <3>3
    <3> QED BY <1>1, <3>3, <3>4 DEF Listed
  <2>2. ASSUME NEW g, Listed(g) PROVE Listed(g)'
    <3>1. PICK j \in 1 .. Len(list) : list[j] = g
      BY <1>1, <2>2 DEF Listed
    <3>2. j + 1 \in DOMAIN list' /\ list'[j + 1] = g
      BY <1>1, <1>4, <1>5, <3>1
    <3> QED BY <3>2 DEF Listed
  <2>3. ASSUME NEW g, g = f PROVE Listed(g)'
    <3>1. 1 \in DOMAIN list' /\ list'[1] = g
      BY <1>1, <1>4, <1>5, <2>3
    <3> QED BY <3>1 DEF Listed
  <2> QED BY <2>1, <2>2, <2>3
<1>7. DOMAIN worker' = Workers /\ worker'[w] = Resting /\ \A v \in Workers \ {w} : worker'[v] = worker[v]
  BY DEF IInv, Shapes
<1>8. /\ {"pc", "fd"} \subseteq DOMAIN Resting /\ Resting.pc = "pop" /\ Resting.fd = Invalid
  BY DEF Resting
<1>9. Shapes'
  BY <1>3, <1>7, <1>8, SameLoop DEF IInv, Shapes, Places, EmptyHanded, S
<1>10. OneHolder'
  BY <1>7, <1>8 DEF IInv, OneHolder
<1>11. \A g \in Fds : Held(g)' <=> Held(g) /\ g # f
  BY <1>7, <1>8, InvalidIsNone DEF IInv, OneHolder, Held
<1>12. f # Invalid => ~Listed(f)
  <2>1. f # Invalid => f \in Fds /\ Held(f)
    BY <1>1 DEF Held, S
  <2> QED BY <2>1 DEF IInv, OnePlace
<1>13. \A i, j \in DOMAIN list' : list'[i] = list'[j] /\ list'[i] # Invalid => i = j
  <2> SUFFICES ASSUME NEW i \in 1 .. Len(list) + 1, NEW j \in 1 .. Len(list) + 1,
                      list'[i] = list'[j], list'[i] # Invalid
               PROVE  i = j
    BY <1>4
  <2>1. CASE i = 1 /\ j = 1
    BY <2>1
  <2>2. CASE i # 1 /\ j # 1
    <3>1. i - 1 \in DOMAIN list /\ j - 1 \in DOMAIN list /\ (i - 1) + 1 = i /\ (j - 1) + 1 = j
      BY <1>1, <2>2
    <3>2. list[i - 1] = list'[i] /\ list[j - 1] = list'[j]
      BY <1>1, <1>5, <3>1
    <3>3. i - 1 = j - 1
      BY <3>1, <3>2 DEF IInv, OnePlace
    <3> QED BY <3>1, <3>3
  <2>3. ASSUME NEW k \in 1 .. Len(list) + 1, k # 1 PROVE list'[k] # f \/ f = Invalid
    <3>1. k - 1 \in DOMAIN list /\ (k - 1) + 1 = k
      BY <1>1, <2>3
    <3>2. list[k - 1] = list'[k]
      BY <1>1, <1>5, <3>1
    <3> QED BY <1>12, <3>1, <3>2 DEF Listed
  <2> QED BY <1>5, <2>1, <2>2, <2>3
<1>14. OnePlace'
  <2>1. \A g \in Fds : g = f => Held(g)
    BY DEF Held
  <2> QED BY <1>6, <1>11, <1>13, <2>1 DEF IInv, OnePlace
<1> QED BY <1>9, <1>10, <1>14 DEF IInv

-----------------------------------------------------------------------------
LEMMA LoopKeeps == ASSUME IInv, EventLoop PROVE IInv'
<1>1. UNCHANGED <<backlog, worker>> /\ backlog' \in Seq(Conns)
  BY DEF EventLoop, IInv, Shapes
<1>2. ASSUME {"pc", "batch"} \subseteq DOMAIN loop', loop'.pc # "remove", UNCHANGED <<fds, list>>
      PROVE  IInv'
  BY <1>1, <1>2, SameWorkers
<1>3. NextEvent.pc # "remove" /\ {"pc", "batch"} \subseteq DOMAIN NextEvent
  BY DEF NextEvent
<1>4. CASE EpollWait
  BY <1>2, <1>4 DEF EpollWait
<1>5. CASE AcceptEvent
  BY <1>2, <1>3, <1>5 DEF AcceptEvent
<1>6. CASE RecvEvent
  BY <1>2, <1>3, <1>6 DEF RecvEvent
<1>7. CASE EndEvent
  <2>1. {"pc", "batch"} \subseteq DOMAIN loop' /\ Event1' = Event1 /\ Event1 # Invalid
    BY <1>7 DEF EndEvent, IInv, Shapes, Event1, Invalid
  <2>2. UNCHANGED <<fds, list>>
    BY <1>7 DEF EndEvent
  <2> QED BY <1>1, <2>1, <2>2, SameWorkers
<1>8. CASE RemoveClient
  <2>1. {"pc", "batch"} \subseteq DOMAIN loop' /\ loop'.pc # "remove" /\ Event1 # Invalid
    BY <1>8 DEF RemoveClient, IInv, Shapes
  <2>2. CASE Contains(list, Event1) /\ list' = RemoveFirst(list, Event1) /\ CloseFd(Event1)
    BY <1>1, <2>1, <2>2, RemoveKeeps DEF CloseFd
  <2>3. CASE UNCHANGED <<fds, list>>
    BY <1>2, <2>1, <2>3
  <2> QED BY <1>8, <2>2, <2>3 DEF RemoveClient, RemoveUnlisted
<1>9. CASE EpollDel
  BY <1>2, <1>3, <1>9 DEF EpollDel
<1> QED BY <1>4, <1>5, <1>6, <1>7, <1>8, <1>9 DEF EventLoop

(* A worker goes to another place, with what it had in its hands.          *)
LEMMA GoesOn ==
  ASSUME IInv, NEW w \in Workers, UNCHANGED <<fds, list, loop, backlog>>,
         DOMAIN worker' = Workers, \A v \in Workers \ {w} : worker'[v] = worker[v],
         {"pc", "fd"} \subseteq DOMAIN worker'[w], worker'[w].pc \in Places,
         worker'[w].fd = worker[w].fd,
         worker'[w].pc \in EmptyHanded => worker[w].fd = Invalid,
         worker'[w].pc \in {"fill", "register"} => worker[w].fd # Invalid
  PROVE  IInv'
<1>1. backlog' \in Seq(Conns) /\ {"pc", "batch"} \subseteq DOMAIN loop'
      /\ (loop'.pc = "remove" => Event1' # Invalid)
  BY SameLoop DEF IInv, Shapes
<1>2. \A v \in Workers : /\ {"pc", "fd"} \subseteq DOMAIN worker'[v]
                         /\ worker'[v].pc \in Places /\ worker'[v].fd = worker[v].fd
                         /\ worker'[v].pc \in EmptyHanded => worker[v].fd = Invalid
                         /\ worker'[v].pc \in {"fill", "register"} => worker[v].fd # Invalid
  BY DEF IInv, Shapes, OneHolder
<1> QED BY <1>1, <1>2, NothingMoves

LEMMA AcceptKeeps == ASSUME IInv, NEW w \in Workers, UNCHANGED loop, Accept(w) PROVE IInv'
<1>1. worker[w].pc \in EmptyHanded /\ worker[w].fd = Invalid /\ UNCHANGED list
  BY DEF Accept, At, EmptyHanded, IInv, OneHolder
<1>2. CASE Goto(w, "add") /\ UNCHANGED <<backlog, fds>>
  BY <1>1, <1>2, GoesOn DEF Goto, IInv, Shapes, Places, EmptyHanded
<1>3. CASE /\ backlog # <<>> /\ Available # {} /\ backlog' = Tail(backlog)
           /\ fds' = [fds EXCEPT ![Lowest] = Head(backlog)]
           /\ worker' = [worker EXCEPT ![w].pc = "fill", ![w].fd = Lowest]
  <2>1. Head(backlog) \in Conns /\ backlog' \in Seq(Conns)
    BY <1>3, HeadTailProperties DEF IInv, Shapes
  <2>2. Lowest \in Fds /\ fds[Lowest] = Closed
    BY <1>3, LowestAvailable DEF Available
  <2> HIDE DEF Lowest
  <2> QED BY <1>1, <1>3, <2>1, <2>2, TakeKeeps
<1> QED BY <1>2, <1>3 DEF Accept

LEMMA RegisterKeeps == ASSUME IInv, NEW w \in Workers, UNCHANGED loop, Register(w) PROVE IInv'
<1>1. worker[w].pc = "register" /\ UNCHANGED <<list, backlog>>
  BY DEF Register, At
<1>2. CASE Goto(w, "add") /\ UNCHANGED fds
  BY <1>1, <1>2, GoesOn DEF Goto, IInv, Shapes, Places, EmptyHanded
<1>3. CASE /\ CloseFd(worker[w].fd)
           /\ worker' = [worker EXCEPT ![w].pc = "add", ![w].fd = Invalid]
  BY <1>1, <1>3, DropKeeps DEF CloseFd
<1> QED BY <1>2, <1>3 DEF Register

LEMMA WorkerKeeps == ASSUME IInv, NEW w \in Workers, Worker(w) PROVE IInv'
<1>1. UNCHANGED loop
  BY DEF Worker
<1>2. ASSUME UNCHANGED <<fds, list, backlog>>, worker[w].pc \in EmptyHanded,
             DOMAIN worker' = Workers, \A v \in Workers \ {w} : worker'[v] = worker[v],
             {"pc", "fd"} \subseteq DOMAIN worker'[w],
             worker'[w].pc \in EmptyHanded, worker'[w].fd = worker[w].fd \/ worker'[w].fd = Invalid
      PROVE  IInv'
  <2>1. worker[w].fd = Invalid
    BY <1>2 DEF IInv, OneHolder
  <2> QED BY <1>1, <1>2, <2>1, GoesOn DEF Places, EmptyHanded
<1> USE DEF At
<1>3. CASE PopTask(w)
  <2>1. \/ worker' = [worker EXCEPT ![w].pc = "accept"]
        \/ worker' = [worker EXCEPT ![w].pc = "broadcast", ![w].data = Head(queue).data]
    BY <1>3 DEF PopTask, Goto
  <2> QED BY <1>2, <1>3, <2>1 DEF PopTask, IInv, Shapes, EmptyHanded
<1>4. CASE Accept(w)
  BY <1>1, <1>4, AcceptKeeps
<1>5. CASE Fill(w)
  BY <1>1, <1>5, GoesOn DEF Fill, Goto, IInv, Shapes, Places, EmptyHanded, OneHolder
<1>6. CASE Register(w)
  BY <1>1, <1>6, RegisterKeeps
<1>7. CASE AddClient(w)
  BY <1>1, <1>7, AddKeeps DEF AddClient, Rests
<1>8. CASE BroadcastClients(w)
  BY <1>2, <1>8 DEF BroadcastClients, IInv, Shapes, EmptyHanded
<1>9. CASE Send(w)
  BY <1>2, <1>9 DEF Send, IInv, Shapes, EmptyHanded
<1>10. CASE SendEnds(w)
  BY <1>2, <1>10 DEF SendEnds, IInv, Shapes, EmptyHanded
<1>11. CASE Draw(w)
  <2>1. \/ worker' = [worker EXCEPT ![w].data = Tail(@)]
        \/ worker' = [worker EXCEPT ![w] = Resting]
    BY <1>11 DEF Draw, Rests
  <2> QED BY <1>2, <1>11, <2>1 DEF Draw, IInv, Shapes, EmptyHanded, Resting
<1> QED BY <1>3, <1>4, <1>5, <1>6, <1>7, <1>8, <1>9, <1>10, <1>11 DEF Worker

LEMMA ClientsKeep == ASSUME IInv, Clients PROVE IInv'
<1>1. UNCHANGED <<list, worker, loop>>
  BY DEF Clients, poolVars
<1>2. UNCHANGED fds /\ backlog' \in Seq(Conns)
  <2>1. PICK c \in Conns : Client(c)
    BY DEF Clients
  <2>2. CASE Connect(c)
    BY <2>2, AppendProperties DEF Connect, IInv, Shapes
  <2>3. CASE ClientSend(c) \/ ClientLeave(c)
    BY <2>3 DEF ClientSend, ClientLeave, Ended, IInv, Shapes
  <2> QED BY <2>1, <2>2, <2>3 DEF Client
<1> QED BY <1>1, <1>2, SameWorkers, SameLoop

LEMMA StepKeeps == IInv /\ [Next]_vars => IInv'
<1> SUFFICES ASSUME IInv, [Next]_vars PROVE IInv'
  OBVIOUS
<1>1. CASE Next
  BY <1>1, LoopKeeps, WorkerKeeps, ClientsKeep DEF Next
<1>2. CASE UNCHANGED vars
  BY <1>2, SameWorkers, SameLoop DEF vars, netVars, poolVars, IInv, Shapes
<1> QED BY <1>1, <1>2

(***************************************************************************)
(* An open descriptor of 1.0v is in one place: the hands of the worker     *)
(* that accepted it, or the list.  The event loop never closes one that is *)
(* not listed, and a worker never lists one twice, whatever number the     *)
(* shared struct epoll_event held when the socket was registered.          *)
(***************************************************************************)
THEOREM ListAgrees == Spec => []ListMatchesSockets
<1>1. Spec => []IInv
  BY InitIInv, StepKeeps, PTL DEF Spec
<1>2. IInv => ListMatchesSockets
  BY PlacesMatch
<1> QED BY <1>1, <1>2, PTL

-----------------------------------------------------------------------------
(***************************************************************************)
(* The order of the messages.  While a worker broadcasts, the clients that *)
(* it has reached are one message ahead: a client still to be reached is   *)
(* taken with that message appended (Now).  What was sent to any two       *)
(* clients is then, at every step, the end of one another.                 *)
(***************************************************************************)
IsSequence(s) == \E S : s \in Seq(S)
Follows(s, t) == IsSuffixOf(s, t) \/ IsSuffixOf(t, s)

(* A connection is accepted once, and has one descriptor.                  *)
Queued(c) == \E i \in DOMAIN backlog : backlog[i] = c
InHand(c) == \E f \in Fds : fds[f] = c /\ Held(f)

AcceptedOnce ==
  /\ \A i, j \in DOMAIN backlog : backlog[i] = backlog[j] => i = j
  /\ DOMAIN peer = Conns
  /\ \A c \in Conns : peer[c] = "new" => ~Queued(c)
  /\ \A c \in Conns : peer[c] = "new" \/ Queued(c) => \A f \in Fds : fds[f] # c
  /\ \A f, g \in Fds : fds[f] = fds[g] /\ fds[f] # Closed => f = g
  /\ \A f \in Fds : fds[f] \in Conns \cup {Closed}

(* No client is sent anything before it is listed.                         *)
NothingSent ==
  /\ DOMAIN seen = Conns /\ DOMAIN wire = Conns
  /\ \A c \in Conns : IsSequence(seen[c])
  /\ \A c \in Conns : peer[c] = "new" \/ Queued(c) \/ InHand(c) => seen[c] = <<>>

(* The mutex is held by the worker that broadcasts.                        *)
OneSender ==
  \A w \in Workers : /\ {"at", "data"} \subseteq DOMAIN worker[w] /\ worker[w].at \in Nat \ {0}
                     /\ worker[w].pc = "send" => mutex = w

Hears(f) == Listed(f) /\ wire[fds[f]] = "open"

Reached(f, n) == \E i \in DOMAIN list : list[i] = f /\ i < n
Now(f, n, msg) == IF Reached(f, n) THEN seen[fds[f]] ELSE Append(seen[fds[f]], msg)

AllEven == \A f, g \in Fds : Hears(f) /\ Hears(g) => Follows(seen[fds[f]], seen[fds[g]])
AllInStep(n, msg) ==
  \A f, g \in Fds : Hears(f) /\ Hears(g) => Follows(Now(f, n, msg), Now(g, n, msg))

InStep == /\ mutex = Nobody => AllEven
          /\ \A w \in Workers : worker[w].pc = "send" => AllInStep(worker[w].at, worker[w].data)

Sequenced == AcceptedOnce /\ NothingSent /\ OneSender /\ InStep

-----------------------------------------------------------------------------
LEMMA SuffixElements ==
  ASSUME NEW s, NEW t, IsSequence(s), IsSequence(t)
  PROVE  IsSuffixOf(s, t) <=> /\ Len(s) <= Len(t)
                              /\ \A i \in 1 .. Len(s) : s[i] = t[Len(t) - Len(s) + i]
<1>1. PICK A, B : s \in Seq(A) /\ t \in Seq(B)
  BY DEF IsSequence
<1> DEFINE S == A \cup B
<1>2. s \in Seq(S) /\ t \in Seq(S)
  BY <1>1, SeqMonotonic
<1> HIDE DEF S
<1>3. /\ Len(s) \in Nat /\ Len(t) \in Nat /\ DOMAIN s = 1 .. Len(s)
      /\ \A i \in 1 .. Len(t) : t[i] \in S
  BY <1>2, LenProperties, ElementOfSeq
<1>4. ASSUME Len(s) <= Len(t)
      PROVE  s = SubSeq(t, Len(t) - Len(s) + 1, Len(t))
               <=> \A i \in 1 .. Len(s) : s[i] = t[Len(t) - Len(s) + i]
  <2> DEFINE m == Len(t) - Len(s) + 1
             u == SubSeq(t, m, Len(t))
  <2>1. m \in Nat /\ 1 <= m /\ m \in Int /\ Len(t) \in Int
    BY <1>3, <1>4, SMT
  <2>2. ASSUME NEW i \in m .. Len(t) PROVE t[i] \in S
    <3>1. i \in 1 .. Len(t)
      BY <1>3, <2>1, SMT
    <3> QED BY <1>3, <3>1
  <2>3. /\ u \in Seq(S) /\ Len(u) = (IF m <= Len(t) THEN Len(t) - m + 1 ELSE 0)
        /\ \A i \in 1 .. Len(t) - m + 1 : u[i] = t[m + i - 1]
    BY <2>1, <2>2, SubSeqProperties
  <2> HIDE DEF u
  <2>4. Len(u) = Len(s)
    BY <1>3, <1>4, <2>3
  <2>5. ASSUME NEW i \in 1 .. Len(s) PROVE u[i] = t[Len(t) - Len(s) + i]
    <3>1. i \in 1 .. Len(t) - m + 1 /\ m + i - 1 = Len(t) - Len(s) + i
      BY <1>3, <1>4
    <3> HIDE DEF m
    <3> QED BY <2>3, <3>1
  <2> HIDE DEF m
  <2>6. s = u <=> \A i \in 1 .. Len(s) : s[i] = u[i]
    BY <1>2, <2>3, <2>4, SeqEqual
  <2>7. s = u <=> \A i \in 1 .. Len(s) : s[i] = t[Len(t) - Len(s) + i]
    BY <2>5, <2>6
  <2> QED BY <2>7 DEF u, m
<1> QED BY <1>4 DEF IsSuffixOf

LEMMA Appended ==
  ASSUME NEW s, NEW msg, IsSequence(s)
  PROVE  /\ IsSequence(Append(s, msg)) /\ Len(s) \in Nat /\ Len(Append(s, msg)) = Len(s) + 1
         /\ \A i \in 1 .. Len(s) : Append(s, msg)[i] = s[i]
         /\ Append(s, msg)[Len(s) + 1] = msg
<1>1. PICK A : s \in Seq(A)
  BY DEF IsSequence
<1> DEFINE S == A \cup {msg}
<1>2. s \in Seq(S) /\ msg \in S
  BY <1>1, SeqMonotonic
<1> HIDE DEF S
<1> QED BY <1>2, AppendProperties, LenProperties DEF IsSequence

(* The same message is sent to both.                                       *)
LEMMA SuffixAppend ==
  ASSUME NEW s, NEW t, NEW msg, IsSequence(s), IsSequence(t), IsSuffixOf(s, t)
  PROVE  IsSuffixOf(Append(s, msg), Append(t, msg))
<1> DEFINE a == Append(s, msg)
           b == Append(t, msg)
<1>1. /\ IsSequence(a) /\ Len(s) \in Nat /\ Len(a) = Len(s) + 1
      /\ \A i \in 1 .. Len(s) : a[i] = s[i]
      /\ a[Len(s) + 1] = msg
  BY Appended
<1>2. /\ IsSequence(b) /\ Len(t) \in Nat /\ Len(b) = Len(t) + 1
      /\ \A i \in 1 .. Len(t) : b[i] = t[i]
      /\ b[Len(t) + 1] = msg
  BY Appended
<1>3. Len(s) <= Len(t) /\ \A i \in 1 .. Len(s) : s[i] = t[Len(t) - Len(s) + i]
  BY SuffixElements
<1> HIDE DEF a, b
<1>4. ASSUME NEW i \in 1 .. Len(a) PROVE a[i] = b[Len(b) - Len(a) + i]
  <2>1. CASE i = Len(a)
    BY <1>1, <1>2, <2>1
  <2>2. CASE i # Len(a)
    <3>1. i \in 1 .. Len(s) /\ Len(b) - Len(a) + i = Len(t) - Len(s) + i
          /\ Len(t) - Len(s) + i \in 1 .. Len(t)
      BY <1>1, <1>2, <1>3, <2>2
    <3>2. a[i] = s[i] /\ s[i] = t[Len(t) - Len(s) + i]
      BY <1>1, <1>3, <3>1
    <3>3. b[Len(t) - Len(s) + i] = t[Len(t) - Len(s) + i]
      BY <1>2, <3>1
    <3> QED BY <3>1, <3>2, <3>3
  <2> QED BY <2>1, <2>2
<1>5. Len(a) <= Len(b)
  BY <1>1, <1>2, <1>3
<1>6. IsSuffixOf(a, b)
  BY <1>1, <1>2, <1>4, <1>5, SuffixElements
<1> QED BY <1>6 DEF a, b

LEMMA FollowsAppend ==
  ASSUME NEW s, NEW t, NEW msg, IsSequence(s), IsSequence(t), Follows(s, t)
  PROVE  Follows(Append(s, msg), Append(t, msg))
BY SuffixAppend DEF Follows

LEMMA FollowsNothing ==
  ASSUME NEW s, IsSequence(s)
  PROVE  Follows(<<>>, s) /\ Follows(s, <<>>)
<1>1. IsSequence(<<>>) /\ Len(<<>>) = 0
  BY EmptySeq DEF IsSequence
<1>2. Len(s) \in Nat
  BY LenProperties DEF IsSequence
<1> QED BY <1>1, <1>2, SuffixElements DEF Follows

-----------------------------------------------------------------------------
LEMMA InitSequenced == Init => Sequenced
<1> SUFFICES ASSUME Init PROVE Sequenced
  OBVIOUS
<1> USE DEF Init, init_server, NetInit, initClientManager, init_thread_pool, Resting
<1>1. backlog = <<>> /\ DOMAIN backlog = {} /\ DOMAIN list = {} /\ IsSequence(<<>>)
  BY EmptySeq DEF IsSequence
<1>2. AcceptedOnce
  BY <1>1, InvalidIsNone DEF AcceptedOnce, Queued
<1>3. NothingSent
  BY <1>1 DEF NothingSent
<1>4. OneSender
  BY DEF OneSender
<1>5. InStep
  BY <1>1 DEF InStep, AllEven, Hears, Listed
<1> QED BY <1>2, <1>3, <1>4, <1>5 DEF Sequenced

LEMMA NobodySends ==
  ASSUME OneSender, mutex = Nobody, NEW w \in Workers
  PROVE  worker[w].pc # "send"
BY ThreadPoolAssumption DEF OneSender

LEMMA SocketOf ==
  ASSUME IInv, AcceptedOnce, NEW f \in Fds, Listed(f)
  PROVE  /\ fds[f] \in Conns /\ peer[fds[f]] # "new" /\ ~Queued(fds[f])
         /\ \A g \in Fds : fds[g] = fds[f] => g = f
         /\ ~InHand(fds[f])
<1>1. fds[f] # Closed /\ ~Held(f)
  BY DEF IInv, OnePlace
<1>2. fds[f] \in Conns /\ \A g \in Fds : fds[g] = fds[f] => g = f
  BY <1>1 DEF AcceptedOnce
<1> QED BY <1>1, <1>2 DEF AcceptedOnce, InHand

(* Steps that neither accept nor send: descriptors are at most closed.     *)
Settled == /\ UNCHANGED <<backlog, seen>>
           /\ DOMAIN peer' = Conns /\ \A c \in Conns : peer'[c] = "new" => peer[c] = "new"
           /\ DOMAIN wire' = Conns
           /\ \A f \in Fds : fds'[f] = fds[f] \/ fds'[f] = Closed
           /\ \A f \in Fds : Held(f)' => Held(f)

LEMMA SettledKeeps ==
  ASSUME Sequenced, Settled
  PROVE  AcceptedOnce' /\ NothingSent'
<1>1. \A c : Queued(c)' <=> Queued(c)
  BY DEF Queued, Settled
<1>2. \A c \in Conns : InHand(c)' => InHand(c)
  BY InvalidIsNone DEF InHand, Settled
<1>3. AcceptedOnce'
  BY <1>1, InvalidIsNone DEF Sequenced, AcceptedOnce, Settled
<1>4. NothingSent'
  BY <1>1, <1>2 DEF Sequenced, NothingSent, Settled
<1> QED BY <1>3, <1>4

(* Senders stay where they are, and what is listed stays as it is.         *)
Still == /\ UNCHANGED <<list, seen, mutex>>
         /\ \A f \in Fds : Listed(f) => fds'[f] = fds[f] /\ wire'[fds[f]] = wire[fds[f]]
         /\ \A w \in Workers : /\ {"at", "data"} \subseteq DOMAIN worker'[w]
                               /\ worker'[w].at \in Nat \ {0}
                               /\ worker'[w].pc = "send" =>
                                    /\ worker[w].pc = "send"
                                    /\ worker'[w].at = worker[w].at
                                    /\ worker'[w].data = worker[w].data

LEMMA StillKeeps ==
  ASSUME Sequenced, Still
  PROVE  OneSender' /\ InStep'
<1>1. OneSender'
  BY DEF Sequenced, OneSender, Still
<1>2. \A f \in Fds : Hears(f)' => Hears(f) /\ fds'[f] = fds[f]
  BY DEF Hears, Listed, Still
<1>3. mutex' = Nobody => AllEven'
  <2> SUFFICES ASSUME mutex' = Nobody, NEW f \in Fds, NEW g \in Fds, Hears(f)', Hears(g)'
               PROVE  Follows(seen[fds[f]], seen[fds[g]])'
    BY DEF AllEven
  <2>1. seen' = seen /\ AllEven
    BY DEF Sequenced, InStep, Still
  <2>2. fds'[f] = fds[f] /\ fds'[g] = fds[g] /\ Follows(seen[fds[f]], seen[fds[g]])
    BY <1>2, <2>1 DEF AllEven
  <2> QED BY <2>1, <2>2 DEF Follows
<1>4. ASSUME NEW w \in Workers, worker'[w].pc = "send"
      PROVE  AllInStep(worker[w].at, worker[w].data)'
  <2> SUFFICES ASSUME NEW f \in Fds, NEW g \in Fds, Hears(f)', Hears(g)'
               PROVE  Follows(Now(f, worker[w].at, worker[w].data),
                              Now(g, worker[w].at, worker[w].data))'
    BY DEF AllInStep
  <2>1. /\ seen' = seen /\ list' = list /\ worker'[w].at = worker[w].at
        /\ worker'[w].data = worker[w].data
        /\ AllInStep(worker[w].at, worker[w].data)
    BY <1>4 DEF Sequenced, InStep, Still
  <2>2. /\ fds'[f] = fds[f] /\ fds'[g] = fds[g]
        /\ Follows(Now(f, worker[w].at, worker[w].data), Now(g, worker[w].at, worker[w].data))
    BY <1>2, <2>1 DEF AllInStep
  <2>3. /\ Now(f, worker[w].at, worker[w].data)' = Now(f, worker[w].at, worker[w].data)
        /\ Now(g, worker[w].at, worker[w].data)' = Now(g, worker[w].at, worker[w].data)
    BY <2>1, <2>2 DEF Now, Reached
  <2> QED BY <2>2, <2>3 DEF Follows
<1> QED BY <1>1, <1>3, <1>4 DEF InStep

(* The list changes while nobody broadcasts.                               *)
LEMMA FreeKeeps ==
  ASSUME IInv, IInv', Sequenced, mutex = Nobody, UNCHANGED <<seen, wire, mutex>>,
         \A f \in Fds : fds'[f] = fds[f] \/ fds'[f] = Closed,
         \A w \in Workers : /\ {"at", "data"} \subseteq DOMAIN worker'[w]
                            /\ worker'[w].at \in Nat \ {0} /\ worker'[w].pc # "send"
  PROVE  OneSender' /\ InStep'
<1>1. OneSender'
  BY DEF OneSender
<1>2. ASSUME NEW f \in Fds, Hears(f)'
      PROVE  /\ fds'[f] = fds[f] /\ fds[f] \in Conns
             /\ Hears(f) \/ seen[fds[f]] = <<>>
  <2>1. fds'[f] # Closed /\ fds'[f] = fds[f] /\ wire[fds[f]] = "open"
    BY <1>2 DEF IInv, OnePlace, Hears
  <2>2. Listed(f) \/ Held(f)
    BY <2>1 DEF IInv, OnePlace
  <2>3. fds[f] \in Conns
    BY <2>1 DEF Sequenced, AcceptedOnce
  <2>4. Held(f) => seen[fds[f]] = <<>>
    BY <2>3 DEF Sequenced, NothingSent, InHand
  <2> QED BY <2>1, <2>2, <2>3, <2>4 DEF Hears
<1>3. AllEven'
  <2> SUFFICES ASSUME NEW f \in Fds, NEW g \in Fds, Hears(f)', Hears(g)'
               PROVE  Follows(seen[fds[f]], seen[fds[g]])'
    BY DEF AllEven
  <2>1. /\ fds'[f] = fds[f] /\ fds[f] \in Conns /\ fds'[g] = fds[g] /\ fds[g] \in Conns
        /\ Hears(f) \/ seen[fds[f]] = <<>>
        /\ Hears(g) \/ seen[fds[g]] = <<>>
    BY <1>2
  <2>2. IsSequence(seen[fds[f]]) /\ IsSequence(seen[fds[g]])
    BY <2>1 DEF Sequenced, NothingSent
  <2>3. AllEven
    BY DEF Sequenced, InStep
  <2>4. Follows(seen[fds[f]], seen[fds[g]])
    BY <2>1, <2>2, <2>3, FollowsNothing DEF AllEven
  <2> QED BY <2>1, <2>4 DEF Follows
<1> QED BY <1>1, <1>3 DEF InStep

-----------------------------------------------------------------------------
(* The broadcast.                                                          *)
LEMMA BroadcastInStep ==
  ASSUME IInv, Sequenced, NEW w \in Workers, BroadcastClients(w)
  PROVE  OneSender' /\ InStep'
<1>1. /\ mutex = Nobody /\ mutex' = w /\ mutex' # Nobody /\ UNCHANGED <<seen, fds, wire, list>>
      /\ worker' = [worker EXCEPT ![w].pc = "send", ![w].at = 1]
  BY ThreadPoolAssumption DEF BroadcastClients, Lock
<1>2. /\ {"at", "data"} \subseteq DOMAIN worker'[w] /\ worker'[w].pc = "send" /\ worker'[w].at = 1
      /\ worker'[w].data = worker[w].data
      /\ \A v \in Workers \ {w} : worker'[v] = worker[v]
  BY <1>1 DEF IInv, Shapes, Sequenced, OneSender
<1>3. \A v \in Workers \ {w} : worker'[v].pc # "send"
  BY <1>1, <1>2, NobodySends DEF Sequenced
<1>4. OneSender'
  <2> SUFFICES ASSUME NEW v \in Workers
               PROVE  /\ {"at", "data"} \subseteq DOMAIN worker'[v] /\ worker'[v].at \in Nat \ {0}
                      /\ worker'[v].pc = "send" => mutex' = v
    BY DEF OneSender
  <2>1. CASE v = w
    BY <1>1, <1>2, <2>1
  <2>2. CASE v # w
    BY <1>2, <1>3, <2>2 DEF Sequenced, OneSender
  <2> QED BY <2>1, <2>2
<1>5. AllInStep(1, worker[w].data)'
  <2> DEFINE msg == worker[w].data
  <2> SUFFICES ASSUME NEW f \in Fds, NEW g \in Fds, Hears(f)', Hears(g)'
               PROVE  Follows(Now(f, 1, worker[w].data), Now(g, 1, worker[w].data))'
    BY DEF AllInStep
  <2>1. Hears(f) /\ Hears(g)
    BY <1>1 DEF Hears, Listed
  <2>2. Follows(seen[fds[f]], seen[fds[g]])
    BY <1>1, <2>1 DEF Sequenced, InStep, AllEven
  <2>3. IsSequence(seen[fds[f]]) /\ IsSequence(seen[fds[g]])
    <3>1. fds[f] \in Conns /\ fds[g] \in Conns
      BY <2>1, SocketOf DEF Sequenced, Hears
    <3> QED BY <3>1 DEF Sequenced, NothingSent
  <2>4. Follows(Append(seen[fds[f]], msg), Append(seen[fds[g]], msg))
    BY <2>2, <2>3, FollowsAppend
  <2>5. \A h \in Fds : ~Reached(h, 1)'
    <3>1. \A i \in DOMAIN list : ~(i < 1)
      BY LenProperties DEF IInv, Shapes
    <3> QED BY <1>1, <3>1 DEF Reached
  <2>6. /\ Now(f, 1, worker[w].data)' = Append(seen[fds[f]], msg)
        /\ Now(g, 1, worker[w].data)' = Append(seen[fds[g]], msg)
    BY <1>1, <1>2, <2>5 DEF Now
  <2> QED BY <2>4, <2>6 DEF Follows
<1>6. ASSUME NEW v \in Workers, worker'[v].pc = "send"
      PROVE  AllInStep(worker[v].at, worker[v].data)'
  <2>1. v = w
    BY <1>3, <1>6
  <2>2. worker'[v].at = 1 /\ worker'[v].data = worker'[w].data
    BY <1>2, <2>1
  <2> QED BY <1>5, <2>2 DEF AllInStep, Now
<1> QED BY <1>1, <1>4, <1>6 DEF InStep

(* A sender is alone.                                                      *)
LEMMA AloneSends ==
  ASSUME OneSender, NEW w \in Workers, worker[w].pc = "send"
  PROVE  mutex = w /\ mutex # Nobody /\ \A v \in Workers \ {w} : worker[v].pc # "send"
BY ThreadPoolAssumption DEF OneSender

LEMMA SendInStep ==
  ASSUME IInv, IInv', Sequenced, NEW w \in Workers, Send(w), UNCHANGED peer
  PROVE  Sequenced'
<1> DEFINE k == worker[w].at
           msg == worker[w].data
           f == list[k]
           c == fds[f]
<1>1. /\ worker[w].pc = "send" /\ k <= Len(list) /\ worker' = [worker EXCEPT ![w].at = @ + 1]
      /\ UNCHANGED <<backlog, fds, list, mutex>>
      /\ \E result \in SendResults(f) :
           /\ seen' = IF result = "all" THEN [seen EXCEPT ![c] = Append(@, msg)] ELSE seen
           /\ wire' = IF result # "all" /\ f # Invalid THEN [wire EXCEPT ![c] = "broken"] ELSE wire
  BY DEF Send, At
<1>2. mutex = w /\ mutex # Nobody /\ \A v \in Workers \ {w} : worker[v].pc # "send"
  BY <1>1, AloneSends DEF Sequenced
<1>3. /\ k \in Nat \ {0} /\ k \in DOMAIN list /\ f \in Fds \cup {Invalid}
      /\ DOMAIN list = 1 .. Len(list) /\ Len(list) \in Nat
  <2>1. /\ k \in Nat \ {0} /\ list \in Seq(Fds \cup {Invalid})
    BY DEF Sequenced, OneSender, IInv, Shapes
  <2>2. DOMAIN list = 1 .. Len(list) /\ Len(list) \in Nat
    BY <2>1, LenProperties
  <2>3. k \in 1 .. Len(list)
    BY <1>1, <2>1, <2>2
  <2> QED BY <2>1, <2>2, <2>3, ElementOfSeq
<1>4. /\ DOMAIN worker' = Workers /\ {"at", "data"} \subseteq DOMAIN worker'[w]
      /\ worker'[w].at = k + 1 /\ worker'[w].data = msg /\ worker'[w].pc = "send"
      /\ worker'[w].fd = worker[w].fd
      /\ \A v \in Workers \ {w} : worker'[v] = worker[v]
  BY <1>1 DEF IInv, Shapes, Sequenced, OneSender
<1>5. OneSender'
  BY <1>1, <1>2, <1>3, <1>4 DEF Sequenced, OneSender
<1>6. CASE f = Invalid
  <2>1. SendResults(f) = {"error"}
    BY <1>6, InvalidIsNone DEF SendResults
  <2>2. UNCHANGED <<seen, wire>>
    BY <1>1, <1>6, <2>1
  <2>3. ASSUME NEW g \in Fds PROVE Reached(g, k + 1) <=> Reached(g, k)
    <3>1. \A i \in DOMAIN list : list[i] = g => i # k
      BY <1>6, InvalidIsNone
    <3>2. \A i \in DOMAIN list : i # k => (i < k + 1 <=> i < k)
      BY <1>3
    <3> QED BY <3>1, <3>2 DEF Reached
  <2>4. AllInStep(k, msg)
    BY <1>1 DEF Sequenced, InStep
  <2>5. AllInStep(worker[w].at, worker[w].data)'
    <3> SUFFICES ASSUME NEW g \in Fds, NEW h \in Fds, Hears(g)', Hears(h)'
                 PROVE  Follows(Now(g, worker[w].at, worker[w].data),
                                Now(h, worker[w].at, worker[w].data))'
      BY DEF AllInStep
    <3>1. Hears(g) /\ Hears(h)
      BY <1>1, <2>2 DEF Hears, Listed
    <3>2. Follows(Now(g, k, msg), Now(h, k, msg))
      BY <2>4, <3>1 DEF AllInStep
    <3>3. \A x \in Fds : Reached(x, worker[w].at)' <=> Reached(x, k)
      BY <1>1, <1>4, <2>3 DEF Reached
    <3>4. /\ Now(g, worker[w].at, worker[w].data)' = Now(g, k, msg)
          /\ Now(h, worker[w].at, worker[w].data)' = Now(h, k, msg)
      BY <1>1, <1>4, <2>2, <3>3 DEF Now
    <3> QED BY <3>2, <3>4 DEF Follows
  <2>6. InStep'
    BY <1>1, <1>2, <1>4, <2>5 DEF InStep
  <2>7. Settled
    BY <1>1, <1>4, <2>2 DEF Settled, Sequenced, AcceptedOnce, NothingSent, Held
  <2> QED BY <1>5, <2>6, <2>7, SettledKeeps DEF Sequenced
<1>7. CASE f \in Fds
  <2>0. Listed(f) /\ f # Invalid
    BY <1>3, <1>7, InvalidIsNone DEF Listed
  <2>1. /\ c \in Conns /\ peer[c] # "new" /\ ~Queued(c) /\ ~InHand(c)
        /\ \A g \in Fds : fds[g] = c => g = f
    BY <1>7, <2>0, SocketOf DEF Sequenced
  <2>2. ASSUME NEW g \in Fds, Listed(g) PROVE Reached(g, k + 1) <=> Reached(g, k) \/ g = f
    <3>1. \A i \in DOMAIN list : i < k + 1 <=> i < k \/ i = k
      BY <1>3
    <3> QED BY <1>3, <3>1 DEF Reached
  <2>3. ~Reached(f, k)
    <3>1. \A i \in DOMAIN list : list[i] = f => i = k
      BY <1>3, <2>0 DEF IInv, OnePlace
    <3>2. ~(k < k)
      BY <1>3
    <3> QED BY <3>1, <3>2 DEF Reached
  <2>4. DOMAIN seen = Conns /\ DOMAIN wire = Conns /\ IsSequence(seen[c])
    BY <2>1 DEF Sequenced, NothingSent
  <2>5. PICK result \in SendResults(f) :
           /\ seen' = IF result = "all" THEN [seen EXCEPT ![c] = Append(@, msg)] ELSE seen
           /\ wire' = IF result # "all" /\ f # Invalid THEN [wire EXCEPT ![c] = "broken"] ELSE wire
    BY <1>1
  <2>6. ASSUME NEW g \in Fds, Hears(g)'
        PROVE  Hears(g) /\ Now(g, worker[w].at, worker[w].data)' = Now(g, k, msg)
    <3>0. Listed(g)
      BY <1>1, <2>6 DEF Hears, Listed
    <3>1. Reached(g, worker[w].at)' <=> Reached(g, k) \/ g = f
      BY <1>1, <1>4, <2>2, <3>0 DEF Reached
    <3>2. CASE g = f
      <4>1. result = "all"
        BY <1>1, <2>0, <2>1, <2>4, <2>5, <2>6, <3>2 DEF Hears
      <4>2. wire' = wire /\ seen'[c] = Append(seen[c], msg)
        BY <2>1, <2>4, <2>5, <4>1
      <4>3. Now(g, k, msg) = Append(seen[c], msg)
        BY <2>3, <3>2 DEF Now
      <4>4. Now(g, worker[w].at, worker[w].data)' = seen'[c]
        BY <1>1, <3>1, <3>2 DEF Now
      <4>5. Hears(g)
        BY <1>1, <2>6, <4>2 DEF Hears, Listed
      <4> QED BY <4>2, <4>3, <4>4, <4>5
    <3>3. CASE g # f
      <4>1. fds[g] # c
        BY <2>1, <3>3
      <4>2. wire'[fds[g]] = wire[fds[g]] /\ seen'[fds[g]] = seen[fds[g]]
        <5>1. PICK d : d = fds[g]
          OBVIOUS
        <5>2. d # c /\ d \in Conns
          BY <3>0, <4>1, <5>1, SocketOf DEF Sequenced
        <5>3. seen' = seen \/ seen' = [seen EXCEPT ![c] = Append(@, msg)]
          BY <2>5
        <5>4. wire' = wire \/ wire' = [wire EXCEPT ![c] = "broken"]
          BY <2>5
        <5> HIDE DEF c, msg
        <5>5. seen'[d] = seen[d]
          BY <2>4, <5>2, <5>3
        <5>6. wire'[d] = wire[d]
          BY <2>4, <5>2, <5>4
        <5> QED BY <5>1, <5>5, <5>6
      <4>3. Hears(g)
        BY <1>1, <2>6, <4>2 DEF Hears, Listed
      <4>4. Now(g, worker[w].at, worker[w].data)' = Now(g, k, msg)
        BY <1>1, <1>4, <3>1, <3>3, <4>2 DEF Now
      <4> QED BY <4>3, <4>4
    <3> QED BY <3>2, <3>3
  <2>7. AllInStep(worker[w].at, worker[w].data)'
    <3> SUFFICES ASSUME NEW g \in Fds, NEW h \in Fds, Hears(g)', Hears(h)'
                 PROVE  Follows(Now(g, worker[w].at, worker[w].data),
                                Now(h, worker[w].at, worker[w].data))'
      BY DEF AllInStep
    <3>1. Hears(g) /\ Hears(h)
      BY <2>6
    <3>2. AllInStep(k, msg)
      BY <1>1 DEF Sequenced, InStep
    <3>3. Follows(Now(g, k, msg), Now(h, k, msg))
      BY <3>1, <3>2 DEF AllInStep
    <3> QED BY <2>6, <3>3 DEF Follows
  <2>8. InStep'
    BY <1>1, <1>2, <1>4, <2>7 DEF InStep
  <2>9. AcceptedOnce'
    BY <1>1 DEF Sequenced, AcceptedOnce, Queued
  <2>10. NothingSent'
    <3>1. DOMAIN seen' = Conns /\ DOMAIN wire' = Conns /\ \A d \in Conns \ {c} : seen'[d] = seen[d]
      BY <2>4, <2>5
    <3>2. IsSequence(seen'[c])
      <4>1. seen'[c] = seen[c] \/ seen'[c] = Append(seen[c], msg)
        BY <2>1, <2>4, <2>5
      <4>2. IsSequence(Append(seen[c], msg))
        BY <2>4, Appended
      <4> QED BY <2>4, <4>1, <4>2
    <3>3. \A d \in Conns : (Queued(d)' <=> Queued(d)) /\ (InHand(d)' <=> InHand(d))
      BY <1>1, <1>4 DEF Queued, InHand, Held
    <3> QED BY <2>1, <3>1, <3>2, <3>3 DEF Sequenced, NothingSent
  <2> QED BY <1>5, <2>8, <2>9, <2>10 DEF Sequenced
<1> QED BY <1>3, <1>6, <1>7

LEMMA SendEndsInStep ==
  ASSUME IInv, Sequenced, NEW w \in Workers, SendEnds(w)
  PROVE  OneSender' /\ InStep'
<1> DEFINE k == worker[w].at
           msg == worker[w].data
<1>1. /\ worker[w].pc = "send" /\ k > Len(list) /\ UNCHANGED <<seen, fds, wire, list>>
      /\ mutex' = (IF mutex = w THEN Nobody ELSE mutex)
      /\ worker' = [worker EXCEPT ![w].pc = "draw", ![w].data = process_buffer(@)]
  BY DEF SendEnds, At
<1>2. mutex' = Nobody /\ \A v \in Workers \ {w} : worker[v].pc # "send"
  BY <1>1, AloneSends DEF Sequenced
<1>3. /\ {"at", "data"} \subseteq DOMAIN worker'[w] /\ worker'[w].at = k /\ worker'[w].pc = "draw"
      /\ \A v \in Workers \ {w} : worker'[v] = worker[v]
  BY <1>1 DEF IInv, Shapes, Sequenced, OneSender
<1>4. OneSender'
  BY <1>2, <1>3 DEF Sequenced, OneSender
<1>5. AllEven'
  <2> SUFFICES ASSUME NEW f \in Fds, NEW g \in Fds, Hears(f)', Hears(g)'
               PROVE  Follows(seen[fds[f]], seen[fds[g]])'
    BY DEF AllEven
  <2>1. Hears(f) /\ Hears(g)
    BY <1>1 DEF Hears, Listed
  <2>2. \A h \in Fds : Listed(h) => Reached(h, k)
    <3>1. \A i \in DOMAIN list : i < k
      <4>1. DOMAIN list = 1 .. Len(list) /\ Len(list) \in Nat /\ k \in Nat
        BY LenProperties DEF IInv, Shapes, Sequenced, OneSender
      <4> QED BY <1>1, <4>1
    <3> QED BY <3>1 DEF Listed, Reached
  <2>3. AllInStep(k, msg)
    BY <1>1 DEF Sequenced, InStep
  <2>4. Now(f, k, msg) = seen[fds[f]] /\ Now(g, k, msg) = seen[fds[g]]
    BY <2>1, <2>2 DEF Hears, Now
  <2>5. Follows(seen[fds[f]], seen[fds[g]])
    BY <2>1, <2>3, <2>4 DEF AllInStep
  <2> QED BY <1>1, <2>5 DEF Follows
<1> QED BY <1>2, <1>3, <1>4, <1>5 DEF InStep

-----------------------------------------------------------------------------
LEMMA AcceptSequenced ==
  ASSUME IInv, Sequenced, NEW w \in Workers, Accept(w), UNCHANGED <<peer, seen>>
  PROVE  Sequenced'
<1>1. worker[w].pc = "accept" /\ worker[w].fd = Invalid /\ UNCHANGED <<list, mutex>>
  BY DEF Accept, At, IInv, OneHolder, EmptyHanded
<1>2. CASE Goto(w, "add") /\ UNCHANGED <<backlog, fds, wire>>
  <2>1. /\ DOMAIN worker' = Workers /\ {"at", "data"} \subseteq DOMAIN worker'[w]
        /\ worker'[w].at = worker[w].at /\ worker'[w].pc = "add" /\ worker'[w].fd = worker[w].fd
        /\ \A v \in Workers \ {w} : worker'[v] = worker[v]
    BY <1>2 DEF Goto, IInv, Shapes, Sequenced, OneSender
  <2>2. Settled
    BY <1>2, <2>1 DEF Settled, Sequenced, AcceptedOnce, NothingSent, Held
  <2>3. Still
    BY <1>1, <1>2, <2>1 DEF Still, Sequenced, OneSender
  <2> QED BY <2>2, <2>3, SettledKeeps, StillKeeps DEF Sequenced
<1>3. CASE /\ backlog # <<>> /\ Available # {} /\ backlog' = Tail(backlog)
           /\ fds' = [fds EXCEPT ![Lowest] = Head(backlog)]
           /\ wire' = [wire EXCEPT ![Head(backlog)] = "open"]
           /\ worker' = [worker EXCEPT ![w].pc = "fill", ![w].fd = Lowest]
  <2> DEFINE c == backlog[1]
             f == Lowest
  <2>1. /\ backlog \in Seq(Conns) /\ Head(backlog) = c /\ c \in Conns
        /\ Len(backlog) \in Nat \ {0} /\ DOMAIN backlog = 1 .. Len(backlog)
        /\ DOMAIN backlog' = 1 .. Len(backlog) - 1
        /\ \A i \in 1 .. Len(backlog) - 1 : backlog'[i] = backlog[i + 1]
    BY <1>3, HeadTailProperties, LenProperties, EmptySeq DEF IInv, Shapes
  <2>2. f \in Fds /\ fds[f] = Closed
    BY <1>3, LowestAvailable DEF Available
  <2> HIDE DEF f
  <2>3. Queued(c) /\ (\A g \in Fds : fds[g] # c) /\ c # Closed
    <3>1. 1 \in DOMAIN backlog
      BY <2>1
    <3>2. Queued(c)
      BY <3>1 DEF Queued
    <3> QED BY <2>1, <3>2, InvalidIsNone DEF Sequenced, AcceptedOnce
  <2>4. \A d : Queued(d)' => Queued(d) /\ d # c
    <3> SUFFICES ASSUME NEW d, NEW i \in DOMAIN backlog', backlog'[i] = d
                 PROVE  Queued(d) /\ d # c
      BY DEF Queued
    <3>1. i + 1 \in DOMAIN backlog /\ 1 \in DOMAIN backlog /\ i + 1 # 1 /\ backlog[i + 1] = d
      BY <2>1
    <3> QED BY <3>1 DEF Queued, Sequenced, AcceptedOnce
  <2>5. fds'[f] = c /\ \A g \in Fds \ {f} : fds'[g] = fds[g]
    BY <1>3, <2>1, <2>2 DEF f, IInv, Shapes
  <2>6. \A i, j \in DOMAIN backlog' : backlog'[i] = backlog'[j] => i = j
    BY <2>1 DEF Sequenced, AcceptedOnce
  <2>7. AcceptedOnce'
    <3>1. \A g, h \in Fds : fds'[g] = fds'[h] /\ fds'[g] # Closed => g = h
      BY <2>3, <2>5 DEF Sequenced, AcceptedOnce
    <3>2. \A d \in Conns : peer[d] = "new" \/ Queued(d)' => \A g \in Fds : fds'[g] # d
      BY <2>3, <2>4, <2>5 DEF Sequenced, AcceptedOnce
    <3>3. \A g \in Fds : fds'[g] \in Conns \cup {Closed}
      BY <2>1, <2>5 DEF Sequenced, AcceptedOnce
    <3> QED BY <2>4, <2>6, <3>1, <3>2, <3>3 DEF Sequenced, AcceptedOnce
  <2>8. /\ DOMAIN worker' = Workers /\ {"at", "data"} \subseteq DOMAIN worker'[w]
        /\ worker'[w].at = worker[w].at /\ worker'[w].pc = "fill" /\ worker'[w].fd = f
        /\ \A v \in Workers \ {w} : worker'[v] = worker[v]
    BY <1>3 DEF f, IInv, Shapes, Sequenced, OneSender
  <2>9. NothingSent'
    <3>1. \A g \in Fds : Held(g)' => Held(g) \/ g = f
      BY <2>8 DEF Held
    <3>2. \A d \in Conns : InHand(d)' => InHand(d) \/ d = c
      BY <2>5, <3>1 DEF InHand
    <3>3. seen[c] = <<>>
      BY <2>1, <2>3 DEF Sequenced, NothingSent
    <3>4. DOMAIN wire' = Conns
      BY <1>3 DEF Sequenced, NothingSent
    <3> QED BY <2>4, <3>2, <3>3, <3>4 DEF Sequenced, NothingSent
  <2>10. Still
    <3>1. \A g \in Fds : Listed(g) => g # f
      BY <2>2 DEF IInv, OnePlace
    <3>2. \A d : d # c => wire'[d] = wire[d]
      BY <1>3, <2>1 DEF Sequenced, NothingSent
    <3>3. \A g \in Fds : Listed(g) => fds'[g] = fds[g] /\ wire'[fds[g]] = wire[fds[g]]
      BY <2>3, <2>5, <3>1, <3>2
    <3> QED BY <1>1, <2>8, <3>3 DEF Still, Sequenced, OneSender
  <2> QED BY <2>7, <2>9, <2>10, StillKeeps DEF Sequenced
<1> QED BY <1>2, <1>3 DEF Accept

LEMMA LoopSequenced == ASSUME IInv, IInv', Sequenced, EventLoop PROVE Sequenced'
<1>1. UNCHANGED <<peer, backlog, wire, worker, mutex, seen>>
  BY DEF EventLoop
<1>2. ASSUME \A f \in Fds : fds'[f] = fds[f] \/ fds'[f] = Closed
      PROVE  AcceptedOnce' /\ NothingSent'
  <2>1. Settled
    BY <1>1, <1>2 DEF Settled, Sequenced, AcceptedOnce, NothingSent, Held
  <2> QED BY <2>1, SettledKeeps
<1>3. CASE UNCHANGED <<fds, list>>
  <2>1. Still
    BY <1>1, <1>3 DEF Still, Sequenced, OneSender
  <2> QED BY <1>2, <1>3, <2>1, StillKeeps DEF Sequenced
<1>4. CASE RemoveClient
  <2>1. mutex = Nobody /\ \A f \in Fds : fds'[f] = fds[f] \/ fds'[f] = Closed
    BY <1>4 DEF RemoveClient, CloseFd, RemoveUnlisted, IInv, Shapes
  <2>2. OneSender' /\ InStep'
    BY <1>1, <2>1, NobodySends, FreeKeeps DEF Sequenced, OneSender
  <2> QED BY <1>2, <2>1, <2>2 DEF Sequenced
<1> QED BY <1>3, <1>4 DEF EventLoop, EpollWait, AcceptEvent, RecvEvent, EndEvent, EpollDel

LEMMA WorkerSequenced ==
  ASSUME IInv, IInv', Sequenced, NEW w \in Workers, Worker(w) PROVE Sequenced'
<1>1. UNCHANGED peer
  BY DEF Worker
<1> USE DEF At
<1>2. /\ DOMAIN worker = Workers /\ {"pc", "fd", "at", "data"} \subseteq DOMAIN worker[w]
      /\ worker[w].at \in Nat \ {0}
  BY DEF IInv, Shapes, Sequenced, OneSender
<1>3. ASSUME UNCHANGED <<list, seen, mutex, backlog, wire>>,
             \A f \in Fds : fds'[f] = fds[f] \/ (fds'[f] = Closed /\ Held(f) /\ ~Listed(f)),
             DOMAIN worker' = Workers, \A v \in Workers \ {w} : worker'[v] = worker[v],
             {"at", "data"} \subseteq DOMAIN worker'[w], worker'[w].at \in Nat \ {0},
             worker'[w].pc # "send", worker'[w].fd = worker[w].fd \/ worker'[w].fd = Invalid
      PROVE  Sequenced'
  <2>1. Settled
    <3>1. \A f \in Fds : Held(f)' => Held(f)
      BY <1>3, InvalidIsNone DEF Held
    <3>2. /\ DOMAIN peer' = Conns /\ DOMAIN wire' = Conns
          /\ \A c \in Conns : peer'[c] = "new" => peer[c] = "new"
      BY <1>1, <1>3 DEF Sequenced, AcceptedOnce, NothingSent
    <3>3. UNCHANGED <<backlog, seen>> /\ \A f \in Fds : fds'[f] = fds[f] \/ fds'[f] = Closed
      BY <1>3
    <3> QED BY <3>1, <3>2, <3>3 DEF Settled
  <2>2. Still
    BY <1>3 DEF Still, Sequenced, OneSender
  <2> QED BY <2>1, <2>2, SettledKeeps, StillKeeps DEF Sequenced
<1>4. CASE PopTask(w)
  <2>1. \/ worker' = [worker EXCEPT ![w].pc = "accept"]
        \/ worker' = [worker EXCEPT ![w].pc = "broadcast", ![w].data = Head(queue).data]
    BY <1>4 DEF PopTask, Goto
  <2>2. UNCHANGED <<list, seen, mutex, backlog, wire, fds>>
    BY <1>4 DEF PopTask
  <2>3. /\ DOMAIN worker' = Workers /\ \A v \in Workers \ {w} : worker'[v] = worker[v]
        /\ {"at", "data"} \subseteq DOMAIN worker'[w] /\ worker'[w].at \in Nat \ {0}
        /\ worker'[w].pc # "send" /\ worker'[w].fd = worker[w].fd
    BY <1>2, <2>1
  <2> QED BY <1>3, <2>2, <2>3
<1>5. CASE Accept(w)
  BY <1>1, <1>5, AcceptSequenced DEF Accept
<1>6. CASE Fill(w)
  BY <1>2, <1>3, <1>6 DEF Fill, Goto
<1>7. CASE Register(w)
  <2>1. UNCHANGED <<list, seen, mutex, backlog, wire>> /\ worker[w].pc = "register"
    BY <1>7 DEF Register
  <2>2. CASE Goto(w, "add") /\ UNCHANGED fds
    BY <1>2, <1>3, <2>1, <2>2 DEF Goto
  <2>3. CASE /\ CloseFd(worker[w].fd)
             /\ worker' = [worker EXCEPT ![w].pc = "add", ![w].fd = Invalid]
    <3>1. worker[w].fd \in Fds /\ Held(worker[w].fd)
      BY <2>1 DEF IInv, Shapes, OneHolder, Held
    <3>2. ~Listed(worker[w].fd)
      BY <3>1 DEF IInv, OnePlace
    <3>3. \A f \in Fds : fds'[f] = fds[f] \/ (fds'[f] = Closed /\ Held(f) /\ ~Listed(f))
      BY <2>3, <3>1, <3>2 DEF CloseFd, IInv, Shapes
    <3>4. /\ DOMAIN worker' = Workers /\ \A v \in Workers \ {w} : worker'[v] = worker[v]
          /\ {"at", "data"} \subseteq DOMAIN worker'[w] /\ worker'[w].at \in Nat \ {0}
          /\ worker'[w].pc # "send" /\ worker'[w].fd = Invalid
      BY <1>2, <2>3
    <3> QED BY <1>3, <2>1, <3>3, <3>4
  <2> QED BY <1>7, <2>2, <2>3 DEF Register
<1>8. CASE AddClient(w)
  <2>1. /\ mutex = Nobody /\ UNCHANGED <<seen, wire, mutex, fds, backlog>>
        /\ worker' = [worker EXCEPT ![w] = Resting]
    BY <1>8 DEF AddClient, Rests
  <2>2. /\ {"at", "data"} \subseteq DOMAIN worker'[w] /\ worker'[w].at \in Nat \ {0}
        /\ worker'[w].pc # "send" /\ worker'[w].fd = Invalid /\ DOMAIN worker' = Workers
        /\ \A v \in Workers \ {w} : worker'[v] = worker[v]
    BY <1>2, <2>1 DEF Resting
  <2>3. \A v \in Workers : worker'[v].pc # "send"
    BY <2>1, <2>2, NobodySends DEF Sequenced
  <2>4. OneSender' /\ InStep'
    BY <2>1, <2>2, <2>3, FreeKeeps DEF Sequenced, OneSender
  <2>5. \A f \in Fds : Held(f)' => Held(f)
    BY <2>2, InvalidIsNone DEF Held
  <2>6. Settled
    BY <1>1, <2>1, <2>5 DEF Settled, Sequenced, AcceptedOnce, NothingSent
  <2> QED BY <2>4, <2>6, SettledKeeps DEF Sequenced
<1>9. CASE BroadcastClients(w)
  <2>1. OneSender' /\ InStep'
    BY <1>9, BroadcastInStep
  <2>2. /\ UNCHANGED <<backlog, seen, wire, fds>>
        /\ worker' = [worker EXCEPT ![w].pc = "send", ![w].at = 1]
    BY <1>9 DEF BroadcastClients
  <2>3. \A f \in Fds : Held(f)' => Held(f)
    BY <1>2, <2>2 DEF Held
  <2>4. Settled
    BY <1>1, <2>2, <2>3 DEF Settled, Sequenced, AcceptedOnce, NothingSent
  <2> QED BY <2>1, <2>4, SettledKeeps DEF Sequenced
<1>10. CASE Send(w)
  BY <1>1, <1>10, SendInStep
<1>11. CASE SendEnds(w)
  <2>1. OneSender' /\ InStep'
    BY <1>11, SendEndsInStep
  <2>2. /\ UNCHANGED <<backlog, seen, wire, fds>>
        /\ worker' = [worker EXCEPT ![w].pc = "draw", ![w].data = process_buffer(@)]
    BY <1>11 DEF SendEnds
  <2>3. \A f \in Fds : Held(f)' => Held(f)
    BY <1>2, <2>2 DEF Held
  <2>4. Settled
    BY <1>1, <2>2, <2>3 DEF Settled, Sequenced, AcceptedOnce, NothingSent
  <2> QED BY <2>1, <2>4, SettledKeeps DEF Sequenced
<1>12. CASE Draw(w)
  <2>1. \/ worker' = [worker EXCEPT ![w].data = Tail(@)]
        \/ worker' = [worker EXCEPT ![w] = Resting]
    BY <1>12 DEF Draw, Rests
  <2>2. /\ DOMAIN worker' = Workers /\ \A v \in Workers \ {w} : worker'[v] = worker[v]
        /\ {"at", "data"} \subseteq DOMAIN worker'[w] /\ worker'[w].at \in Nat \ {0}
        /\ worker'[w].pc # "send" /\ (worker'[w].fd = worker[w].fd \/ worker'[w].fd = Invalid)
    BY <1>2, <1>12, <2>1 DEF Resting, Draw
  <2>3. UNCHANGED <<list, seen, mutex, backlog, wire, fds>>
    BY <1>12 DEF Draw
  <2> QED BY <1>3, <2>2, <2>3
<1> QED BY <1>4, <1>5, <1>6, <1>7, <1>8, <1>9, <1>10, <1>11, <1>12 DEF Worker

LEMMA ClientsSequenced == ASSUME IInv, Sequenced, Clients PROVE Sequenced'
<1>1. PICK c \in Conns : Client(c)
  BY DEF Clients
<1>2. UNCHANGED <<list, worker, mutex, seen>>
  BY DEF Clients, poolVars
<1>3. UNCHANGED <<fds, wire>>
  BY <1>1 DEF Client, Connect, ClientSend, ClientLeave, Ended
<1>4. Still
  BY <1>2, <1>3 DEF Still, Sequenced, OneSender
<1>5. \A d : InHand(d)' <=> InHand(d)
  BY <1>2, <1>3 DEF InHand, Held
<1>6. CASE Connect(c)
  <2>1. /\ peer[c] = "new" /\ peer' = [peer EXCEPT ![c] = "up"] /\ backlog' = Append(backlog, c)
        /\ backlog \in Seq(Conns)
    BY <1>6 DEF Connect, IInv, Shapes
  <2>2. /\ Len(backlog) \in Nat /\ DOMAIN backlog = 1 .. Len(backlog)
        /\ DOMAIN backlog' = 1 .. Len(backlog) + 1
        /\ \A i \in 1 .. Len(backlog) : backlog'[i] = backlog[i]
        /\ backlog'[Len(backlog) + 1] = c
    BY <2>1, AppendProperties, LenProperties
  <2>3. \A d : Queued(d)' => Queued(d) \/ d = c
    BY <2>2 DEF Queued
  <2>4. ~Queued(c) /\ (\A f \in Fds : fds[f] # c) /\ seen[c] = <<>>
    BY <2>1 DEF Sequenced, AcceptedOnce, NothingSent
  <2>5. \A i, j \in DOMAIN backlog' : backlog'[i] = backlog'[j] => i = j
    BY <2>2, <2>4 DEF Sequenced, AcceptedOnce, Queued
  <2>6. DOMAIN peer' = Conns /\ \A d \in Conns : peer'[d] = "new" => d # c /\ peer[d] = "new"
    BY <2>1 DEF Sequenced, AcceptedOnce
  <2>7. AcceptedOnce'
    BY <1>3, <2>3, <2>4, <2>5, <2>6 DEF Sequenced, AcceptedOnce
  <2>8. NothingSent'
    BY <1>2, <1>3, <1>5, <2>3, <2>4, <2>6 DEF Sequenced, NothingSent
  <2> QED BY <1>4, <2>7, <2>8, StillKeeps DEF Sequenced
<1>7. CASE ClientSend(c) \/ ClientLeave(c)
  <2>1. UNCHANGED backlog /\ DOMAIN peer' = Conns /\ \A d \in Conns : peer'[d] = "new" => peer[d] = "new"
    BY <1>7 DEF ClientSend, ClientLeave, Ended, Sequenced, AcceptedOnce
  <2>2. Settled
    BY <1>2, <1>3, <2>1 DEF Settled, Sequenced, NothingSent, Held
  <2> QED BY <1>4, <2>2, SettledKeeps, StillKeeps DEF Sequenced
<1> QED BY <1>1, <1>6, <1>7 DEF Client

LEMMA NextSequenced == IInv /\ IInv' /\ Sequenced /\ [Next]_vars => Sequenced'
<1> SUFFICES ASSUME IInv, IInv', Sequenced, [Next]_vars PROVE Sequenced'
  OBVIOUS
<1>1. CASE Next
  BY <1>1, LoopSequenced, WorkerSequenced, ClientsSequenced DEF Next
<1>2. CASE UNCHANGED vars
  <2>1. UNCHANGED <<peer, backlog, fds, wire, worker, list, mutex, seen>>
    BY <1>2 DEF vars, netVars, poolVars
  <2>2. Settled
    BY <2>1 DEF Settled, Sequenced, AcceptedOnce, NothingSent, Held
  <2>3. Still
    BY <2>1 DEF Still, Sequenced, OneSender
  <2> QED BY <2>2, <2>3, SettledKeeps, StillKeeps DEF Sequenced
<1> QED BY <1>1, <1>2

LEMMA EvenMeansOrder == ASSUME IInv, Sequenced PROVE SameOrder
<1> SUFFICES ASSUME mutex = Nobody, NEW c \in {fds[f] : f \in ListedFds},
                    NEW d \in {fds[f] : f \in ListedFds}, wire[c] = "open", wire[d] = "open"
             PROVE  Follows(seen[c], seen[d])
  BY DEF SameOrder, Follows
<1>1. \A f \in ListedFds : f \in Fds /\ Listed(f)
  <2>1. \A i \in DOMAIN list : list[i] \in Fds \cup {Invalid}
    BY ElementOfSeq, LenProperties DEF IInv, Shapes
  <2> QED BY <2>1 DEF ListedFds, ToSet, Listed
<1>2. PICK f \in ListedFds, g \in ListedFds : c = fds[f] /\ d = fds[g]
  OBVIOUS
<1>3. f \in Fds /\ g \in Fds /\ Hears(f) /\ Hears(g)
  BY <1>1, <1>2 DEF Hears
<1>4. AllEven
  BY DEF Sequenced, InStep
<1> QED BY <1>2, <1>3, <1>4 DEF AllEven

(***************************************************************************)
(* The workers of 1.0v send the messages to all clients in one order:      *)
(* when no broadcast is under way, of any two listed clients whose stream  *)
(* was never broken, what one was sent is the end of what the other was    *)
(* sent, whichever workers popped the messages, and although clients are   *)
(* accepted, listed and removed between any two broadcasts.                *)
(***************************************************************************)
THEOREM MessagesInOrder == Spec => []SameOrder
<1>1. Spec => []IInv
  BY InitIInv, StepKeeps, PTL DEF Spec
<1>2. Spec => []Sequenced
  BY <1>1, InitSequenced, NextSequenced, PTL DEF Spec
<1>3. IInv /\ Sequenced => SameOrder
  BY EvenMeansOrder
<1> QED BY <1>1, <1>2, <1>3, PTL
=============================================================================
