-------------------------- MODULE PrototypeProofs --------------------------
(***************************************************************************)
(* Two small prototypes, each with the structure it lives on.              *)
(*                                                                         *)
(* 1.libwebsocket: the links of the session list agree for every set of    *)
(* sessions, whatever the order of the callbacks.  ListLinked is inductive *)
(* together with the types of the links: that the list has no cycle is not *)
(* needed, since a node that closes its own circle would need a            *)
(* predecessor, and neither linking nor unlinking looks further than the   *)
(* two neighbours.                                                         *)
(*                                                                         *)
(* chaeyoung_files: the file of pixels has every answered pixel in it, in  *)
(* the order of the answers and once, however often the server is killed   *)
(* and wherever requests are cut; it is one array unless a body was cut.   *)
(* What the file holds is followed entry by entry (NewEntry) and each      *)
(* pixel from its page to the file (Taken, InRequest, Known).              *)
(***************************************************************************)
EXTENDS LwsServer, PollServer, SequenceTheorems, WellFoundedInduction, TLAPS

LinkTypes == /\ session \in [Sessions -> {"new", "open", "ending", "closed"}]
             /\ head \in Sessions \cup {Null}
             /\ next \in [Sessions -> Sessions \cup {Null}]
             /\ prev \in [Sessions -> Sessions \cup {Null}]

IInv == LinkTypes /\ ListLinked

(* A new node goes to the head: its only neighbour is the old head.        *)
LEMMA LinkedKeeps ==
  ASSUME IInv, NEW c \in Sessions, session[c] = "new", Linked(c), UNCHANGED failing,
         session' = [session EXCEPT ![c] = "open"] \/ session' = [session EXCEPT ![c] = "ending"]
  PROVE  IInv'
<1>1. Null \notin Sessions
  BY LwsAssumption
<1>2. LinkTypes'
  BY <1>1 DEF IInv, LinkTypes, Linked
<1>3. ASSUME ListKept' PROVE ListLinked'
  <2>1. ListKept
    BY <1>3 DEF ListKept
  <2>2. Live' = Live \cup {c} /\ c \notin Live
    BY DEF IInv, LinkTypes, Live
  <2>3. head' = c /\ prev'[c] = Null /\ next'[c] = head
    BY DEF IInv, LinkTypes, Linked
  <2>4. head # Null => head \in Live /\ prev[head] = Null /\ head # c /\ prev'[head] = c
    BY <1>1, <2>1, <2>2 DEF IInv, LinkTypes, Linked, ListLinked
  <2>5. ASSUME NEW d \in Live
        PROVE  /\ next'[d] # Null => next'[d] \in Live' /\ prev'[next'[d]] = d
               /\ prev'[d] # Null => prev'[d] \in Live' /\ next'[prev'[d]] = d
               /\ prev'[d] = Null => head' = d
    <3>1. d \in Sessions /\ d # c /\ next'[d] = next[d]
      BY <2>2, <2>5 DEF IInv, LinkTypes, Linked, Live
    <3>2. next'[d] # Null => next'[d] \in Live' /\ prev'[next'[d]] = d
      BY <1>1, <2>1, <2>2, <2>4, <3>1 DEF IInv, LinkTypes, Linked, ListLinked
    <3>3. CASE d = head
      BY <1>1, <2>2, <2>3, <2>4, <3>1, <3>2, <3>3
    <3>4. CASE d # head
      <4>1. prev'[d] = prev[d]
        BY <3>1, <3>4 DEF Linked
      <4>2. prev[d] \in Live /\ prev[d] # c /\ next[prev[d]] = d
        BY <2>1, <2>2, <3>1, <3>4 DEF IInv, LinkTypes, ListLinked
      <4>3. next'[prev[d]] = d
        BY <4>2 DEF IInv, LinkTypes, Linked
      <4> QED BY <1>1, <2>2, <3>2, <4>1, <4>2, <4>3 DEF Live
    <3> QED BY <3>3, <3>4
  <2> QED BY <1>1, <2>2, <2>3, <2>4, <2>5 DEF ListLinked
<1> QED BY <1>2, <1>3 DEF IInv, ListLinked

(* A node leaves the list: its neighbours become each other's.             *)
LEMMA UnlinkedKeeps ==
  ASSUME IInv, NEW c \in Live, Unlinked(c), UNCHANGED failing,
         session' = [session EXCEPT ![c] = "closed"]
  PROVE  IInv'
<1>1. Null \notin Sessions /\ c \in Sessions
  BY LwsAssumption DEF Live
<1>2. LinkTypes'
  BY <1>1 DEF IInv, LinkTypes, Unlinked
<1>3. ASSUME ListKept' PROVE ListLinked'
  <2>1. ListKept
    BY <1>3 DEF ListKept
  <2>2. Live' = Live \ {c}
    BY <1>1 DEF IInv, LinkTypes, Live
  <2>3. /\ next[c] # Null => next[c] \in Live /\ prev[next[c]] = c
        /\ prev[c] # Null => prev[c] \in Live /\ next[prev[c]] = c
        /\ prev[c] = Null => head = c
        /\ head # Null => head \in Live /\ prev[head] = Null
    BY <2>1 DEF IInv, ListLinked
  <2>4. head' # Null => head' \in Live' /\ prev'[head'] = Null
    BY <1>1, <2>2, <2>3 DEF IInv, LinkTypes, Unlinked, Live
  <2>5. ASSUME NEW d \in Live'
        PROVE  /\ next'[d] # Null => next'[d] \in Live' /\ prev'[next'[d]] = d
               /\ prev'[d] # Null => prev'[d] \in Live' /\ next'[prev'[d]] = d
               /\ prev'[d] = Null => head' = d
    <3>1. d \in Live /\ d # c /\ d \in Sessions
      BY <2>2, <2>5 DEF Live
    <3>2. /\ next[d] # Null => next[d] \in Live /\ prev[next[d]] = d
          /\ prev[d] # Null => prev[d] \in Live /\ next[prev[d]] = d
          /\ prev[d] = Null => head = d
      BY <2>1, <3>1 DEF IInv, ListLinked
    <3>3. next'[d] # Null => next'[d] \in Live' /\ prev'[next'[d]] = d
      BY <1>1, <2>2, <2>3, <3>1, <3>2 DEF IInv, LinkTypes, Unlinked, Live
    <3>4. prev'[d] # Null => prev'[d] \in Live' /\ next'[prev'[d]] = d
      BY <1>1, <2>2, <2>3, <3>1, <3>2 DEF IInv, LinkTypes, Unlinked, Live
    <3>5. prev'[d] = Null => head' = d
      BY <1>1, <2>2, <2>3, <3>1, <3>2 DEF IInv, LinkTypes, Unlinked, Live
    <3> QED BY <3>3, <3>4, <3>5
  <2> QED BY <2>4, <2>5 DEF ListLinked
<1> QED BY <1>2, <1>3 DEF IInv, ListLinked

(* What a step that leaves the links alone must not do: change which       *)
(* sessions are live.                                                      *)
LEMMA SameKeeps ==
  ASSUME IInv, UNCHANGED <<failing, head, next, prev>>, LinkTypes', Live' = Live
  PROVE  IInv'
BY DEF IInv, ListLinked, ListKept

LEMMA InitIInv == LwsInit => IInv
BY DEF LwsInit, IInv, LinkTypes, ListLinked, Live

LEMMA NextIInv == IInv /\ [LwsNext]_lwsVars => IInv'
<1> SUFFICES ASSUME IInv, [LwsNext]_lwsVars PROVE IInv'
  OBVIOUS
<1>1. ASSUME NEW c \in Sessions, Established(c) PROVE IInv'
  BY <1>1, LinkedKeeps DEF Established
<1>2. ASSUME NEW c \in Sessions, NoBuffer(c) PROVE IInv'
  <2>1. ~ListKept' /\ LinkTypes'
    BY <1>2 DEF NoBuffer, ListKept, IInv, LinkTypes
  <2> QED BY <2>1 DEF IInv, ListLinked
<1>3. ASSUME NEW c \in Sessions, NoMessage(c) PROVE IInv'
  BY <1>3, LinkedKeeps DEF NoMessage
<1>4. ASSUME NEW c \in Sessions, Receive(c) PROVE IInv'
  BY <1>4, SameKeeps DEF Receive, listVars, IInv, LinkTypes, Live
<1>5. ASSUME NEW c \in Sessions, Writeable(c) PROVE IInv'
  <2>1. LinkTypes' /\ Live' = Live /\ UNCHANGED <<failing, head, next, prev>>
    BY <1>5 DEF Writeable, IInv, LinkTypes, Live
  <2> QED BY <2>1, SameKeeps
<1>6. ASSUME NEW c \in Sessions, SessionClosed(c) PROVE IInv'
  <2>1. c \in Live
    BY <1>6 DEF SessionClosed, Live
  <2> QED BY <1>6, <2>1, UnlinkedKeeps DEF SessionClosed
<1>7. ASSUME NEW c \in Sessions, Page(c) PROVE IInv'
  BY <1>7, SameKeeps DEF Page, Click, OnMessage, Leave, listVars, IInv, LinkTypes, Live
<1>8. CASE UNCHANGED lwsVars
  BY <1>8, SameKeeps DEF lwsVars, listVars, IInv, LinkTypes, Live
<1> QED BY <1>1, <1>2, <1>3, <1>4, <1>5, <1>6, <1>7, <1>8 DEF LwsNext, Service

(***************************************************************************)
(* The list that broadcast_to_clients walks and that callback_rplace       *)
(* changes: the links of its nodes agree in every reachable state.         *)
(***************************************************************************)
THEOREM LinksAgree == LwsSpec => []ListLinked
<1>1. IInv => ListLinked
  BY DEF IInv
<1> QED BY <1>1, InitIInv, NextIInv, PTL DEF LwsSpec

(***************************************************************************)
(* Types: what waits in a buffer or is on its way to a page is made of     *)
(* pixels of the canvas, whatever the clients send.                        *)
(***************************************************************************)
LEMMA WholeCanvasType == TypeOK => WholeCanvas \in Seq(Pixel)
<1> SUFFICES ASSUME TypeOK PROVE WholeCanvas \in Seq(Pixel)
  OBVIOUS
<1>1. WholeCanvas \in [1 .. Cells -> Pixel]
  BY DEF WholeCanvas, Pixel, TypeOK
<1> QED BY <1>1, LwsAssumption

LEMMA NextTypeOK == TypeOK /\ [LwsNext]_lwsVars => TypeOK'
<1> SUFFICES ASSUME TypeOK, [LwsNext]_lwsVars PROVE TypeOK'
  OBVIOUS
<1> USE LwsAssumption
<1>1. ASSUME NEW c \in Sessions, Established(c) PROVE TypeOK'
  BY <1>1, WholeCanvasType DEF Established, Linked, TypeOK, pageVars
<1>2. ASSUME NEW c \in Sessions, NoBuffer(c) PROVE TypeOK'
  BY <1>2 DEF NoBuffer, TypeOK, pageVars
<1>3. ASSUME NEW c \in Sessions, NoMessage(c) PROVE TypeOK'
  BY <1>3 DEF NoMessage, Linked, TypeOK, pageVars
<1>4. ASSUME NEW c \in Sessions, Receive(c) PROVE TypeOK'
  <2> DEFINE m == Head(inbox[c])
             message == <<[at |-> m.at, color |-> m.color]>>
  <2>1. m \in Draws /\ inbox' \in [Sessions -> Seq(Draws)]
    BY <1>4 DEF Receive, TypeOK
  <2>2. CASE m.len = 3 /\ m.at \in 1 .. Cells
    <3>1. message \in Seq(Pixel)
      BY <2>1, <2>2 DEF Pixel, Draws
    <3>2. canvas' = [canvas EXCEPT ![m.at] = m.color] /\ last' = m.at /\ broadcast_to_clients(message)
      BY <1>4, <2>2 DEF Receive
    <3>3. buf' \in [Sessions -> Seq(Pixel)] /\ writable' \in [Sessions -> BOOLEAN]
      BY <3>1, <3>2 DEF broadcast_to_clients, TypeOK
    <3>4. canvas' \in [1 .. Cells -> Colors] /\ last' \in 0 .. Cells
      BY <2>1, <2>2, <3>2 DEF TypeOK, Draws
    <3> QED BY <1>4, <2>1, <3>3, <3>4 DEF Receive, TypeOK, listVars
  <2>3. CASE ~(m.len = 3 /\ m.at \in 1 .. Cells)
    BY <1>4, <2>1, <2>3 DEF Receive, TypeOK, listVars
  <2> QED BY <2>2, <2>3
<1>5. ASSUME NEW c \in Sessions, Writeable(c) PROVE TypeOK'
  <2>1. buf' \in [Sessions -> Seq(Pixel)]
    <3>1. [buf EXCEPT ![c] = <<>>] \in [Sessions -> Seq(Pixel)]
      BY <<>> \in Seq(Pixel) DEF TypeOK
    <3>2. buf' = [buf EXCEPT ![c] = <<>>] \/ buf' = buf
      BY <1>5 DEF Writeable
    <3> QED BY <3>1, <3>2 DEF TypeOK
  <2>2. outbox' \in [Sessions -> Seq(Seq(Pixel))]
    <3>1. ASSUME buf[c] # <<>> PROVE [outbox EXCEPT ![c] = Append(@, buf[c])] \in [Sessions -> Seq(Seq(Pixel))]
      BY DEF TypeOK
    <3> QED BY <1>5, <3>1 DEF Writeable, TypeOK
  <2>3. session' \in [Sessions -> {"new", "open", "ending", "closed"}] /\ writable' \in [Sessions -> BOOLEAN]
    BY <1>5 DEF Writeable, TypeOK
  <2> QED BY <1>5, <2>1, <2>2, <2>3 DEF Writeable, TypeOK
<1>6. ASSUME NEW c \in Sessions, SessionClosed(c) PROVE TypeOK'
  <2>1. buf' \in [Sessions -> Seq(Pixel)]
    BY <1>6, <<>> \in Seq(Pixel) DEF SessionClosed, TypeOK
  <2> QED BY <1>6, <2>1 DEF SessionClosed, Unlinked, TypeOK, pageVars
<1>7. ASSUME NEW c \in Sessions, Click(c) PROVE TypeOK'
  <2>1. Scripts[c][clicked[c] + 1] \in Draws
    BY <1>7 DEF Click, TypeOK
  <2>2. clicked' \in [Sessions -> Nat] /\ inbox' \in [Sessions -> Seq(Draws)]
    BY <1>7, <2>1 DEF Click, TypeOK
  <2> QED BY <1>7, <2>2 DEF Click, TypeOK, listVars
<1>8. ASSUME NEW c \in Sessions, OnMessage(c) PROVE TypeOK'
  <2>1. outbox' \in [Sessions -> Seq(Seq(Pixel))]
    BY <1>8 DEF OnMessage, TypeOK
  <2> QED BY <1>8, <2>1 DEF OnMessage, TypeOK, listVars
<1>9. ASSUME NEW c \in Sessions, Leave(c) PROVE TypeOK'
  BY <1>9 DEF Leave, TypeOK, listVars
<1>10. CASE UNCHANGED lwsVars
  BY <1>10 DEF lwsVars, listVars, pageVars, TypeOK
<1> QED BY <1>1, <1>2, <1>3, <1>4, <1>5, <1>6, <1>7, <1>8, <1>9, <1>10 DEF LwsNext, Service, Page

THEOREM TypeCorrect == LwsSpec => []TypeOK
<1>1. LwsInit => TypeOK
  BY LwsAssumption DEF LwsInit, TypeOK
<1> QED BY <1>1, NextTypeOK, PTL DEF LwsSpec

-----------------------------------------------------------------------------
(***************************************************************************)
(* Picked: equations, and what its result is made of.                      *)
(***************************************************************************)
LEMMA Minimum ==
  ASSUME NEW S \in SUBSET Nat, S # {}
  PROVE  \E i \in S : \A j \in S : i <= j
<1>1. PICK i \in S : \A j \in S : <<j, i>> \notin OpToRel(<, Nat)
  BY WFMin, NatLessThanWellFounded
<1>2. \A j \in S : ~(j < i)
  BY <1>1 DEF OpToRel
<1> QED BY <1>2

LEMMA Induction ==
  ASSUME NEW S, 0 \in S, \A n \in Nat : n \in S => n + 1 \in S
  PROVE  Nat \subseteq S
<1> SUFFICES ASSUME Nat \ S # {} PROVE FALSE
  OBVIOUS
<1>1. PICK m \in Nat \ S : \A x \in Nat \ S : m <= x
  <2>1. Nat \ S \in SUBSET Nat
    OBVIOUS
  <2> QED BY <2>1, Minimum
<1>2. m # 0 /\ m - 1 \in Nat /\ m - 1 \in S
  BY <1>1
<1> QED BY <1>1, <1>2

(* f is the function that Picked defines, up to N. *)
Picks(s, P, f, N) ==
  f = [n \in 0 .. N |-> IF n = 0 THEN <<>>
                        ELSE IF n \in P THEN Append(f[n - 1], s[n]) ELSE f[n - 1]]

(* One element more: the picked ones grow by it, or stay. *)
PicksOne(s, P, f, g, N) ==
  g = [n \in 0 .. N + 1 |-> IF n <= N THEN f[n]
                            ELSE IF N + 1 \in P THEN Append(f[N], s[N + 1]) ELSE f[N]]

LEMMA PicksStep ==
  ASSUME NEW s, NEW P, NEW N \in Nat, NEW f, NEW g, Picks(s, P, f, N), PicksOne(s, P, f, g, N)
  PROVE  Picks(s, P, g, N + 1)
<1>1. \A i \in 0 .. N : f[i] = IF i = 0 THEN <<>>
                               ELSE IF i \in P THEN Append(f[i - 1], s[i]) ELSE f[i - 1]
  BY DEF Picks
<1>2. \A n \in 0 .. N : g[n] = f[n]
  BY DEF PicksOne
<1>3. ASSUME NEW n \in 0 .. N + 1
      PROVE  g[n] = IF n = 0 THEN <<>> ELSE IF n \in P THEN Append(g[n - 1], s[n]) ELSE g[n - 1]
  <2>1. CASE n = N + 1
    <3>1. n # 0 /\ n - 1 = N /\ g[N] = f[N]
      BY <2>1, <1>2
    <3>2. g[n] = IF N + 1 \in P THEN Append(f[N], s[N + 1]) ELSE f[N]
      BY <2>1 DEF PicksOne
    <3> QED BY <3>1, <3>2, <2>1
  <2>2. CASE n # N + 1
    <3>1. n \in 0 .. N /\ g[n] = f[n]
      BY <2>2, <1>2
    <3>2. n # 0 => n - 1 \in 0 .. N /\ g[n - 1] = f[n - 1]
      BY <3>1, <1>2
    <3> QED BY <1>1, <3>1, <3>2
  <2> QED BY <2>1, <2>2
<1>4. g = [n \in 0 .. N + 1 |-> g[n]]
  BY DEF PicksOne
<1> QED BY <1>3, <1>4 DEF Picks

LEMMA PicksAt ==
  ASSUME NEW s, NEW P, NEW N \in Nat, NEW f, Picks(s, P, f, N), NEW n \in 1 .. N
  PROVE  f[n] = IF n \in P THEN Append(f[n - 1], s[n]) ELSE f[n - 1]
<1>1. n \in 0 .. N /\ n # 0
  OBVIOUS
<1>2. \A i \in 0 .. N : f[i] = IF i = 0 THEN <<>>
                               ELSE IF i \in P THEN Append(f[i - 1], s[i]) ELSE f[i - 1]
  BY DEF Picks
<1> QED BY <1>1, <1>2

LEMMA PicksExists ==
  ASSUME NEW s, NEW P, NEW N \in Nat
  PROVE  \E f : Picks(s, P, f, N)
<1> DEFINE S == {m \in Nat : \E f : Picks(s, P, f, m)}
<1>1. 0 \in S
  <2> DEFINE f == [n \in 0 .. 0 |-> <<>>]
  <2>1. Picks(s, P, f, 0)
    BY DEF Picks
  <2> QED BY <2>1
<1>2. ASSUME NEW m \in Nat, m \in S PROVE m + 1 \in S
  <2>1. PICK f : Picks(s, P, f, m)
    BY <1>2
  <2> DEFINE g == [n \in 0 .. m + 1 |-> IF n <= m THEN f[n]
                      ELSE IF m + 1 \in P THEN Append(f[m], s[m + 1]) ELSE f[m]]
  <2>2. PicksOne(s, P, f, g, m)
    BY DEF PicksOne
  <2> HIDE DEF g
  <2> QED BY <2>1, <2>2, PicksStep
<1> QED BY <1>1, <1>2, Induction

LEMMA PickedIs ==
  ASSUME NEW s, NEW P, Len(s) \in Nat
  PROVE  \E f : Picks(s, P, f, Len(s)) /\ Picked(s, P) = f[Len(s)]
<1> DEFINE first[n \in 0 .. Len(s)] ==
        IF n = 0 THEN <<>>
        ELSE IF n \in P THEN Append(first[n - 1], s[n]) ELSE first[n - 1]
<1>1. Picked(s, P) = first[Len(s)]
  BY DEF Picked
<1>2. \E f : f = [n \in 0 .. Len(s) |-> IF n = 0 THEN <<>>
                        ELSE IF n \in P THEN Append(f[n - 1], s[n]) ELSE f[n - 1]]
  <2>1. \E f : Picks(s, P, f, Len(s))
    BY PicksExists
  <2> QED BY <2>1 DEF Picks
<1>3. Picks(s, P, first, Len(s))
  BY <1>2 DEF Picks
<1> HIDE DEF first
<1> QED BY <1>1, <1>3

(* Only what was asked for is picked. *)
LEMMA PickedFrom ==
  ASSUME NEW s, NEW P, Len(s) \in Nat, NEW S, \A n \in 1 .. Len(s) : n \in P => s[n] \in S
  PROVE  Picked(s, P) \in Seq(S)
<1>1. PICK f : Picks(s, P, f, Len(s)) /\ Picked(s, P) = f[Len(s)]
  BY PickedIs
<1>2. \A n \in 0 .. Len(s) : f[n] = IF n = 0 THEN <<>>
                                    ELSE IF n \in P THEN Append(f[n - 1], s[n]) ELSE f[n - 1]
  BY <1>1 DEF Picks
<1> DEFINE G == {n \in Nat : n <= Len(s) => f[n] \in Seq(S)}
<1>3. 0 \in G
  <2>1. 0 \in 0 .. Len(s)
    OBVIOUS
  <2>2. f[0] = <<>>
    BY <1>2, <2>1
  <2> QED BY <2>2, EmptySeq
<1>4. ASSUME NEW n \in Nat, n \in G PROVE n + 1 \in G
  <2> SUFFICES ASSUME n + 1 <= Len(s) PROVE f[n + 1] \in Seq(S)
    OBVIOUS
  <2>1. f[n] \in Seq(S) /\ n + 1 \in 1 .. Len(s) /\ n + 1 \in 0 .. Len(s) /\ n + 1 # 0 /\ n + 1 - 1 = n
    BY <1>4
  <2>2. f[n + 1] = IF n + 1 \in P THEN Append(f[n], s[n + 1]) ELSE f[n]
    BY <1>2, <2>1
  <2> QED BY <2>1, <2>2, AppendProperties
<1> HIDE DEF G
<1>5. Nat \subseteq G
  BY <1>3, <1>4, Induction
<1> QED BY <1>1, <1>5 DEF G

(* The functions of two sequences agree as long as these do. *)
LEMMA PicksAgree ==
  ASSUME NEW s, NEW P, NEW f, NEW t, NEW Q, NEW g, NEW N \in Nat, NEW M \in Nat, N <= M,
         Picks(s, P, f, N), Picks(t, Q, g, M),
         \A n \in 1 .. N : t[n] = s[n] /\ (n \in Q <=> n \in P)
  PROVE  f[N] = g[N]
<1>1. \A n \in 0 .. N : f[n] = IF n = 0 THEN <<>>
                               ELSE IF n \in P THEN Append(f[n - 1], s[n]) ELSE f[n - 1]
  BY DEF Picks
<1>2. \A n \in 0 .. M : g[n] = IF n = 0 THEN <<>>
                               ELSE IF n \in Q THEN Append(g[n - 1], t[n]) ELSE g[n - 1]
  BY DEF Picks
<1> DEFINE G == {n \in Nat : n <= N => f[n] = g[n]}
<1>3. 0 \in G
  BY <1>1, <1>2
<1>4. ASSUME NEW n \in Nat, n \in G PROVE n + 1 \in G
  <2> SUFFICES ASSUME n + 1 <= N PROVE f[n + 1] = g[n + 1]
    OBVIOUS
  <2>1. n + 1 \in 0 .. N /\ n + 1 \in 0 .. M /\ n + 1 # 0 /\ n + 1 - 1 = n /\ n + 1 \in 1 .. N
    OBVIOUS
  <2>2. f[n] = g[n]
    BY <1>4
  <2>3. f[n + 1] = IF n + 1 \in P THEN Append(f[n], s[n + 1]) ELSE f[n]
    BY <1>1, <2>1
  <2>4. g[n + 1] = IF n + 1 \in Q THEN Append(g[n], t[n + 1]) ELSE g[n]
    BY <1>2, <2>1
  <2> QED BY <2>1, <2>2, <2>3, <2>4
<1> HIDE DEF G
<1>5. Nat \subseteq G
  BY <1>3, <1>4, Induction
<1> QED BY <1>5 DEF G

-----------------------------------------------------------------------------
(***************************************************************************)
(* The tokens of a file, as it grows.                                      *)
(***************************************************************************)
LEMMA TokensAppend ==
  ASSUME NEW S, NEW s \in Seq(S), NEW x \in S
  PROVE  TokensOf(Append(s, x)) = IF x \in WhiteSpace THEN TokensOf(s) ELSE Append(TokensOf(s), x)
<1> DEFINE t == Append(s, x)
           N == Len(s)
           P == {k \in DOMAIN s : s[k] \notin WhiteSpace}
           Q == {k \in DOMAIN t : t[k] \notin WhiteSpace}
<1>1. /\ t \in Seq(S) /\ Len(t) = N + 1 /\ N \in Nat /\ DOMAIN s = 1 .. N /\ DOMAIN t = 1 .. N + 1
      /\ t[N + 1] = x /\ \A n \in 1 .. N : t[n] = s[n]
  BY AppendProperties, LenProperties
<1>2. PICK f : Picks(s, P, f, N) /\ TokensOf(s) = f[N]
  <2>1. TokensOf(s) = Picked(s, P)
    BY DEF TokensOf
  <2> HIDE DEF P
  <2> QED BY <1>1, <2>1, PickedIs
<1>3. PICK g : Picks(t, Q, g, N + 1) /\ TokensOf(t) = g[N + 1]
  <2>1. TokensOf(t) = Picked(t, Q)
    BY DEF TokensOf
  <2>2. \E g : Picks(t, Q, g, Len(t)) /\ Picked(t, Q) = g[Len(t)]
    <3> HIDE DEF Q, t
    <3> QED BY <1>1, PickedIs
  <2> HIDE DEF Q, t
  <2> QED BY <1>1, <2>1, <2>2
<1>4. f[N] = g[N]
  <2>1. \A n \in 1 .. N : t[n] = s[n] /\ (n \in Q <=> n \in P)
    BY <1>1
  <2> HIDE DEF t, P, Q
  <2> QED BY <1>1, <1>2, <1>3, <2>1, PicksAgree
<1>5. N + 1 \in Q <=> x \notin WhiteSpace
  BY <1>1
<1>6. g[N + 1] = IF N + 1 \in Q THEN Append(g[N], t[N + 1]) ELSE g[N]
  <2>1. N \in Nat /\ N + 1 \in Nat /\ N + 1 \in 1 .. N + 1 /\ N + 1 - 1 = N
    BY <1>1
  <2> HIDE DEF t, P, Q, N
  <2>2. g[N + 1] = IF N + 1 \in Q THEN Append(g[N + 1 - 1], t[N + 1]) ELSE g[N + 1 - 1]
    BY <1>3, <2>1, PicksAt
  <2> QED BY <2>1, <2>2
<1> QED BY <1>1, <1>2, <1>3, <1>4, <1>5, <1>6

LEMMA AppendIs ==
  ASSUME NEW S, NEW N \in Nat, NEW s \in Seq(S), NEW x \in S, NEW t \in Seq(S),
         Len(s) = N, Len(t) = N + 1, \A i \in 1 .. N : t[i] = s[i], t[N + 1] = x
  PROVE  t = Append(s, x)
<1> DEFINE a == Append(s, x)
<1>1. a \in Seq(S) /\ Len(a) = N + 1 /\ \A i \in 1 .. N : a[i] = s[i]
  BY AppendProperties
<1>2. a[N + 1] = x
  BY AppendProperties
<1> HIDE DEF a
<1>3. \A i \in 1 .. Len(t) : t[i] = a[i]
  BY <1>1, <1>2
<1>4. t = a
  BY <1>1, <1>3, SeqEqual
<1> QED BY <1>4 DEF a

(* The tokens of the first m characters. *)
Cut(f, m) == SubSeq(f, 1, m)
FrontTokens(f, m) == TokensOf(Cut(f, m))

LEMMA FrontIs ==
  ASSUME NEW S, NEW f \in Seq(S), NEW m \in Nat, m <= Len(f)
  PROVE  Cut(f, m) \in Seq(S) /\ Len(Cut(f, m)) = m /\ \A i \in 1 .. m : Cut(f, m)[i] = f[i]
<1>1. Len(f) \in Nat /\ \A i \in 1 .. m : f[i] \in S
  BY LenProperties, ElementOfSeq
<1>2. 1 \in Int /\ m \in Int /\ m - 1 + 1 = m
  OBVIOUS
<1>3. /\ SubSeq(f, 1, m) \in Seq(S)
      /\ Len(SubSeq(f, 1, m)) = IF 1 <= m THEN m - 1 + 1 ELSE 0
      /\ \A i \in 1 .. m - 1 + 1 : SubSeq(f, 1, m)[i] = f[1 + i - 1]
  BY <1>1, <1>2, SubSeqProperties
<1>4. \A i \in 1 .. m : 1 + i - 1 = i
  OBVIOUS
<1>5. SubSeq(f, 1, m) = Cut(f, m)
  BY DEF Cut
<1> QED BY <1>2, <1>3, <1>4, <1>5

LEMMA FrontAgree ==
  ASSUME NEW S, NEW f \in Seq(S), NEW h \in Seq(S), NEW m \in Nat, m <= Len(f), m <= Len(h),
         \A i \in 1 .. m : f[i] = h[i]
  PROVE  FrontTokens(f, m) = FrontTokens(h, m)
<1>1. Cut(f, m) \in Seq(S) /\ Len(Cut(f, m)) = m /\ \A i \in 1 .. m : Cut(f, m)[i] = f[i]
  BY FrontIs
<1>2. Cut(h, m) \in Seq(S) /\ Len(Cut(h, m)) = m /\ \A i \in 1 .. m : Cut(h, m)[i] = h[i]
  BY FrontIs
<1>3. \A i \in 1 .. Len(Cut(f, m)) : Cut(f, m)[i] = Cut(h, m)[i]
  BY <1>1, <1>2
<1>4. Cut(f, m) = Cut(h, m)
  BY <1>1, <1>2, <1>3, SeqEqual
<1> QED BY <1>4 DEF FrontTokens

LEMMA FrontWhole ==
  ASSUME NEW S, NEW f \in Seq(S)
  PROVE  FrontTokens(f, Len(f)) = TokensOf(f)
<1>1. Len(f) \in Nat /\ Len(f) <= Len(f)
  BY LenProperties
<1>2. /\ Cut(f, Len(f)) \in Seq(S) /\ Len(Cut(f, Len(f))) = Len(f)
      /\ \A i \in 1 .. Len(f) : Cut(f, Len(f))[i] = f[i]
  BY <1>1, FrontIs
<1>3. Cut(f, Len(f)) = f
  BY <1>2, SeqEqual
<1> QED BY <1>3 DEF FrontTokens

LEMMA FrontNone ==
  ASSUME NEW S, NEW f \in Seq(S)
  PROVE  FrontTokens(f, 0) = <<>>
<1>1. 0 \in Nat /\ 0 <= Len(f)
  BY LenProperties
<1>2. Cut(f, 0) \in Seq(S) /\ Len(Cut(f, 0)) = 0
  BY <1>1, FrontIs
<1>3. Cut(f, 0) = <<>>
  BY <1>2, EmptySeq
<1>4. TokensOf(<<>>) = <<>>
  <2>1. PICK g : Picks(<<>>, {}, g, Len(<<>>)) /\ Picked(<<>>, {}) = g[Len(<<>>)]
    BY PickedIs
  <2>2. {k \in DOMAIN <<>> : <<>>[k] \notin WhiteSpace} = {}
    OBVIOUS
  <2> QED BY <2>1, <2>2 DEF Picks, TokensOf
<1> QED BY <1>3, <1>4 DEF FrontTokens

LEMMA FrontNext ==
  ASSUME NEW S, NEW f \in Seq(S), NEW m \in Nat, m + 1 <= Len(f)
  PROVE  FrontTokens(f, m + 1) = IF f[m + 1] \in WhiteSpace THEN FrontTokens(f, m)
                                 ELSE Append(FrontTokens(f, m), f[m + 1])
<1>1. m + 1 \in Nat /\ m <= Len(f) /\ Len(f) \in Nat
  BY LenProperties
<1>2. Cut(f, m) \in Seq(S) /\ Len(Cut(f, m)) = m /\ \A i \in 1 .. m : Cut(f, m)[i] = f[i]
  BY <1>1, FrontIs
<1>3. /\ Cut(f, m + 1) \in Seq(S) /\ Len(Cut(f, m + 1)) = m + 1
      /\ \A i \in 1 .. m + 1 : Cut(f, m + 1)[i] = f[i]
  BY <1>1, FrontIs
<1>4. f[m + 1] \in S
  BY <1>1, ElementOfSeq
<1>5. \A i \in 1 .. m : Cut(f, m + 1)[i] = Cut(f, m)[i]
  <2>1. \A i \in 1 .. m : i \in 1 .. m + 1
    OBVIOUS
  <2> QED BY <1>2, <1>3, <2>1, Zenon
<1>7. Cut(f, m + 1)[m + 1] = f[m + 1]
  <2>1. m + 1 \in 1 .. m + 1
    OBVIOUS
  <2> QED BY <1>3, <2>1, Zenon
<1>6. Cut(f, m + 1) = Append(Cut(f, m), f[m + 1])
  BY <1>2, <1>3, <1>4, <1>5, <1>7, AppendIs
<1> QED BY <1>2, <1>4, <1>6, TokensAppend DEF FrontTokens

-----------------------------------------------------------------------------
(***************************************************************************)
(* The invariant of chaeyoung_files.                                       *)
(***************************************************************************)
(* What the ready list may hold; descriptors, sockets and events. *)
Watchable == {s \in Conns \cup {Listener} : s # Listener => Registered(s)}
Sockets == /\ DOMAIN fds = Fds /\ backlog \in Seq(Conns) /\ batch \in Seq(Fds \cup {0})
           /\ peer \in [Conns -> {"new", "up", "fin", "rst", "finrst"}]
           /\ \A i \in 1 .. Len(backlog) : peer[backlog[i]] # "new"
           /\ \A f \in Fds : fds[f] \in Conns => peer[fds[f]] # "new"
           /\ ready \in Seq(Conns \cup {Listener})
           /\ \A i \in 1 .. Len(ready) : ready[i] \in Watchable
           /\ pc # "events" => batch # <<>> /\ Fd # 0

(* What is unread is the end of what was sent; Taken is how much was read. *)
Taken(c) == sent[c] - Len(rx[c])
Streams == /\ world \in DOMAIN Worlds
           /\ sent \in [Conns -> Nat] /\ DOMAIN rx = Conns
           /\ \A c \in Conns : /\ rx[c] \in Seq(Range(Script[c]))
                               /\ Len(rx[c]) <= sent[c] /\ sent[c] <= Len(Script[c])
                               /\ \A j \in 1 .. Len(rx[c]) : rx[c][j] = Script[c][Taken(c) + j]

(* The request being handled is a piece of what some page sent. *)
PieceOf(r, c, m) == /\ r \in Seq(Range(Script[c])) /\ Len(r) >= 1
                    /\ \A j \in 1 .. Len(r) : r[j] = Script[c][m + j]
Piece(c, m) == PieceOf(request, c, m) /\ m + Len(request) <= Taken(c)
InRequest == /\ pc \in {"events", "append", "answer"}
             /\ pc # "events" => \E c \in Conns : \E m \in Nat : Piece(c, m)
             /\ pc = "append" => Posted

(* p was read from a page, as the i-th thing that c sent. *)
Source(p, c, i) == i \in 1 .. Taken(c) /\ HasBody(Script[c][i]) /\ Script[c][i].pixel = p
Known(p) == \E c \in Conns : \E i \in Nat : Source(p, c, i)

(* The file: an array ends in one of two ways. *)
Entries == Pixels \cup {Nothing, Part}
Characters == {"open", "close", "comma", "newline"}
IsList(t) == Len(t) >= 3 /\ IsArray(t)
Ends(f) == \/ f[Len(f) - 1] = "newline" /\ f[Len(f)] = "close"
           \/ f[Len(f) - 1] = "close" /\ f[Len(f)] = "newline"
FileShape == /\ file \in Seq(Entries \cup Characters)
             /\ file # <<>> => Len(file) >= 6 /\ Ends(file)
             /\ BodiesWhole /\ file # <<>> =>
                  Tokens \in Seq(Entries \cup Characters) /\ IsList(Tokens)

LoggedOnce == /\ \A k \in DOMAIN file : file[k] \in Pixels => Known(file[k])
              /\ \A k, l \in DOMAIN file : file[k] = file[l] /\ file[k] \in Pixels => k = l
              /\ pc = "append" /\ Body \in Pixels => \A k \in DOMAIN file : file[k] # Body

AnswersLogged ==
  /\ answered \in Seq(Entries)
  /\ \A i \in DOMAIN answered : answered[i] \in Pixels => \E k \in DOMAIN file : Records(k, i)
  /\ \A i, j \in DOMAIN answered : \A k, l \in DOMAIN file :
       Records(k, i) /\ Records(l, j) /\ i < j => k < l

(* The pixel to be answered is the last one of the file, and was not       *)
(* answered before.                                                        *)
LastPixel(k) == k \in DOMAIN file /\ \A l \in DOMAIN file : file[l] \in Pixels => l <= k
Answering == pc = "answer" /\ Posted /\ Body \in Pixels =>
               /\ \E k : LastPixel(k) /\ file[k] = Body
               /\ \A i \in DOMAIN answered : answered[i] # Body

PollInv == /\ Sockets /\ Streams /\ InRequest /\ FileShape /\ LoggedOnce /\ AnswersLogged
           /\ Answering

-----------------------------------------------------------------------------
(* append_json_file adds one entry, at place p, behind all others. *)
AddedAt(h, p, d) ==
  /\ p \in 1 .. Len(h) /\ h[p] = d
  /\ \A k \in 1 .. Len(h) : h[k] \in Entries => k = p \/ (k \in 1 .. Len(file) /\ k < p /\ h[k] = file[k])
  /\ \A k \in 1 .. Len(file) : file[k] \in Entries => k \in 1 .. Len(h) /\ k < p /\ h[k] = file[k]

LEMMA CharactersApart ==
  /\ "newline" \in WhiteSpace /\ "open" \notin WhiteSpace /\ "close" \notin WhiteSpace
  /\ "comma" \notin WhiteSpace
  /\ \A d \in Entries : d \notin Characters
  /\ \A d \in Pixels : d \notin WhiteSpace
BY PixelsAssumption DEF WhiteSpace, Entries, Characters

LEMMA FirstEntry ==
  ASSUME NEW S, NEW d \in S, d \notin WhiteSpace, NEW f \in Seq(S), Len(f) = 6,
         f[1] = "open", f[2] = "newline", f[3] = d, f[4] = "newline", f[5] = "close", f[6] = "newline"
  PROVE  TokensOf(f) = Append(Append(Append(<<>>, "open"), d), "close")
<1> DEFINE T(m) == FrontTokens(f, m)
<1>3. \A m \in 0 .. 5 : T(m + 1) = IF f[m + 1] \in WhiteSpace THEN T(m) ELSE Append(T(m), f[m + 1])
  <2> TAKE m \in 0 .. 5
  <2>1. m \in Nat /\ m + 1 <= Len(f)
    OBVIOUS
  <2> QED BY <2>1, FrontNext
<1>4. T(0) = <<>> /\ T(6) = TokensOf(f)
  BY FrontNone, FrontWhole
<1> HIDE DEF T
<1>5. T(1) = Append(T(0), "open")
  BY <1>3, CharactersApart
<1>6. T(2) = T(1)
  BY <1>3, CharactersApart
<1>7. T(3) = Append(T(2), d)
  BY <1>3, CharactersApart
<1>8. T(4) = T(3)
  BY <1>3, CharactersApart
<1>9. T(5) = Append(T(4), "close")
  BY <1>3, CharactersApart
<1>10. T(6) = T(5)
  BY <1>3, CharactersApart
<1> QED BY <1>4, <1>5, <1>6, <1>7, <1>8, <1>9, <1>10, Zenon

(* The last two characters give way to the new entry. *)
LEMMA NextEntry ==
  ASSUME NEW S, NEW d \in S, d \notin WhiteSpace, NEW n \in Nat,
         NEW f \in Seq(S), Len(f) = n + 2,
         \/ f[n + 1] = "newline" /\ f[n + 2] = "close"
         \/ f[n + 1] = "close" /\ f[n + 2] = "newline",
         NEW h \in Seq(S), Len(h) = n + 5, \A i \in 1 .. n : h[i] = f[i],
         h[n + 1] = "comma", h[n + 2] = "newline", h[n + 3] = d, h[n + 4] = "newline", h[n + 5] = "close"
  PROVE  \E T : /\ TokensOf(f) = Append(T, "close")
                /\ TokensOf(h) = Append(Append(Append(T, "comma"), d), "close")
                /\ T \in Seq(S)
<1> DEFINE T(m) == FrontTokens(f, m)
           U(m) == FrontTokens(h, m)
<1>1. \A m \in 0 .. n + 1 : T(m + 1) = IF f[m + 1] \in WhiteSpace THEN T(m) ELSE Append(T(m), f[m + 1])
  <2> TAKE m \in 0 .. n + 1
  <2>1. m \in Nat /\ m + 1 <= Len(f)
    OBVIOUS
  <2> QED BY <2>1, FrontNext
<1>2. \A m \in 0 .. n + 4 : U(m + 1) = IF h[m + 1] \in WhiteSpace THEN U(m) ELSE Append(U(m), h[m + 1])
  <2> TAKE m \in 0 .. n + 4
  <2>1. m \in Nat /\ m + 1 <= Len(h)
    OBVIOUS
  <2> QED BY <2>1, FrontNext
<1>3. T(n + 2) = TokensOf(f) /\ U(n + 5) = TokensOf(h)
  BY FrontWhole
<1>4. T(n) = U(n)
  BY FrontAgree
<1>5. T(n) \in Seq(S)
  <2>1. n \in Nat /\ n <= Len(f)
    OBVIOUS
  <2>2. Cut(f, n) \in Seq(S)
    BY <2>1, FrontIs
  <2> DEFINE c == Cut(f, n)
             P == {k \in DOMAIN c : c[k] \notin WhiteSpace}
  <2>3. Len(c) \in Nat /\ \A i \in 1 .. Len(c) : c[i] \in S
    BY <2>2, LenProperties, ElementOfSeq
  <2>4. \A i \in 1 .. Len(c) : i \in P => c[i] \in S
    BY <2>3
  <2>5. Picked(c, P) \in Seq(S)
    <3> HIDE DEF c, P
    <3> QED BY <2>3, <2>4, PickedFrom
  <2> QED BY <2>5 DEF FrontTokens, TokensOf
<1> HIDE DEF T, U
<1>6. T(n + 2) = Append(T(n), "close")
  <2>1. n \in 0 .. n + 1 /\ n + 1 \in 0 .. n + 1 /\ (n + 1) + 1 = n + 2
    OBVIOUS
  <2>2. T(n + 1) = IF f[n + 1] \in WhiteSpace THEN T(n) ELSE Append(T(n), f[n + 1])
    BY <1>1, <2>1
  <2>3. T(n + 2) = IF f[n + 2] \in WhiteSpace THEN T(n + 1) ELSE Append(T(n + 1), f[n + 2])
    BY <1>1, <2>1
  <2> QED BY <2>2, <2>3, CharactersApart
<1>7. U(n + 5) = Append(Append(Append(U(n), "comma"), d), "close")
  <2>1. /\ n \in 0 .. n + 4 /\ n + 1 \in 0 .. n + 4 /\ n + 2 \in 0 .. n + 4 /\ n + 3 \in 0 .. n + 4
        /\ n + 4 \in 0 .. n + 4
        /\ n + 1 + 1 = n + 2 /\ n + 2 + 1 = n + 3 /\ n + 3 + 1 = n + 4 /\ n + 4 + 1 = n + 5
    OBVIOUS
  <2>2. U(n + 1) = Append(U(n), "comma")
    BY <1>2, <2>1, CharactersApart
  <2>3. U(n + 2) = U(n + 1)
    BY <1>2, <2>1, CharactersApart
  <2>4. U(n + 3) = Append(U(n + 2), d)
    BY <1>2, <2>1, CharactersApart
  <2>5. U(n + 4) = U(n + 3)
    BY <1>2, <2>1, CharactersApart
  <2>6. U(n + 5) = Append(U(n + 4), "close")
    BY <1>2, <2>1, CharactersApart
  <2> QED BY <2>2, <2>3, <2>4, <2>5, <2>6
<1> QED BY <1>3, <1>4, <1>5, <1>6, <1>7

LEMMA ThreeMore ==
  ASSUME NEW S, NEW T \in Seq(S), NEW a \in S, NEW b \in S, NEW c \in S, NEW U,
         U = Append(Append(Append(T, a), b), c)
  PROVE  /\ U \in Seq(S) /\ Len(U) = Len(T) + 3
         /\ \A i \in 1 .. Len(T) : U[i] = T[i]
         /\ U[Len(T) + 1] = a /\ U[Len(T) + 2] = b /\ U[Len(T) + 3] = c
<1> DEFINE V == Append(T, a)
           W == Append(V, b)
<1>1. /\ V \in Seq(S) /\ Len(V) = Len(T) + 1 /\ Len(T) \in Nat
      /\ \A i \in 1 .. Len(T) : V[i] = T[i]
  BY AppendProperties
<1>2. V[Len(T) + 1] = a
  BY AppendProperties
<1> HIDE DEF V
<1>3. W \in Seq(S) /\ Len(W) = Len(T) + 2 /\ \A i \in 1 .. Len(T) + 1 : W[i] = V[i]
  BY <1>1, AppendProperties
<1>4. W[Len(T) + 2] = b
  BY <1>1, AppendProperties
<1>5. U = Append(W, c)
  BY DEF V
<1> HIDE DEF W
<1>6. U \in Seq(S) /\ Len(U) = Len(T) + 3 /\ \A i \in 1 .. Len(T) + 2 : U[i] = W[i]
  BY <1>1, <1>3, <1>5, AppendProperties
<1>7. U[Len(T) + 3] = c
  BY <1>1, <1>3, <1>5, AppendProperties
<1> QED BY <1>1, <1>2, <1>3, <1>4, <1>6, <1>7

(* append_json_file adds one entry to the file, whichever way it ends. *)
LEMMA NewEntry ==
  ASSUME FileShape, NEW d \in Entries, NEW h, h = Appended(file, d), NEW U, U = TokensOf(h)
  PROVE  /\ h \in Seq(Entries \cup Characters) /\ h # <<>> /\ Len(h) >= 6 /\ Ends(h)
         /\ \E p : AddedAt(h, p, d)
         /\ d \in Pixels /\ BodiesWhole => U \in Seq(Entries \cup Characters) /\ IsList(U)
<1> DEFINE S == Entries \cup Characters
<1>1. "open" \in S /\ "close" \in S /\ "comma" \in S /\ "newline" \in S /\ d \in S
  BY DEF Characters
<1>2. \A x \in Entries : x \notin {"open", "close", "comma", "newline"}
  BY CharactersApart DEF Characters
<1>3. CASE file = <<>>
  <2>1. h = <<"open", "newline", d, "newline", "close", "newline">>
    BY <1>3 DEF Appended
  <2>2. h \in Seq(S) /\ Len(h) = 6
    <3> HIDE DEF S
    <3> QED BY <1>1, <2>1
  <2>3. /\ h[1] = "open" /\ h[2] = "newline" /\ h[3] = d /\ h[4] = "newline" /\ h[5] = "close"
        /\ h[6] = "newline"
    BY <2>1
  <2>4. AddedAt(h, 3, d)
    <3>1. \A k \in 1 .. 6 : k = 1 \/ k = 2 \/ k = 3 \/ k = 4 \/ k = 5 \/ k = 6
      OBVIOUS
    <3>2. \A k \in 1 .. 6 : h[k] \in Entries => k = 3
      BY <1>2, <2>3, <3>1
    <3>3. Len(file) = 0
      BY <1>3
    <3> QED BY <2>2, <2>3, <3>2, <3>3 DEF AddedAt
  <2>5. ASSUME d \in Pixels PROVE U \in Seq(S) /\ IsList(U)
    <3>1. TokensOf(h) = Append(Append(Append(<<>>, "open"), d), "close")
      <4> HIDE DEF S
      <4> QED BY <1>1, <2>5, <2>2, <2>3, CharactersApart, FirstEntry
    <3>2. /\ U \in Seq(S) /\ Len(U) = Len(<<>>) + 3
          /\ U[Len(<<>>) + 1] = "open" /\ U[Len(<<>>) + 2] = d /\ U[Len(<<>>) + 3] = "close"
      <4> HIDE DEF S
      <4>1. <<>> \in Seq(S)
        OBVIOUS
      <4> QED BY <1>1, <3>1, <4>1, ThreeMore
    <3>3. Len(U) = 3 /\ U[1] = "open" /\ U[2] = d /\ U[3] = "close"
      BY <3>2
    <3>4. \A i \in 2 .. Len(U) - 1 : i = 2
      BY <3>3
    <3>5. \A i \in 2 .. Len(U) - 1 : IF i % 2 = 0 THEN U[i] \in Pixels ELSE U[i] = "comma"
      BY <2>5, <3>3, <3>4
    <3> QED BY <3>2, <3>3, <3>5 DEF IsArray, IsList
  <2>6. h # <<>> /\ Ends(h)
    BY <2>2, <2>3 DEF Ends
  <2> QED BY <2>2, <2>4, <2>5, <2>6
<1>4. CASE file # <<>>
  <2> DEFINE n == Len(file) - 2
             g == SubSeq(file, 1, n)
             added == <<"comma", "newline", d, "newline", "close">>
  <2>1. file \in Seq(S) /\ Len(file) >= 6 /\ Ends(file)
    BY <1>4 DEF FileShape
  <2>2. h = g \o added
    BY <1>4 DEF Appended
  <2> HIDE DEF S
  <2>3. added \in Seq(S) /\ Len(added) = 5
    BY <1>1
  <2>4. /\ added[1] = "comma" /\ added[2] = "newline" /\ added[3] = d /\ added[4] = "newline"
        /\ added[5] = "close"
    OBVIOUS
  <2>5. n \in Nat /\ Len(file) = n + 2 /\ n <= Len(file) /\ Len(file) \in Nat
    BY <2>1, LenProperties
  <2>6. g \in Seq(S) /\ Len(g) = n /\ \A i \in 1 .. n : g[i] = file[i]
    <3>1. g = Cut(file, n)
      BY DEF Cut
    <3> HIDE DEF g, n
    <3> QED BY <2>1, <2>5, <3>1, FrontIs
  <2> HIDE DEF g, added, n
  <2>7. h \in Seq(S) /\ Len(h) = n + 5
    <3>1. g \o added \in Seq(S) /\ Len(g \o added) = Len(g) + Len(added)
      BY <2>3, <2>6, ConcatProperties
    <3> QED BY <2>2, <2>3, <2>5, <2>6, <3>1
  <2>8. \A i \in 1 .. n : h[i] = file[i]
    BY <2>2, <2>3, <2>5, <2>6, ConcatProperties
  <2>9. \A i \in 1 .. 5 : h[n + i] = added[i]
    BY <2>2, <2>3, <2>5, <2>6, ConcatProperties
  <2>10. /\ h[n + 1] = "comma" /\ h[n + 2] = "newline" /\ h[n + 3] = d /\ h[n + 4] = "newline"
         /\ h[n + 5] = "close"
    BY <2>4, <2>9
  <2>11. \/ file[n + 1] = "newline" /\ file[n + 2] = "close"
         \/ file[n + 1] = "close" /\ file[n + 2] = "newline"
    <3>1. Len(file) - 1 = n + 1
      BY <2>5
    <3> QED BY <2>1, <2>5, <3>1 DEF Ends
  <2>12. AddedAt(h, n + 3, d)
    <3>1. \A k \in 1 .. n + 5 : k \in 1 .. n \/ k = n + 1 \/ k = n + 2 \/ k = n + 3 \/ k = n + 4 \/ k = n + 5
      BY <2>5
    <3>2. \A k \in 1 .. n + 2 : k \in 1 .. n \/ k = n + 1 \/ k = n + 2
      BY <2>5
    <3>3. \A k \in 1 .. n : k < n + 3 /\ k \in 1 .. n + 2 /\ k \in 1 .. n + 5
      BY <2>5
    <3>4. ASSUME NEW k \in 1 .. n + 5, h[k] \in Entries
          PROVE  k = n + 3 \/ (k \in 1 .. n + 2 /\ k < n + 3 /\ h[k] = file[k])
      BY <1>2, <2>8, <2>10, <3>1, <3>3, <3>4
    <3>5. ASSUME NEW k \in 1 .. n + 2, file[k] \in Entries
          PROVE  k \in 1 .. n + 5 /\ k < n + 3 /\ h[k] = file[k]
      BY <1>2, <2>8, <2>11, <3>2, <3>3, <3>5
    <3>6. n + 3 \in 1 .. n + 5
      BY <2>5
    <3> QED BY <2>5, <2>7, <2>10, <3>4, <3>5, <3>6 DEF AddedAt
  <2>13. ASSUME d \in Pixels, BodiesWhole PROVE U \in Seq(S) /\ IsList(U)
    <3>1. Tokens \in Seq(S) /\ IsList(Tokens)
      BY <1>4, <2>13 DEF FileShape, S
    <3>2. PICK T : /\ TokensOf(file) = Append(T, "close")
                    /\ TokensOf(h) = Append(Append(Append(T, "comma"), d), "close")
                    /\ T \in Seq(S)
      <4>1. d \in S /\ d \notin WhiteSpace
        BY <1>1, <2>13, CharactersApart
      <4>2. file \in Seq(S)
        BY <2>1
      <4>3. n \in Nat /\ Len(file) = n + 2
        BY <2>5
      <4> QED BY <2>7, <2>8, <2>10, <2>11, <4>1, <4>2, <4>3, NextEntry, ZenonT(60)
    <3> DEFINE m == Len(T)
    <3>3. /\ m \in Nat /\ Len(Tokens) = m + 1 /\ \A i \in 1 .. m : Tokens[i] = T[i]
      BY <1>1, <3>2, AppendProperties DEF Tokens
    <3>4. /\ U \in Seq(S) /\ Len(U) = m + 3 /\ \A i \in 1 .. m : U[i] = T[i]
          /\ U[m + 1] = "comma" /\ U[m + 2] = d /\ U[m + 3] = "close"
      BY <1>1, <3>2, ThreeMore
    <3> HIDE DEF m
    <3>5. PICK q \in Nat : m = 2 * q /\ q >= 1
      <4>1. m + 1 >= 3 /\ (m + 1) % 2 = 1
        BY <3>1, <3>3 DEF IsArray, IsList
      <4>2. m \div 2 \in Nat /\ m = 2 * (m \div 2) /\ m \div 2 >= 1
        BY <3>3, <4>1
      <4> QED BY <4>2
    <3>6. U[1] = "open"
      <4>1. 1 \in 1 .. m
        BY <3>5
      <4> QED BY <3>1, <3>3, <3>4, <4>1 DEF IsArray, IsList
    <3>7. ASSUME NEW i \in 2 .. m + 2
          PROVE  IF i % 2 = 0 THEN U[i] \in Pixels ELSE U[i] = "comma"
      <4>1. CASE i \in 2 .. m
        <5>1. i \in 1 .. m /\ U[i] = Tokens[i] /\ i \in 2 .. Len(Tokens) - 1
          BY <4>1, <3>3, <3>4
        <5> QED BY <5>1, <3>1 DEF IsArray, IsList
      <4>2. CASE i = m + 1
        <5>1. i % 2 # 0
          BY <4>2, <3>5
        <5> QED BY <4>2, <5>1, <3>4
      <4>3. CASE i = m + 2
        <5>1. i % 2 = 0
          BY <4>3, <3>5
        <5> QED BY <4>3, <5>1, <2>13, <3>4
      <4> QED BY <4>1, <4>2, <4>3, <3>3
    <3>8. Len(U) >= 3 /\ Len(U) % 2 = 1 /\ Len(U) - 1 = m + 2
      BY <3>3, <3>4, <3>5
    <3> QED BY <3>4, <3>6, <3>7, <3>8 DEF IsArray, IsList
  <2>14. h # <<>> /\ Len(h) >= 6 /\ Ends(h)
    <3>1. Len(h) >= 6 /\ Len(h) - 1 = n + 4
      BY <2>1, <2>5, <2>7
    <3> QED BY <2>7, <2>10, <3>1 DEF Ends
  <2> QED BY <2>7, <2>12, <2>13, <2>14 DEF S
<1> QED BY <1>3, <1>4

-----------------------------------------------------------------------------
(***************************************************************************)
(* Descriptors and sockets: what can be read is what a page sent.          *)
(***************************************************************************)
LEMMA LowestAvailable ==
  ASSUME Available # {}
  PROVE  Lowest \in Available
<1>1. Available \in SUBSET Nat
  BY SocketsAssumption DEF Available
<1>2. \E f \in Available : \A g \in Available : f <= g
  BY <1>1, Minimum
<1> QED BY <1>2 DEF Lowest

LEMMA DataRead ==
  ASSUME Sockets, AtEvent, Fd # 0, RecvResult(Fd) = "data"
  PROVE  fds[Fd] \in Conns /\ rx[fds[Fd]] # <<>>
<1>1. fds[Fd] \in Conns
  BY DEF RecvResult
<1>2. Fd \in Fds
  BY DEF Sockets, AtEvent, Fd
<1>3. peer[fds[Fd]] \in {"up", "fin", "rst", "finrst"}
  BY <1>1, <1>2 DEF Sockets
<1>4. CASE rx[fds[Fd]] = <<>>
  <2>1. RecvResult(Fd) \in {"again", "error", "end"}
    BY <1>1, <1>3, <1>4 DEF RecvResult
  <2> QED BY <2>1
<1> QED BY <1>1, <1>4

(* Ways the ready list changes. *)
ReadyOK == ready \in Seq(Conns \cup {Listener}) /\ \A i \in 1 .. Len(ready) : ready[i] \in Watchable

LEMMA ReadyGrows ==
  ASSUME Sockets, Watchable \subseteq Watchable', NEW x \in Watchable',
         ready' = ready \/ ready' = Append(ready, x) \/ ready' = <<>>
  PROVE  ReadyOK'
<1>1. Len(ready) \in Nat /\ \A i \in 1 .. Len(ready) : ready[i] \in Watchable'
  BY LenProperties DEF Sockets
<1>2. x \in Conns \cup {Listener}
  BY DEF Watchable
<1>3. CASE ready' = ready
  BY <1>1, <1>3 DEF ReadyOK, Sockets
<1>4. CASE ready' = Append(ready, x)
  <2>1. /\ ready' \in Seq(Conns \cup {Listener}) /\ Len(ready') = Len(ready) + 1
        /\ \A i \in 1 .. Len(ready) : ready'[i] = ready[i]
    BY <1>2, <1>4, AppendProperties DEF Sockets
  <2>2. ready'[Len(ready) + 1] = x
    BY <1>2, <1>4, AppendProperties DEF Sockets
  <2>3. \A i \in 1 .. Len(ready) + 1 : i \in 1 .. Len(ready) \/ i = Len(ready) + 1
    BY <1>1
  <2>4. \A i \in 1 .. Len(ready) + 1 : ready'[i] \in Watchable'
    BY <1>1, <2>1, <2>2, <2>3
  <2> QED BY <2>1, <2>4 DEF ReadyOK
<1>5. CASE ready' = <<>>
  BY <1>5, EmptySeq DEF ReadyOK
<1> QED BY <1>3, <1>4, <1>5

LEMMA ReadyShrinks ==
  ASSUME Sockets, Fd \in Fds, CloseFd(Fd)
  PROVE  ReadyOK'
<1>1. CASE fds[Fd] \notin Conns
  <2>1. Watchable \subseteq Watchable'
    <3> SUFFICES ASSUME NEW s \in Conns, Registered(s) PROVE Registered(s)'
      BY DEF Watchable
    <3>1. PICK f \in Fds : fds[f] = s
      BY DEF Registered
    <3>2. f # Fd /\ fds'[f] = s
      BY <1>1, <3>1 DEF CloseFd, Sockets
    <3> QED BY <3>2 DEF Registered
  <2>2. Listener \in Watchable'
    BY DEF Watchable
  <2> QED BY <1>1, <2>1, <2>2, ReadyGrows DEF CloseFd
<1>2. CASE fds[Fd] \in Conns
  <2> DEFINE s == fds[Fd]
             P == {k \in DOMAIN ready : ready[k] # s}
  <2>1. Len(ready) \in Nat /\ DOMAIN ready = 1 .. Len(ready)
    BY LenProperties DEF Sockets
  <2>2. ASSUME NEW x \in Watchable, x # s PROVE x \in Watchable'
    <3>1. ASSUME x # Listener PROVE Registered(x)'
      <4>1. PICK f \in Fds : fds[f] = x
        BY <3>1 DEF Watchable, Registered
      <4>2. f # Fd /\ fds'[f] = x
        BY <2>2, <4>1 DEF CloseFd, Sockets
      <4> QED BY <4>2 DEF Registered
    <3> QED BY <3>1 DEF Watchable
  <2>3. ready' = Picked(ready, P)
    BY <1>2 DEF CloseFd, Without
  <2>4. ready' \in Seq(Watchable')
    <3>1. \A n \in 1 .. Len(ready) : n \in P => ready[n] \in Watchable'
      BY <2>1, <2>2 DEF Sockets
    <3> HIDE DEF P
    <3> QED BY <2>1, <2>3, <3>1, PickedFrom
  <2> HIDE DEF s
  <2>5. \A i \in 1 .. Len(ready') : ready'[i] \in Watchable'
    BY <2>4, ElementOfSeq
  <2>6. ready' \in Seq(Conns \cup {Listener})
    <3>1. \A i \in 1 .. Len(ready') : ready'[i] \in Conns \cup {Listener}
      BY <2>5 DEF Watchable
    <3>2. ready' = [i \in 1 .. Len(ready') |-> ready'[i]] /\ Len(ready') \in Nat
      BY <2>4, LenProperties
    <3> QED BY <3>1, <3>2, SeqDef
  <2> QED BY <2>5, <2>6 DEF ReadyOK
<1> QED BY <1>1, <1>2

LEMMA ClientClosed ==
  ASSUME Sockets, batch # <<>>, Fd # 0, CloseClient, UNCHANGED <<peer, backlog>>
  PROVE  Sockets'
<1>1. Fd \in Fds
  BY DEF Fd, Sockets
<1>2. ReadyOK'
  BY <1>1, ReadyShrinks DEF CloseClient
<1>3. batch' \in Seq(Fds \cup {0})
  BY DEF CloseClient, Sockets
<1>4. DOMAIN fds' = Fds /\ \A f \in Fds : fds'[f] \in Conns => fds'[f] = fds[f]
  BY SocketsAssumption DEF CloseClient, CloseFd, Sockets
<1>5. \A f \in Fds : fds'[f] \in Conns => peer'[fds'[f]] # "new"
  BY <1>4 DEF Sockets
<1>6. /\ peer' \in [Conns -> {"new", "up", "fin", "rst", "finrst"}] /\ backlog' \in Seq(Conns)
      /\ \A i \in 1 .. Len(backlog') : peer'[backlog'[i]] # "new"
  BY DEF Sockets
<1> QED BY <1>2, <1>3, <1>4, <1>5, <1>6 DEF CloseClient, Sockets, ReadyOK

LEMMA SocketsEpollWait == Sockets /\ EpollWait => Sockets'
<1> SUFFICES ASSUME Sockets, EpollWait PROVE Sockets'
  OBVIOUS
<1> DEFINE P == {k \in DOMAIN ready : Reportable(ready[k])}
<1>1. Len(ready) \in Nat /\ \A n \in 1 .. Len(ready) : n \in P => ready[n] \in Watchable
  BY LenProperties DEF Sockets
<1>2. Reported \in Seq(Watchable)
  <2>1. Reported = Picked(ready, P)
    BY DEF Reported
  <2> HIDE DEF P
  <2> QED BY <1>1, <2>1, PickedFrom
<1>3. DOMAIN Reported = 1 .. Len(Reported) /\ Len(Reported) \in Nat
  BY <1>2, LenProperties
<1>4. ASSUME NEW s \in Watchable PROVE Event(s).fd \in Fds \cup {0}
  <2>1. CASE s = Listener
    BY <2>1 DEF Event
  <2>2. CASE s # Listener
    <3>1. \E f \in Fds : fds[f] = s
      BY <2>2 DEF Watchable, Registered
    <3>2. (CHOOSE f \in Fds : fds[f] = s) \in Fds
      BY <3>1
    <3> QED BY <2>2, <3>2 DEF Event
  <2> QED BY <2>1, <2>2
<1>5. batch' \in Seq(Fds \cup {0})
  <2>1. batch' = [i \in 1 .. Len(Reported) |-> Event(Reported[i]).fd]
    BY <1>3 DEF EpollWait
  <2>2. \A i \in 1 .. Len(Reported) : Event(Reported[i]).fd \in Fds \cup {0}
    BY <1>2, <1>4, ElementOfSeq
  <2> HIDE DEF P
  <2>3. batch' = [i \in 1 .. Len(Reported) |-> batch'[i]] /\ \A i \in 1 .. Len(Reported) : batch'[i] \in Fds \cup {0}
    BY <2>1, <2>2
  <2> QED BY <1>3, <2>3, SeqDef
<1>6. ready' = <<>> /\ Len(<<>>) = 0 /\ <<>> \in Seq(Conns \cup {Listener})
  BY DEF EpollWait
<1>7. pc' = "events"
  BY DEF EpollWait
<1> QED BY <1>5, <1>6, <1>7 DEF EpollWait, Sockets

LEMMA SocketsAccept == Sockets /\ AcceptNewClient => Sockets'
<1> SUFFICES ASSUME Sockets, AcceptNewClient PROVE Sockets'
  OBVIOUS
<1>1. batch' \in Seq(Fds \cup {0}) /\ pc' = "events" /\ peer' = peer
  BY DEF AcceptNewClient, AtEvent, Sockets
<1>2. CASE UNCHANGED <<fds, backlog, ready>>
  <2>1. Watchable' = Watchable
    BY <1>2 DEF Watchable, Registered
  <2> QED BY <1>1, <1>2, <2>1 DEF Sockets
<1>4. ASSUME backlog # <<>>, backlog' = Tail(backlog)
      PROVE  /\ Head(backlog) \in Conns /\ peer[Head(backlog)] # "new" /\ backlog' \in Seq(Conns)
             /\ \A i \in 1 .. Len(backlog') : peer[backlog'[i]] # "new"
  <2>1. Len(backlog) >= 1 /\ Len(backlog) \in Nat
    BY <1>4 DEF Sockets
  <2>2. Head(backlog) = backlog[1] /\ Head(backlog) \in Conns
    BY <2>1 DEF Sockets
  <2>3. backlog' \in Seq(Conns) /\ Len(backlog') = Len(backlog) - 1
        /\ \A i \in 1 .. Len(backlog') : backlog'[i] = backlog[i + 1]
    BY <1>4, <2>1 DEF Sockets
  <2>4. ASSUME NEW i \in 1 .. Len(backlog') PROVE peer[backlog'[i]] # "new"
    <3>1. i + 1 \in 1 .. Len(backlog)
      BY <2>1, <2>3
    <3> QED BY <2>3, <3>1 DEF Sockets
  <2> QED BY <2>1, <2>2, <2>3, <2>4 DEF Sockets
<1>5. CASE backlog # <<>> /\ backlog' = Tail(backlog) /\ UNCHANGED <<fds, ready>>
  <2>1. Watchable' = Watchable
    BY <1>5 DEF Watchable, Registered
  <2> QED BY <1>1, <1>4, <1>5, <2>1 DEF Sockets
<1>3. CASE /\ Available # {} /\ backlog # <<>> /\ backlog' = Tail(backlog)
           /\ fds' = [fds EXCEPT ![Lowest] = Head(backlog)]
           /\ ready' = ready \/ ready' = Append(ready, Head(backlog))
  <2> PICK c : c = Head(backlog)
    OBVIOUS
  <2>1. Lowest \in Fds /\ fds[Lowest] = Closed
    BY <1>3, LowestAvailable DEF Available
  <2>2. /\ fds' = [fds EXCEPT ![Lowest] = c] /\ backlog' = Tail(backlog)
        /\ ready' = ready \/ ready' = Append(ready, c)
    BY <1>3
  <2> HIDE DEF Lowest
  <2>3. c \in Conns /\ peer[c] # "new" /\ backlog' \in Seq(Conns)
        /\ \A i \in 1 .. Len(backlog') : peer[backlog'[i]] # "new"
    BY <1>3, <1>4
  <2>4. Watchable \subseteq Watchable' /\ c \in Watchable'
    <3>1. fds'[Lowest] = c /\ \A f \in Fds : f # Lowest => fds'[f] = fds[f]
      BY <2>1, <2>2 DEF Sockets
    <3>2. ASSUME NEW s \in Conns, Registered(s) PROVE Registered(s)'
      <4>1. PICK f \in Fds : fds[f] = s
        BY <3>2 DEF Registered
      <4>2. f # Lowest
        BY <2>1, <4>1, SocketsAssumption
      <4> QED BY <3>1, <4>1, <4>2 DEF Registered
    <3>3. Registered(c)'
      BY <2>1, <3>1 DEF Registered
    <3> QED BY <2>3, <3>2, <3>3 DEF Watchable
  <2>5. ReadyOK'
    BY <2>2, <2>4, ReadyGrows
  <2>6. DOMAIN fds' = Fds /\ \A f \in Fds : fds'[f] \in Conns => peer[fds'[f]] # "new"
    BY <2>1, <2>2, <2>3 DEF Sockets
  <2> QED BY <1>1, <2>3, <2>5, <2>6 DEF Sockets, ReadyOK
<1> QED BY <1>2, <1>3, <1>5 DEF AcceptNewClient

LEMMA SocketsPages == Sockets /\ Pages => Sockets'
<1> SUFFICES ASSUME Sockets, NEW c \in Conns, Client(c), UNCHANGED pollVars PROVE Sockets'
  BY DEF Pages
<1>1. UNCHANGED <<batch, pc>> /\ Watchable' = Watchable /\ UNCHANGED fds
  BY DEF pollVars, Client, Connect, ClientSend, ClientLeave, Ended, Watchable, Registered
<1>2. ReadyOK'
  <2>1. Listener \in Watchable'
    BY <1>1 DEF Watchable
  <2>2. Registered(c) => c \in Watchable'
    BY <1>1 DEF Watchable
  <2>3. \E x \in Watchable' : ready' = ready \/ ready' = Append(ready, x)
    BY <2>1, <2>2 DEF Client, Connect, ClientSend, ClientLeave, Ended, NotifiedOf, Notified
  <2> QED BY <1>1, <2>3, ReadyGrows
<1>3. peer' \in [Conns -> {"new", "up", "fin", "rst", "finrst"}] /\ \A d \in Conns : peer[d] # "new" => peer'[d] # "new"
  BY DEF Sockets, Client, Connect, ClientSend, ClientLeave, Ended
<1>4. backlog' \in Seq(Conns) /\ \A i \in 1 .. Len(backlog') : peer'[backlog'[i]] # "new"
  <2>1. CASE Connect(c)
    <3>1. backlog' = Append(backlog, c) /\ peer'[c] = "up"
      BY <2>1 DEF Connect, Sockets
    <3>2. ASSUME NEW i \in 1 .. Len(backlog') PROVE peer'[backlog'[i]] # "new"
      <4>1. Len(backlog) \in Nat /\ Len(backlog') = Len(backlog) + 1
        BY <3>1 DEF Sockets
      <4>2. CASE i = Len(backlog) + 1
        BY <3>1, <4>1, <4>2 DEF Sockets
      <4>3. CASE i \in 1 .. Len(backlog)
        <5>1. backlog'[i] = backlog[i] /\ backlog[i] \in Conns
          BY <3>1, <4>3 DEF Sockets
        <5> QED BY <1>3, <4>3, <5>1 DEF Sockets
      <4> QED BY <4>1, <4>2, <4>3
    <3> QED BY <3>1, <3>2 DEF Sockets
  <2>2. CASE UNCHANGED backlog
    <3>1. \A i \in 1 .. Len(backlog) : backlog[i] \in Conns
      BY ElementOfSeq DEF Sockets
    <3> QED BY <1>3, <2>2, <3>1 DEF Sockets
  <2> QED BY <2>1, <2>2 DEF Client, ClientSend, ClientLeave, Ended
<1> QED BY <1>1, <1>2, <1>3, <1>4 DEF Sockets, ReadyOK, Fd

LEMMA SocketsKept == Sockets /\ [Next]_vars => Sockets'
<1> SUFFICES ASSUME Sockets, [Next]_vars PROVE Sockets'
  OBVIOUS
<1>1. CASE EpollWait
  BY <1>1, SocketsEpollWait
<1>2. CASE AcceptNewClient
  BY <1>2, SocketsAccept
<1>3. CASE Read
  <2>1. Watchable' = Watchable /\ Fd' = Fd
    BY <1>3 DEF Read, Watchable, Registered, Fd
  <2> QED BY <1>3, <2>1 DEF Read, AtEvent, Sockets
<1>4. CASE ReadNothing
  BY <1>4, ClientClosed DEF ReadNothing, AtEvent
<1>5. CASE IgnorePost \/ AnswerPost \/ AnswerGet
  <2>1. pc # "events"
    BY <1>5 DEF IgnorePost, AnswerPost, AnswerGet
  <2>2. batch # <<>> /\ Fd # 0
    BY <2>1 DEF Sockets
  <2> QED BY <1>5, <2>2, ClientClosed DEF IgnorePost, AnswerPost, AnswerGet
<1>6. CASE AppendJsonFile \/ SendsToReset \/ Kill \/ UNCHANGED vars
  <2>1. UNCHANGED <<netVars, batch>> /\ (pc # "events" \/ pc' = pc)
    BY <1>6 DEF AppendJsonFile, SendsToReset, Kill, vars, pollVars
  <2>2. Watchable' = Watchable /\ Fd' = Fd
    BY <2>1 DEF netVars, Watchable, Registered, Fd
  <2> QED BY <2>1, <2>2 DEF netVars, Sockets
<1>7. CASE Restart
  <2>1. \A f \in Fds : fds'[f] \notin Conns
    BY <1>7, SocketsAssumption DEF Restart
  <2>2. /\ <<>> \in Seq(Conns) /\ <<>> \in Seq(Fds \cup {0}) /\ <<>> \in Seq(Conns \cup {Listener})
        /\ Len(<<>>) = 0
    OBVIOUS
  <2> QED BY <1>7, <2>1, <2>2 DEF Restart, Sockets
<1>8. CASE Pages
  BY <1>8, SocketsPages
<1> QED BY <1>1, <1>2, <1>3, <1>4, <1>5, <1>6, <1>7, <1>8 DEF Next, Server, HttpRequest

-----------------------------------------------------------------------------
(***************************************************************************)
(* What pages send is read once, in order.                                 *)
(***************************************************************************)
LEMMA ScriptIs ==
  ASSUME Streams, NEW c \in Conns
  PROVE  /\ Script[c] \in Seq(Range(Script[c])) /\ Len(Script[c]) \in Nat
         /\ DOMAIN Script[c] = 1 .. Len(Script[c])
         /\ \A i \in 1 .. Len(Script[c]) : Script[c][i] \in Range(Script[c])
<1>1. Script[c] \in Seq(Range(Script[c]))
  BY SocketsAssumption DEF Streams, Script
<1> QED BY <1>1, LenProperties, ElementOfSeq

LEMMA TakenIs ==
  ASSUME Streams, NEW c \in Conns
  PROVE  Taken(c) \in Int /\ Taken(c) <= Len(Script[c]) /\ Len(Script[c]) \in Nat
<1>1. rx[c] \in Seq(Range(Script[c])) /\ Len(rx[c]) <= sent[c] /\ sent[c] <= Len(Script[c])
  BY DEF Streams
<1>2. Len(rx[c]) \in Nat
  BY <1>1, LenProperties
<1>3. Len(Script[c]) \in Nat
  BY ScriptIs
<1>4. sent[c] \in Int
  BY DEF Streams
<1> QED BY <1>1, <1>2, <1>3, <1>4 DEF Taken

LEMMA StreamsSend ==
  ASSUME Streams, NEW c \in Conns, ClientSend(c), world' = world
  PROVE  Streams' /\ \A d \in Conns : Taken(d)' >= Taken(d)
<1>1. Script' = Script
  BY DEF Script
<1> DEFINE S == Range(Script[c])
           x == Script[c][sent[c] + 1]
<1>2. sent[c] \in Nat /\ rx[c] \in Seq(S) /\ Len(rx[c]) \in Nat /\ Len(rx[c]) <= sent[c]
      /\ sent[c] < Len(Script[c])
  BY DEF Streams, ClientSend
<1>3. x \in S
  BY <1>2, ScriptIs
<1>4. sent' = [sent EXCEPT ![c] = @ + 1] /\ rx' = [rx EXCEPT ![c] = Append(@, x)]
  BY DEF ClientSend
<1> HIDE DEF x
<1>5. rx'[c] = Append(rx[c], x) /\ sent'[c] = sent[c] + 1
  BY <1>4 DEF Streams
<1>6. rx'[c] \in Seq(S) /\ Len(rx'[c]) = Len(rx[c]) + 1 /\ \A j \in 1 .. Len(rx[c]) : rx'[c][j] = rx[c][j]
  BY <1>2, <1>3, <1>5, AppendProperties
<1>7. rx'[c][Len(rx[c]) + 1] = x
  BY <1>2, <1>3, <1>5, AppendProperties
<1>8. sent'[c] - Len(rx'[c]) = sent[c] - Len(rx[c])
  <2>1. PICK n \in Nat : n = sent[c]
    BY <1>2
  <2>2. PICK m \in Nat : m = Len(rx[c])
    BY <1>2
  <2>3. sent'[c] = n + 1 /\ Len(rx'[c]) = m + 1
    BY <1>5, <1>6, <2>1, <2>2
  <2>4. (n + 1) - (m + 1) = n - m
    OBVIOUS
  <2> QED BY <2>1, <2>2, <2>3, <2>4
<1>9. ASSUME NEW j \in 1 .. Len(rx'[c]) PROVE rx'[c][j] = Script[c][Taken(c)' + j]
  <2>1. CASE j = Len(rx[c]) + 1
    <3>1. Taken(c)' + j = sent[c] + 1
      BY <1>2, <1>8, <2>1 DEF Taken
    <3> QED BY <1>7, <2>1, <3>1 DEF x
  <2>2. CASE j \in 1 .. Len(rx[c])
    <3>1. rx[c][j] = Script[c][Taken(c) + j]
      BY <2>2 DEF Streams
    <3> QED BY <1>6, <1>8, <2>2, <3>1 DEF Taken
  <2> QED BY <1>2, <1>6, <2>1, <2>2
<1>10. ASSUME NEW d \in Conns, d # c PROVE rx'[d] = rx[d] /\ sent'[d] = sent[d]
  BY <1>4, <1>10 DEF Streams
<1>11. sent' \in [Conns -> Nat] /\ DOMAIN rx' = Conns
  BY <1>4 DEF Streams
<1>12. \A d \in Conns : /\ rx'[d] \in Seq(Range(Script[d]))
                         /\ Len(rx'[d]) <= sent'[d] /\ sent'[d] <= Len(Script[d])
                         /\ \A j \in 1 .. Len(rx'[d]) : rx'[d][j] = Script[d][Taken(d)' + j]
  <2> SUFFICES ASSUME NEW d \in Conns
               PROVE  /\ rx'[d] \in Seq(Range(Script[d]))
                      /\ Len(rx'[d]) <= sent'[d] /\ sent'[d] <= Len(Script[d])
                      /\ \A j \in 1 .. Len(rx'[d]) : rx'[d][j] = Script[d][Taken(d)' + j]
    OBVIOUS
  <2>1. CASE d = c
    <3>1. Len(Script[c]) \in Nat
      BY ScriptIs
    <3>2. Len(rx'[c]) <= sent'[c] /\ sent'[c] <= Len(Script[c])
      BY <1>2, <1>5, <1>6, <3>1
    <3> QED BY <2>1, <1>6, <1>9, <3>2
  <2>2. CASE d # c
    BY <2>2, <1>10 DEF Streams, Taken
  <2> QED BY <2>1, <2>2
<1>13. Streams'
  BY <1>1, <1>11, <1>12 DEF Streams
<1>14. ASSUME NEW d \in Conns PROVE Taken(d)' >= Taken(d)
  <2>1. Taken(d)' = Taken(d)
    BY <1>8, <1>10 DEF Taken
  <2>2. Taken(d) \in Int
    BY DEF Streams, Taken
  <2> QED BY <2>1, <2>2
<1> QED BY <1>13, <1>14

(* Emptying a buffer: what was in it has been read, or is lost. *)
LEMMA StreamsEmptied ==
  ASSUME Streams, UNCHANGED <<world, sent>>, DOMAIN rx' = Conns,
         \A c \in Conns : rx'[c] = rx[c] \/ rx'[c] = <<>>
  PROVE  Streams' /\ \A c \in Conns : Taken(c)' >= Taken(c)
<1>1. Script' = Script
  BY DEF Script
<1>2. ASSUME NEW c \in Conns
      PROVE  /\ rx'[c] \in Seq(Range(Script[c]))
             /\ Len(rx'[c]) <= sent[c] /\ sent[c] <= Len(Script[c])
             /\ \A j \in 1 .. Len(rx'[c]) : rx'[c][j] = Script[c][Taken(c)' + j]
             /\ Taken(c)' >= Taken(c)
  <2>1. sent[c] \in Nat /\ Len(rx[c]) \in Nat /\ sent[c] <= Len(Script[c])
    BY DEF Streams
  <2>2. CASE rx'[c] = rx[c]
    <3>1. Taken(c)' = Taken(c) /\ Taken(c) \in Int
      BY <2>1, <2>2 DEF Taken
    <3>2. Taken(c)' >= Taken(c)
      BY <3>1
    <3> QED BY <2>2, <3>1, <3>2 DEF Streams
  <2>3. CASE rx'[c] = <<>>
    <3>1. rx'[c] \in Seq(Range(Script[c])) /\ Len(rx'[c]) = 0
      BY <2>3
    <3> QED BY <2>1, <3>1 DEF Taken
  <2> QED BY <2>2, <2>3
<1>3. Streams'
  BY <1>1, <1>2 DEF Streams
<1> QED BY <1>2, <1>3

LEMMA StreamsKept ==
  ASSUME Sockets, Streams, [Next]_vars
  PROVE  Streams' /\ world' = world /\ \A c \in Conns : Taken(c)' >= Taken(c)
<1>1. world' = world
  BY DEF Next, vars, netVars
<1>2. CASE \E c \in Conns : ClientSend(c)
  BY <1>1, <1>2, StreamsSend
<1>3. CASE sent' = sent /\ DOMAIN rx' = Conns /\ \A c \in Conns : rx'[c] = rx[c] \/ rx'[c] = <<>>
  BY <1>1, <1>3, StreamsEmptied
<1>4. CASE UNCHANGED <<sent, rx>>
  BY <1>3, <1>4 DEF Streams
<1>5. CASE Read
  BY <1>3, <1>5 DEF Read, Streams
<1>6. CASE Restart
  BY <1>3, <1>6 DEF Restart
<1> QED BY <1>1, <1>2, <1>4, <1>5, <1>6
     DEF Next, Server, HttpRequest, Pages, Client, Connect, ClientLeave, Ended, EpollWait, AcceptNewClient,
         ReadNothing, CloseClient, AppendJsonFile, IgnorePost, AnswerPost, AnswerGet, SendsToReset, Kill, vars, netVars

LEMMA KnownKept ==
  ASSUME Streams, Streams', world' = world, \A c \in Conns : Taken(c)' >= Taken(c), NEW p, Known(p)
  PROVE  Known(p)'
<1>1. Script' = Script
  BY DEF Script
<1>2. ASSUME NEW c \in Conns, NEW i \in Nat, Source(p, c, i) PROVE Source(p, c, i)'
  <2>1. Taken(c) \in Int /\ Taken(c)' \in Int
    BY DEF Streams, Taken
  <2>2. i \in 1 .. Taken(c)'
    BY <1>2, <2>1 DEF Source
  <2> QED BY <1>1, <1>2, <2>2 DEF Source
<1> QED BY <1>2 DEF Known

(* No two clicks send the same body. *)
LEMMA SourceOnce ==
  ASSUME Streams, NEW p, NEW c \in Conns, NEW i \in 1 .. Len(Script[c]), NEW d \in Conns,
         NEW j \in 1 .. Len(Script[d]), HasBody(Script[c][i]), HasBody(Script[d][j]),
         Script[c][i].pixel = p, Script[d][j].pixel = p
  PROVE  c = d /\ i = j
<1>1. i \in DOMAIN Script[c] /\ j \in DOMAIN Script[d] /\ world \in DOMAIN Worlds
  BY ScriptIs DEF Streams
<1> QED BY <1>1, RequestsAssumption DEF Script

-----------------------------------------------------------------------------
(***************************************************************************)
(* The body of a request is something its page sent, or was cut off.       *)
(***************************************************************************)
BodyOf(r) == IF Head(r).kind = "post" THEN Head(r).pixel
             ELSE IF Len(r) > 1 THEN r[2].pixel
             ELSE IF Head(r).kind = "postpart" THEN Part ELSE Nothing

LEMMA BodySent ==
  ASSUME Streams, NEW c \in Conns, NEW m \in Nat, NEW r, PieceOf(r, c, m), m + Len(r) <= Len(Script[c]),
         Head(r).kind \in PostKinds
  PROVE  \/ BodyOf(r) \in {Nothing, Part}
         \/ \E i \in m + 1 .. m + Len(r) : /\ HasBody(Script[c][i]) /\ Script[c][i].pixel = BodyOf(r)
                                          /\ BodyOf(r) \in Pixels
<1>1. Len(r) \in Nat /\ Len(r) >= 1 /\ \A j \in 1 .. Len(r) : r[j] = Script[c][m + j]
  BY LenProperties DEF PieceOf
<1>2. Head(r) = r[1]
  BY <1>1 DEF PieceOf
<1>3. r[1] = Script[c][m + 1]
  BY <1>1
<1>4. world \in DOMAIN Worlds /\ DOMAIN Script[c] = 1 .. Len(Script[c]) /\ Len(Script[c]) \in Nat
  BY ScriptIs DEF Streams
<1>5. \A i \in DOMAIN Script[c] : HasBody(Script[c][i]) => Script[c][i].pixel \in Pixels
  BY <1>4, RequestsAssumption DEF Script
<1>6. CASE Head(r).kind = "post"
  <2>1. HasBody(Script[c][m + 1])
    BY <1>2, <1>3, <1>6 DEF HasBody
  <2>2. m + 1 \in m + 1 .. m + Len(r) /\ m + 1 \in DOMAIN Script[c]
    BY <1>1, <1>4
  <2>3. Script[c][m + 1].pixel = BodyOf(r)
    BY <1>2, <1>3, <1>6 DEF BodyOf
  <2> QED BY <1>5, <2>1, <2>2, <2>3
<1>7. CASE Head(r).kind # "post" /\ Len(r) > 1
  <2>1. r[2] = Script[c][m + 2]
    BY <1>1, <1>7
  <2>2. m + 2 \in m + 1 .. m + Len(r) /\ m + 2 \in DOMAIN Script[c] /\ Len(Script[c]) >= 2
    BY <1>1, <1>4, <1>7
  <2>3. \/ Len(Script[c]) <= 1
        \/ Len(Script[c]) = 2 /\ Script[c][1].kind \in CutKinds /\ Script[c][2].kind = "body"
    BY <1>4, RequestsAssumption DEF Script
  <2>4. Len(Script[c]) = 2 /\ Script[c][2].kind = "body"
    BY <1>4, <2>2, <2>3
  <2>5. m + 2 = 2
    BY <1>4, <2>2, <2>4
  <2>6. HasBody(Script[c][m + 2])
    BY <2>4, <2>5 DEF HasBody
  <2>7. Script[c][m + 2].pixel = BodyOf(r)
    BY <1>7, <2>1 DEF BodyOf
  <2> QED BY <1>5, <2>2, <2>6, <2>7
<1>8. CASE Head(r).kind # "post" /\ ~(Len(r) > 1)
  BY <1>8 DEF BodyOf
<1> QED BY <1>6, <1>7, <1>8

LEMMA BodyKnown ==
  ASSUME Streams, InRequest, pc # "events", Posted
  PROVE  Body \in Entries /\ (Body \in Pixels => Known(Body))
<1>1. PICK c \in Conns, m \in Nat : Piece(c, m)
  BY DEF InRequest
<1>2. Taken(c) \in Int /\ Taken(c) <= Len(Script[c]) /\ Len(request) \in Nat /\ Len(Script[c]) \in Nat
  BY <1>1, LenProperties, ScriptIs DEF Streams, Taken, Piece, PieceOf
<1>3. m + Len(request) <= Len(Script[c]) /\ m + Len(request) <= Taken(c)
  BY <1>1, <1>2 DEF Piece
<1>4. Body = BodyOf(request)
  BY DEF Body, BodyOf
<1>5. \/ Body \in {Nothing, Part}
      \/ \E i \in m + 1 .. m + Len(request) : /\ HasBody(Script[c][i]) /\ Script[c][i].pixel = Body
                                            /\ Body \in Pixels
  BY <1>1, <1>3, <1>4, BodySent DEF Piece, Posted
<1>6. CASE Body \in {Nothing, Part}
  BY <1>6, PixelsAssumption DEF Entries
<1>7. ASSUME NEW i \in m + 1 .. m + Len(request), HasBody(Script[c][i]), Script[c][i].pixel = Body, Body \in Pixels
      PROVE  Body \in Entries /\ (Body \in Pixels => Known(Body))
  <2>1. i \in Nat /\ i \in 1 .. Taken(c)
    BY <1>2, <1>3
  <2>2. Source(Body, c, i)
    BY <1>7, <2>1 DEF Source
  <2> QED BY <1>7, <2>1, <2>2 DEF Entries, Known
<1> QED BY <1>5, <1>6, <1>7

-----------------------------------------------------------------------------
(***************************************************************************)
(* The steps that matter for the file: a request is read, its body is      *)
(* written, it is answered; the others leave file and answers alone.       *)
(***************************************************************************)
Written == /\ pc = "append" /\ pc' = "answer"
           /\ file' = Appended(file, Body)
           /\ UNCHANGED <<netVars, request, answered>>
Others == /\ UNCHANGED <<file, answered>>
          /\ pc' = "events" \/ UNCHANGED <<pc, request>>

LEMMA Steps == [Next]_vars => Read \/ Written \/ AnswerPost \/ Others
<1> SUFFICES ASSUME [Next]_vars PROVE Read \/ Written \/ AnswerPost \/ Others
  OBVIOUS
<1>1. CASE EpollWait \/ AcceptNewClient \/ ReadNothing \/ IgnorePost \/ AnswerGet \/ SendsToReset \/ Kill \/ Restart
  BY <1>1 DEF EpollWait, AcceptNewClient, AtEvent, ReadNothing, IgnorePost, AnswerGet, CloseClient, SendsToReset, Kill,
              Restart, Others
<1>2. CASE AppendJsonFile
  BY <1>2 DEF AppendJsonFile, Written, Others
<1>3. CASE Pages \/ UNCHANGED vars
  BY <1>3 DEF Pages, pollVars, vars, Others
<1> QED BY <1>1, <1>2, <1>3 DEF Next, Server, HttpRequest

LEMMA PieceRead ==
  ASSUME Sockets, Streams, Read, UNCHANGED world
  PROVE  LET c == fds[Fd]
             m == Taken(c)
         IN  /\ c \in Conns /\ m \in Nat /\ PieceOf(request', c, m) /\ Script' = Script
             /\ m + Len(request') <= Taken(c)' /\ m + Len(request') <= Len(Script[c])
             /\ Len(request') \in Nat
<1> DEFINE c == fds[Fd]
<1>1. c \in Conns /\ rx[c] # <<>>
  BY DataRead DEF Read
<1>2. /\ rx[c] \in Seq(Range(Script[c])) /\ Len(rx[c]) \in Nat /\ sent[c] \in Nat
      /\ Len(rx[c]) <= sent[c] /\ sent[c] <= Len(Script[c])
      /\ \A j \in 1 .. Len(rx[c]) : rx[c][j] = Script[c][Taken(c) + j]
  BY <1>1 DEF Streams
<1>3. Len(rx[c]) >= 1
  BY <1>1, <1>2, EmptySeq
<1>4. request' = rx[c] /\ rx' = [rx EXCEPT ![c] = <<>>] /\ sent' = sent
  BY DEF Read
<1>5. rx'[c] = <<>> /\ Len(rx'[c]) = 0
  BY <1>1, <1>4 DEF Streams
<1>6. Taken(c) \in Nat /\ Taken(c) + Len(rx[c]) = sent[c]
  BY <1>2 DEF Taken
<1>7. Taken(c)' = sent'[c'] - Len(rx'[c'])
  BY DEF Taken
<1>8. c' = c
  BY DEF Read, Fd
<1>9. Taken(c)' = sent[c]
  <2>1. Len(rx'[c']) = 0 /\ sent'[c'] = sent[c]
    BY <1>4, <1>5, <1>8
  <2>2. sent[c] - 0 = sent[c]
    BY <1>2
  <2> QED BY <1>7, <2>1, <2>2
<1>10. Script' = Script
  BY DEF Script
<1>11. PieceOf(request', c, Taken(c))
  BY <1>2, <1>3, <1>4 DEF PieceOf
<1> HIDE DEF c
<1>12. Taken(c) + Len(request') <= Taken(c)' /\ Taken(c) + Len(request') <= Len(Script[c])
  BY <1>2, <1>4, <1>6, <1>9
<1> QED BY <1>1, <1>2, <1>4, <1>6, <1>10, <1>11, <1>12 DEF c

LEMMA RequestKept ==
  ASSUME Sockets, Streams, Streams', InRequest, [Next]_vars, world' = world,
         \A c \in Conns : Taken(c)' >= Taken(c)
  PROVE  InRequest'
<1>1. CASE Read
  <2>1. PICK c \in Conns, m \in Nat : /\ PieceOf(request', c, m) /\ c = fds[Fd]
                                      /\ m + Len(request') <= Taken(fds[Fd])' /\ Script' = Script
    BY <1>1, PieceRead
  <2>2. Taken(fds[Fd])' = Taken(c)'
    BY <1>1, <2>1 DEF Taken, Read, Fd
  <2>3. Piece(c, m)'
    BY <2>1, <2>2 DEF Piece, PieceOf
  <2>4. pc' \in {"append", "answer"} /\ (pc' = "append" => Posted')
    BY <1>1 DEF Read, Posted
  <2> QED BY <2>3, <2>4 DEF InRequest
<1>2. CASE pc' = "events"
  BY <1>2 DEF InRequest
<1>3. CASE request' = request /\ pc # "events" /\ (pc' = pc \/ pc' = "answer")
  <2>1. PICK c \in Conns, m \in Nat : Piece(c, m)
    BY <1>3 DEF InRequest
  <2>2. Script' = Script
    BY DEF Script
  <2>3. m + Len(request) <= Taken(c)'
    <3>1. Taken(c) \in Int /\ Taken(c)' \in Int /\ Len(request) \in Nat
      BY <2>1, LenProperties DEF Streams, Taken, Piece, PieceOf
    <3> QED BY <2>1, <3>1 DEF Piece
  <2>4. Piece(c, m)'
    BY <1>3, <2>1, <2>2, <2>3 DEF Piece, PieceOf
  <2>5. Posted' = Posted
    BY <1>3 DEF Posted
  <2> QED BY <1>3, <2>4, <2>5 DEF InRequest
<1>4. CASE Written
  BY <1>3, <1>4 DEF Written
<1>5. CASE AnswerPost
  BY <1>2, <1>5 DEF AnswerPost, CloseClient
<1>6. CASE Others
  BY <1>2, <1>3, <1>6 DEF Others
<1> QED BY <1>1, <1>4, <1>5, <1>6, Steps

-----------------------------------------------------------------------------
(***************************************************************************)
(* The file.                                                               *)
(***************************************************************************)
LEMMA FileIs ==
  ASSUME FileShape
  PROVE  Len(file) \in Nat /\ DOMAIN file = 1 .. Len(file)
BY LenProperties DEF FileShape

LEMMA FileKeptSame ==
  ASSUME file' = file
  PROVE  FileShape => FileShape'
<1>1. Tokens' = Tokens /\ BodiesWhole' = BodiesWhole
  BY DEF Tokens, BodiesWhole
<1> QED BY <1>1 DEF FileShape, Ends, IsList, IsArray

(* A new entry, behind all others; p is its place.                         *)
WrittenAt(p, d) ==
  /\ p \in DOMAIN file' /\ file'[p] = d
  /\ \A k \in DOMAIN file' : file'[k] \in Entries => k = p \/ (k \in DOMAIN file /\ k < p /\ file'[k] = file[k])
  /\ \A k \in DOMAIN file : file[k] \in Entries => k \in DOMAIN file' /\ k < p /\ file'[k] = file[k]

LEMMA FileWritten ==
  ASSUME FileShape, Written, Body \in Entries
  PROVE  FileShape' /\ \E p \in Nat : WrittenAt(p, Body)
<1> PICK d : d = Body
  OBVIOUS
<1>1. file' = Appended(file, d) /\ Tokens' = TokensOf(file') /\ d \in Entries
  BY DEF Written, Tokens
<1>2. /\ file' \in Seq(Entries \cup Characters) /\ file' # <<>> /\ Len(file') >= 6 /\ Ends(file')
      /\ \E p : AddedAt(file', p, d)
      /\ d \in Pixels /\ BodiesWhole => Tokens' \in Seq(Entries \cup Characters) /\ IsList(Tokens')
  BY <1>1, NewEntry
<1>3. DOMAIN file' = 1 .. Len(file') /\ DOMAIN file = 1 .. Len(file)
  BY <1>2, LenProperties, FileIs
<1>4. PICK p : AddedAt(file', p, d)
  BY <1>2
<1>5. WrittenAt(p, d) /\ p \in Nat
  BY <1>3, <1>4 DEF AddedAt, WrittenAt
<1>6. ASSUME BodiesWhole' PROVE BodiesWhole /\ d \in Pixels
  <2>1. \A k \in DOMAIN file' : file'[k] \notin {Nothing, Part}
    BY <1>6 DEF BodiesWhole
  <2>2. d \in Pixels
    BY <1>1, <1>5, <2>1 DEF WrittenAt, Entries
  <2>3. ASSUME NEW k \in DOMAIN file PROVE file[k] \notin {Nothing, Part}
    <3>1. file[k] \in Entries => k \in DOMAIN file' /\ file'[k] = file[k]
      BY <1>5 DEF WrittenAt
    <3> QED BY <2>1, <3>1 DEF Entries
  <2> QED BY <2>2, <2>3 DEF BodiesWhole
<1>7. FileShape'
  BY <1>2, <1>6 DEF FileShape, Ends, IsList, IsArray
<1> QED BY <1>5, <1>7

(* What was answered before is not what is about to be written. *)
LEMMA NotAnswered ==
  ASSUME LoggedOnce, AnswersLogged, pc = "append", Body \in Pixels, NEW i \in DOMAIN answered
  PROVE  answered[i] # Body
<1> SUFFICES ASSUME answered[i] = Body PROVE FALSE
  OBVIOUS
<1>1. PICK k \in DOMAIN file : Records(k, i)
  BY DEF AnswersLogged
<1>2. file[k] = Body
  BY <1>1 DEF Records
<1> QED BY <1>2 DEF LoggedOnce

LEMMA LoggedOnceKept ==
  ASSUME Sockets, Streams, Streams', InRequest, FileShape, LoggedOnce, [Next]_vars, world' = world,
         \A c \in Conns : Taken(c)' >= Taken(c)
  PROVE  LoggedOnce'
<1>1. \A p : Known(p) => Known(p)'
  BY KnownKept
<1>2. CASE Read
  <2>1. file' = file
    BY <1>2 DEF Read
  <2>2. ASSUME pc' = "append", Body' \in Pixels, NEW k \in DOMAIN file PROVE file[k] # Body'
    <3>1. PICK c \in Conns, m \in Nat : /\ m = Taken(c) /\ PieceOf(request', c, m)
                                        /\ m + Len(request') <= Len(Script[c])
                                        /\ Len(request') \in Nat
      BY <1>2, PieceRead
    <3>2. Head(request').kind \in PostKinds
      BY <1>2, <2>2 DEF Read
    <3>3. Body' = BodyOf(request')
      BY DEF Body, BodyOf
    <3>4. PICK i \in m + 1 .. m + Len(request') : HasBody(Script[c][i]) /\ Script[c][i].pixel = Body'
      BY <2>2, <3>1, <3>2, <3>3, BodySent, PixelsAssumption
    <3>5. i \in 1 .. Len(Script[c]) /\ i > Taken(c) /\ i \in Nat
      <4>1. Len(Script[c]) \in Nat
        BY ScriptIs
      <4> QED BY <3>1, <4>1
    <3> SUFFICES ASSUME file[k] = Body' PROVE FALSE
      OBVIOUS
    <3>6. Known(file[k])
      BY <2>2 DEF LoggedOnce
    <3>7. PICK d \in Conns, j \in Nat : Source(Body', d, j)
      <4>1. PICK b : b = Body'
        OBVIOUS
      <4>2. Known(b)
        BY <3>6, <4>1
      <4>3. \E d \in Conns, j \in Nat : Source(b, d, j)
        BY <4>2 DEF Known
      <4> QED BY <4>1, <4>3
    <3>8. j \in 1 .. Taken(d) /\ HasBody(Script[d][j]) /\ Script[d][j].pixel = Body'
      BY <3>7 DEF Source
    <3>9. j \in 1 .. Len(Script[d])
      <4>1. Taken(d) \in Int /\ Taken(d) <= Len(Script[d]) /\ Len(Script[d]) \in Nat
        BY TakenIs
      <4> QED BY <3>8, <4>1
    <3>10. c = d /\ i = j
      BY <3>4, <3>5, <3>8, <3>9, SourceOnce
    <3>11. Taken(c) \in Int
      BY <3>1
    <3> QED BY <3>5, <3>8, <3>10, <3>11
  <2> QED BY <1>1, <2>1, <2>2 DEF LoggedOnce
<1>3. CASE Written
  <2>0. PICK d : d = Body
    OBVIOUS
  <2>1. d \in Entries /\ (d \in Pixels => Known(d))
    BY <1>3, <2>0, BodyKnown DEF InRequest, Written
  <2>2. PICK p : WrittenAt(p, d)
    BY <1>3, <2>0, <2>1, FileWritten
  <2>3. Pixels \subseteq Entries
    BY DEF Entries
  <2>4. d \in Pixels => \A k \in DOMAIN file : file[k] # d
    BY <1>3, <2>0 DEF LoggedOnce, Written
  <2>5. (\A k \in DOMAIN file : file[k] \in Pixels => Known(file[k]))'
    <3>1. ASSUME NEW b \in Pixels, NEW k \in DOMAIN file', b = file'[k] PROVE Known(b)'
      <4>1. k = p \/ (k \in DOMAIN file /\ file'[k] = file[k])
        BY <2>2, <2>3, <3>1 DEF WrittenAt
      <4>2. file'[p] = d
        BY <2>2 DEF WrittenAt
      <4>3. Known(b)
        BY <2>1, <3>1, <4>1, <4>2 DEF LoggedOnce
      <4> QED BY <1>1, <4>3
    <3> QED BY <3>1 DEF Known, Source
  <2>6. ASSUME NEW k \in DOMAIN file', NEW l \in DOMAIN file', file'[k] = file'[l], file'[k] \in Pixels
        PROVE  k = l
    <3>1. k = p \/ (k \in DOMAIN file /\ file'[k] = file[k])
      BY <2>2, <2>3, <2>6 DEF WrittenAt
    <3>2. l = p \/ (l \in DOMAIN file /\ file'[l] = file[l])
      BY <2>2, <2>3, <2>6 DEF WrittenAt
    <3>3. file'[p] = d
      BY <2>2 DEF WrittenAt
    <3>4. CASE k = p \/ l = p
      BY <2>4, <2>6, <3>1, <3>2, <3>3, <3>4
    <3>5. CASE k # p /\ l # p
      BY <2>6, <3>1, <3>2, <3>5 DEF LoggedOnce
    <3> QED BY <3>4, <3>5
  <2>7. pc' # "append"
    BY <1>3 DEF Written
  <2> QED BY <2>5, <2>6, <2>7 DEF LoggedOnce
<1>4. CASE AnswerPost
  <2>1. file' = file /\ pc' = "events"
    BY <1>4 DEF AnswerPost, CloseClient
  <2> QED BY <1>1, <2>1 DEF LoggedOnce
<1>5. CASE Others
  <2>1. file' = file
    BY <1>5 DEF Others
  <2>2. pc' = "events" \/ (pc' = pc /\ Body' = Body)
    BY <1>5 DEF Others, Body
  <2> QED BY <1>1, <2>1, <2>2 DEF LoggedOnce
<1> QED BY <1>2, <1>3, <1>4, <1>5, Steps

LEMMA AnswersKeptWritten ==
  ASSUME FileShape, LoggedOnce, AnswersLogged, Written, Body \in Entries
  PROVE  AnswersLogged' /\ Answering'
<1>0. PICK d : d = Body
  OBVIOUS
<1>1. PICK p \in Nat : WrittenAt(p, d)
  BY <1>0, FileWritten
<1>2. Pixels \subseteq Entries
  BY DEF Entries
<1>3. answered' = answered /\ Body' = d /\ pc = "append"
  BY <1>0 DEF Written, Body
<1>4. d \in Pixels => \A i \in DOMAIN answered : answered[i] # d
  BY <1>0, <1>3, NotAnswered
<1>5. ASSUME NEW i \in DOMAIN answered, NEW k \in DOMAIN file', Records(k, i)'
      PROVE  k \in DOMAIN file /\ Records(k, i)
  <2>1. answered[i] \in Pixels /\ file'[k] = answered[i]
    BY <1>3, <1>5 DEF Records
  <2>2. k = p \/ (k \in DOMAIN file /\ file'[k] = file[k])
    BY <1>1, <1>2, <2>1 DEF WrittenAt
  <2>3. k # p
    BY <1>1, <1>4, <2>1 DEF WrittenAt
  <2> QED BY <2>1, <2>2, <2>3 DEF Records
<1>6. ASSUME NEW i \in DOMAIN answered, NEW k \in DOMAIN file, Records(k, i)
      PROVE  k \in DOMAIN file' /\ Records(k, i)'
  BY <1>1, <1>2, <1>3, <1>6 DEF WrittenAt, Records
<1>7. ASSUME NEW i \in DOMAIN answered, answered[i] \in Pixels PROVE \E k \in DOMAIN file' : Records(k, i)'
  <2>1. PICK k \in DOMAIN file : Records(k, i)
    BY <1>7 DEF AnswersLogged
  <2> QED BY <1>6, <2>1
<1>8. ASSUME NEW i \in DOMAIN answered, NEW j \in DOMAIN answered, NEW k \in DOMAIN file',
             NEW l \in DOMAIN file', Records(k, i)', Records(l, j)', i < j
      PROVE  k < l
  BY <1>5, <1>8 DEF AnswersLogged
<1>9. AnswersLogged'
  BY <1>3, <1>7, <1>8 DEF AnswersLogged
<1>10. ASSUME d \in Pixels PROVE LastPixel(p)' /\ file'[p] = d
  <2>1. \A l \in DOMAIN file' : file'[l] \in Pixels => l <= p
    <3> SUFFICES ASSUME NEW l \in DOMAIN file', file'[l] \in Pixels PROVE l <= p
      OBVIOUS
    <3>1. l = p \/ (l \in DOMAIN file /\ l < p)
      BY <1>1, <1>2 DEF WrittenAt
    <3>2. DOMAIN file \subseteq Nat
      BY FileIs
    <3> QED BY <1>1, <3>1, <3>2
  <2> QED BY <1>1, <2>1 DEF WrittenAt, LastPixel
<1>11. Answering'
  BY <1>3, <1>4, <1>10 DEF Answering
<1> QED BY <1>9, <1>11

LEMMA AnswersKeptAnswer ==
  ASSUME FileShape, LoggedOnce, AnswersLogged, Answering, AnswerPost, Body \in Entries
  PROVE  AnswersLogged' /\ Answering'
<1>0. PICK n : n = Len(answered)
  OBVIOUS
<1>1. PICK d : d = Body
  OBVIOUS
<1>2. file' = file /\ pc' = "events" /\ pc = "answer" /\ Posted
  BY DEF AnswerPost, CloseClient
<1>3. Answering'
  BY <1>2 DEF Answering
<1>4. d \in Pixels => /\ \E k : LastPixel(k) /\ file[k] = d
                      /\ \A i \in DOMAIN answered : answered[i] # d
  BY <1>1, <1>2 DEF Answering
<1>5. n \in Nat /\ DOMAIN answered = 1 .. n
  BY <1>0, LenProperties DEF AnswersLogged
<1>6. CASE answered' = answered
  <2>1. \A k, i : Records(k, i)' <=> Records(k, i)
    BY <1>2, <1>6 DEF Records
  <2> QED BY <1>2, <1>3, <1>6, <2>1 DEF AnswersLogged
<1>7. CASE answered' = Append(answered, d)
  <2>1. /\ answered' \in Seq(Entries) /\ Len(answered') = n + 1
        /\ \A i \in 1 .. n : answered'[i] = answered[i]
    BY <1>0, <1>1, <1>7, AppendProperties DEF AnswersLogged
  <2>2. answered'[n + 1] = d
    BY <1>0, <1>1, <1>7, AppendProperties DEF AnswersLogged
  <2>3. DOMAIN answered' = 1 .. n + 1 /\ \A i \in 1 .. n + 1 : i \in 1 .. n \/ i = n + 1
    BY <1>5, <2>1, LenProperties
  <2>4. ASSUME NEW i \in 1 .. n, NEW k PROVE Records(k, i)' <=> Records(k, i)
    BY <1>2, <2>1 DEF Records
  <2>5. ASSUME NEW k PROVE Records(k, n + 1)' <=> (d \in Pixels /\ file[k] = d)
    BY <1>2, <2>2 DEF Records
  <2>6. ASSUME NEW i \in DOMAIN answered', answered'[i] \in Pixels PROVE \E k \in DOMAIN file : Records(k, i)'
    <3>1. CASE i = n + 1
      <4>1. PICK k : LastPixel(k) /\ file[k] = d
        BY <1>4, <2>2, <2>6, <3>1
      <4>2. k \in DOMAIN file
        BY <4>1 DEF LastPixel
      <4> QED BY <2>2, <2>5, <2>6, <3>1, <4>1, <4>2
    <3>2. CASE i \in 1 .. n
      BY <1>5, <2>1, <2>4, <2>6, <3>2 DEF AnswersLogged
    <3> QED BY <2>3, <3>1, <3>2
  <2>7. ASSUME NEW i \in DOMAIN answered', NEW j \in DOMAIN answered', NEW k \in DOMAIN file,
               NEW l \in DOMAIN file, Records(k, i)', Records(l, j)', i < j
        PROVE  k < l
    <3>1. i \in 1 .. n
      BY <1>5, <2>3, <2>7
    <3>2. Records(k, i)
      BY <2>4, <2>7, <3>1
    <3>3. CASE j \in 1 .. n
      <4>1. Records(l, j)
        BY <2>4, <2>7, <3>3
      <4> QED BY <1>5, <2>7, <3>1, <3>2, <3>3, <4>1 DEF AnswersLogged
    <3>4. CASE j = n + 1
      <4>1. d \in Pixels /\ file[l] = d
        BY <2>5, <2>7, <3>4
      <4>2. file[k] \in Pixels /\ file[k] # d
        BY <1>4, <1>5, <3>1, <3>2, <4>1 DEF Records
      <4>3. PICK e : LastPixel(e) /\ file[e] = d
        BY <1>4, <4>1
      <4>4. e \in DOMAIN file /\ k <= e
        BY <4>2, <4>3 DEF LastPixel
      <4>5. l = e
        BY <4>1, <4>3, <4>4 DEF LoggedOnce
      <4>6. k # e /\ DOMAIN file \subseteq Nat
        BY <4>2, <4>3, FileIs
      <4> QED BY <4>4, <4>5, <4>6
    <3> QED BY <2>3, <3>3, <3>4
  <2> QED BY <1>2, <1>3, <2>1, <2>6, <2>7 DEF AnswersLogged
<1> QED BY <1>1, <1>6, <1>7 DEF AnswerPost

LEMMA AnswersKept ==
  ASSUME Sockets, Streams, InRequest, FileShape, LoggedOnce, AnswersLogged, Answering, [Next]_vars
  PROVE  AnswersLogged' /\ Answering'
<1>1. CASE Written
  <2>1. Body \in Entries
    BY <1>1, BodyKnown DEF InRequest, Written
  <2> QED BY <1>1, <2>1, AnswersKeptWritten
<1>2. CASE AnswerPost
  <2>1. Body \in Entries
    BY <1>2, BodyKnown DEF AnswerPost
  <2> QED BY <1>2, <2>1, AnswersKeptAnswer
<1>3. CASE Read \/ Others
  <2>1. UNCHANGED <<file, answered>>
    BY <1>3 DEF Read, Others
  <2>2. \A k, i : Records(k, i)' <=> Records(k, i)
    BY <2>1 DEF Records
  <2>3. AnswersLogged'
    BY <2>1, <2>2 DEF AnswersLogged
  <2>4. Answering'
    <3>1. CASE Read
      <4>1. pc' = "answer" => ~Posted'
        BY <3>1 DEF Read, Posted
      <4> QED BY <4>1 DEF Answering
    <3>2. CASE pc' = "events"
      BY <3>2 DEF Answering
    <3>3. CASE UNCHANGED <<pc, request>>
      <4>1. Posted' = Posted /\ Body' = Body
        BY <3>3 DEF Posted, Body
      <4> QED BY <2>1, <3>3, <4>1 DEF Answering, LastPixel
    <3> QED BY <1>3, <3>1, <3>2, <3>3 DEF Others
  <2> QED BY <2>3, <2>4
<1> QED BY <1>1, <1>2, <1>3, Steps

LEMMA FileShapeKept ==
  ASSUME Sockets, Streams, InRequest, FileShape, [Next]_vars
  PROVE  FileShape'
<1>1. CASE Written
  <2>1. Body \in Entries
    BY <1>1, BodyKnown DEF InRequest, Written
  <2> QED BY <1>1, <2>1, FileWritten
<1>2. CASE file' = file
  BY <1>2, FileKeptSame
<1> QED BY <1>1, <1>2, Steps DEF Read, AnswerPost, Others

LEMMA InitPollInv == Init => PollInv
<1> SUFFICES ASSUME Init PROVE PollInv
  OBVIOUS
<1>1. Sockets
  <2>1. /\ <<>> \in Seq(Conns) /\ <<>> \in Seq(Fds \cup {0}) /\ <<>> \in Seq(Conns \cup {Listener})
        /\ Len(<<>>) = 0
    OBVIOUS
  <2> QED BY <2>1, SocketsAssumption DEF Init, NetInit, Sockets
<1>2. Streams
  <2>1. \A c \in Conns : <<>> \in Seq(Range(Script[c])) /\ Len(<<>>) = 0
    OBVIOUS
  <2>2. \A c \in Conns : Len(Script[c]) \in Nat
    <3> TAKE c \in Conns
    <3>1. Script[c] \in Seq(Range(Script[c]))
      BY SocketsAssumption DEF Init, NetInit, Script
    <3> QED BY <3>1, LenProperties
  <2> QED BY <2>1, <2>2 DEF Init, NetInit, Streams
<1>3. InRequest
  BY DEF Init, InRequest
<1>5. FileShape
  BY DEF Init, FileShape
<1>6. DOMAIN file = {} /\ answered = <<>> /\ pc = "events"
  BY DEF Init
<1>7. DOMAIN answered = {} /\ answered \in Seq(Entries)
  BY <1>6
<1>8. LoggedOnce /\ AnswersLogged /\ Answering
  BY <1>6, <1>7 DEF LoggedOnce, AnswersLogged, Answering
<1> QED BY <1>1, <1>2, <1>3, <1>5, <1>8 DEF PollInv

LEMMA NextPollInv == PollInv /\ [Next]_vars => PollInv'
<1> SUFFICES ASSUME PollInv, [Next]_vars PROVE PollInv'
  OBVIOUS
<1>1. Sockets /\ Streams /\ InRequest /\ FileShape /\ LoggedOnce /\ AnswersLogged /\ Answering
  BY DEF PollInv
<1>2. Streams' /\ world' = world /\ \A c \in Conns : Taken(c)' >= Taken(c)
  BY <1>1, StreamsKept
<1>3. Sockets'
  BY <1>1, SocketsKept
<1>4. InRequest'
  BY <1>1, <1>2, RequestKept
<1>5. FileShape'
  BY <1>1, FileShapeKept
<1>6. LoggedOnce'
  BY <1>1, <1>2, LoggedOnceKept
<1>7. AnswersLogged' /\ Answering'
  BY <1>1, AnswersKept
<1> QED BY <1>2, <1>3, <1>4, <1>5, <1>6, <1>7 DEF PollInv

(* chaeyoung_files: whatever is killed, cut or lost, the file holds no     *)
(* pixel twice and all that was answered, in order, and it is an array of  *)
(* pixels as long as every body came whole.                                *)
THEOREM FileKept == Spec => []FileMatchesAnswers
<1>1. PollInv => FileMatchesAnswers
  BY DEF PollInv, FileShape, LoggedOnce, AnswersLogged, FileMatchesAnswers, FileParses, IsList
<1> QED BY <1>1, InitPollInv, NextPollInv, PTL DEF Spec
=============================================================================
