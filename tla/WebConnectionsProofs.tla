----------------------- MODULE WebConnectionsProofs -----------------------
(***************************************************************************)
(* Theorems about WebConnections, for any number of connections, any       *)
(* scripts of what browsers send, and files, buffers and updates of any    *)
(* size.                                                                   *)
(***************************************************************************)
EXTENDS WebConnections, SequenceTheorems, WellFoundedInduction, TLAPS

---------------------------------------------------------------------------
(* The inductive invariant.  First what a connection c is, with k its      *)
(* struct, f the halves on the way to the server, and got what the browser *)
(* has received.                                                           *)

\* Halves of messages are numbered 1, 2, ... in the order they are sent.
Place(half) == 2 * half.nr + half.part - 2

\* Messages are handled in their order; what the server has of the next ones,
\* and what is on the way, follows without a gap.
Counted(c, k, f) ==
  /\ sent[c] <= Len(script[c])
  /\ k.handled = [i \in 1 .. Len(k.handled) |-> i]
  /\ 2 * Len(k.handled) + Len(k.recv_mbuf) + Len(f) = 2 * sent[c]
  /\ \A i \in 1 .. Len(k.recv_mbuf) : Place(k.recv_mbuf[i]) = 2 * Len(k.handled) + i
  /\ \A i \in 1 .. Len(f) :
       Place(f[i]) = 2 * Len(k.handled) + Len(k.recv_mbuf) + i

\* Until there is a websocket a browser has sent requests only, and has one
\* under way at most.
OneRequest(c, k) ==
  ~k.websocket =>
    /\ sent[c] <= Len(k.handled) + 1
    /\ \A nr \in 1 .. sent[c] : Kind(c, nr) \in Requests

\* What is sent or to be sent answers messages that were handled, and there is
\* no handshake without a websocket.
OfHandled(k, s) ==
  \A i \in 1 .. Len(s) :
    /\ s[i].kind # "frame" => s[i].nr \in 1 .. Len(k.handled)
    /\ s[i].kind = "handshake" => k.websocket

\* Of the file that is served those pieces are still to come which are not in s.
PiecesBefore(k, s) ==
  \A i \in 1 .. Len(s) :
    s[i].kind = "piece" /\ s[i].nr = k.file.nr => s[i].piece <= FilePieces - k.file.left

\* The file that is served is that of the last message handled, and the
\* browser sends no other message before it has the whole file.
FileOfLast(c, k) ==
  /\ k.file.nr # 0 =>
       k.file.nr \in 1 .. Len(k.handled) /\ Kind(c, k.file.nr) \in {"get", "get_close"}
  /\ k.file.left # 0 =>
       ~k.websocket /\ k.file.nr = Len(k.handled) /\ sent[c] = Len(k.handled) /\ k.file.nr # 0

\* The server closes a connection, or will, when nothing is left to be done.
NothingLeft(c, k) ==
  k.send_and_close \/ k.close_immediately =>
    \/ k.broken
    \/ /\ shut[c] \/ (sent[c] = Len(script[c]) /\ k.file.left = 0)
       /\ \A nr \in 1 .. sent[c] :
            nr <= Len(k.handled) \/ Kind(c, nr) \in {"bad", "close"}

\* What AnswersIntact says, with what is still to come.
Intact(c, k, got) ==
  ~k.crossed /\ ~k.broken /\ ~shut[c] => Sensible(c, k, got \o k.send_mbuf \o Pending(k))

Fine(c, k, f, got) ==
  /\ Counted(c, k, f) /\ OneRequest(c, k)
  /\ OfHandled(k, got) /\ OfHandled(k, k.send_mbuf)
  /\ PiecesBefore(k, got) /\ PiecesBefore(k, k.send_mbuf)
  /\ FileOfLast(c, k) /\ NothingLeft(c, k) /\ Intact(c, k, got)

\* Now the state.
ConnInv ==
  \A c \in Conns :
    /\ life[c] # "closed" => Fine(c, conn[c], inflight[c], received[c])
    /\ life[c] \in {"new", "backlog"} => conn[c] = NewConnection /\ received[c] = <<>>
    /\ life[c] = "new" => sent[c] = 0

\* A connection that is open is in the list, once; those still to be handled
\* are open, and are read only if there is something to read.
ListInv ==
  /\ \A c \in Conns : life[c] = "open" <=> \E i \in 1 .. Len(active_connections) :
                                             active_connections[i] = c
  /\ \A i, j \in 1 .. Len(active_connections) :
       active_connections[i] = active_connections[j] => i = j
  /\ spc # "handle" => todo = <<>>
  /\ \A i \in 1 .. Len(todo) :
       /\ life[todo[i].c] = "open"
       /\ todo[i].read => inflight[todo[i].c] # <<>> \/ shut[todo[i].c]
       /\ \A j \in 1 .. Len(todo) : todo[i].c = todo[j].c => i = j

\* A whole message stays in memory only if the connection is closed in this
\* poll, and so is one that has close_immediately.
PollInv ==
  \A c \in Conns : life[c] = "open" =>
    /\ Whole(conn[c]) => conn[c].close_immediately
    /\ conn[c].close_immediately =>
         spc = "handle" /\ \A i \in 1 .. Len(todo) : todo[i].c # c

\* What holds of a connection once it is closed.
AllDone(c, k, got) ==
  /\ \/ k.broken
     \/ \A nr \in 1 .. sent[c] :
          nr \in ToSet(k.handled) \/ Kind(c, nr) \in {"bad", "close"}
  /\ ~k.crossed /\ ~k.broken /\ ~shut[c] /\ ~k.close_immediately => Sensible(c, k, got)

ClosedInv ==
  \A c \in Conns : life[c] = "closed" => AllDone(c, conn[c], received[c])

Inv == ConnInv /\ ListInv /\ PollInv /\ ClosedInv

---------------------------------------------------------------------------
(* Sequences and records.                                                  *)

LEMMA WithoutFacts ==
  ASSUME NEW S, NEW s \in Seq(S), NEW n \in 0 .. Len(s)
  PROVE  /\ Without(s, n) \in Seq(S)
         /\ Len(Without(s, n)) = Len(s) - n
         /\ \A i \in 1 .. Len(s) - n : Without(s, n)[i] = s[n + i]
<1>1. Len(s) \in Nat /\ n \in Nat /\ n <= Len(s)
  OBVIOUS
<1>2. \A i \in n + 1 .. Len(s) : s[i] \in S
  BY <1>1
<1>3. /\ SubSeq(s, n + 1, Len(s)) \in Seq(S)
      /\ Len(SubSeq(s, n + 1, Len(s))) = IF n + 1 <= Len(s) THEN Len(s) - (n + 1) + 1 ELSE 0
      /\ \A i \in 1 .. Len(s) - (n + 1) + 1 :
           SubSeq(s, n + 1, Len(s))[i] = s[n + 1 + i - 1]
  <2>1. n + 1 \in Int /\ Len(s) \in Int
    BY <1>1
  <2> QED
    BY <1>2, <2>1, SubSeqProperties
<1>4. /\ Len(s) - (n + 1) + 1 = Len(s) - n
      /\ (IF n + 1 <= Len(s) THEN Len(s) - (n + 1) + 1 ELSE 0) = Len(s) - n
      /\ \A i \in Int : n + 1 + i - 1 = n + i
  BY <1>1
<1>5. \A i \in 1 .. Len(s) - n : SubSeq(s, n + 1, Len(s))[i] = s[n + i]
  <2> SUFFICES ASSUME NEW i \in 1 .. Len(s) - n
               PROVE  SubSeq(s, n + 1, Len(s))[i] = s[n + i]
    OBVIOUS
  <2>1. \A m \in Nat :
       i \in 1 .. m - n => i \in 1 .. m - (n + 1) + 1 /\ n + 1 + i - 1 = n + i
    BY <1>1
  <2> QED
    BY <1>1, <1>3, <2>1
<1> QED
  BY <1>3, <1>4, <1>5 DEF Without

LEMMA FirstFacts ==
  ASSUME NEW S, NEW s \in Seq(S), NEW n \in 0 .. Len(s)
  PROVE  /\ SubSeq(s, 1, n) \in Seq(S)
         /\ Len(SubSeq(s, 1, n)) = n
         /\ \A i \in 1 .. n : SubSeq(s, 1, n)[i] = s[i]
<1>1. Len(s) \in Nat /\ n \in Nat /\ n <= Len(s)
  OBVIOUS
<1>2. \A i \in 1 .. n : s[i] \in S
  BY <1>1
<1>3. /\ SubSeq(s, 1, n) \in Seq(S)
      /\ Len(SubSeq(s, 1, n)) = IF 1 <= n THEN n - 1 + 1 ELSE 0
      /\ \A i \in 1 .. n - 1 + 1 : SubSeq(s, 1, n)[i] = s[1 + i - 1]
  <2>1. 1 \in Int /\ n \in Int
    BY <1>1
  <2> QED
    BY <1>2, <2>1, SubSeqProperties
<1>4. n - 1 + 1 = n /\ \A i \in Int : 1 + i - 1 = i
  BY <1>1
<1> QED
  BY <1>1, <1>3, <1>4

\* A sequence is what is taken from it and what is left.
LEMMA FirstAndRest ==
  ASSUME NEW S, NEW s \in Seq(S), NEW n \in 0 .. Len(s)
  PROVE  SubSeq(s, 1, n) \o Without(s, n) = s
<1>1. Len(s) \in Nat /\ n \in Nat /\ n <= Len(s)
  OBVIOUS
<1>2. 1 \in 1 .. Len(s) + 1 /\ n \in 1 - 1 .. Len(s) /\ Len(s) \in n .. Len(s)
  BY <1>1
<1>3. SubSeq(s, 1, n) \o SubSeq(s, n + 1, Len(s)) = SubSeq(s, 1, Len(s))
  BY <1>2, ConcatAdjacentSubSeq
<1>4. SubSeq(s, 1, Len(s)) = s
  BY SubSeqFull
<1> QED
  BY <1>3, <1>4 DEF Without

\* l is k but for what it has to send, the file and send_and_close.
SameReceiving(k, l) ==
  /\ l.recv_mbuf = k.recv_mbuf /\ l.websocket = k.websocket
  /\ l.close_immediately = k.close_immediately
  /\ l.handled = k.handled /\ l.crossed = k.crossed /\ l.broken = k.broken

LEMMA SendFields ==
  ASSUME NEW k \in Connections, NEW item \in Items
  PROVE  /\ Send(k, item) \in Connections
         /\ SameReceiving(k, Send(k, item))
         /\ Send(k, item).send_mbuf = Append(k.send_mbuf, item)
         /\ Send(k, item).file = k.file
         /\ Send(k, item).send_and_close = k.send_and_close
<1>1. Append(k.send_mbuf, item) \in Seq(Items)
  BY AppendProperties DEF Connections
<1> QED
  BY <1>1 DEF Send, Connections, SameReceiving

LEMMA FrameType == Frame \in Items
  BY DEF Frame, Item, Items

\* The pieces of a file from one on.
Pieces(nr, first, n) == [i \in 1 .. n |-> Item("piece", nr, first + i - 1)]

ArePieces(s, nr, first, n) ==
  /\ s \in Seq(Items) /\ Len(s) = n
  /\ \A i \in 1 .. n : s[i] = [kind |-> "piece", nr |-> nr, piece |-> first + i - 1]

LEMMA PiecesFacts ==
  ASSUME NEW nr \in Nat, NEW first \in Nat, first # 0, NEW n \in Nat
  PROVE  ArePieces(Pieces(nr, first, n), nr, first, n)
<1>1. \A i \in 1 .. n : first + i - 1 \in Nat
  OBVIOUS
<1>2. \A i \in 1 .. n : Item("piece", nr, first + i - 1) \in Items
  BY <1>1 DEF Item, Items
<1>3. Pieces(nr, first, n) \in [1 .. n -> Items]
  BY <1>2 DEF Pieces
<1> QED
  BY <1>3 DEF Pieces, Item, ArePieces

\* l is what Transfer makes of k: the same, or some pieces more to send, or the
\* end of the file.
AfterTransfer(c, k, l) ==
  /\ l \in Connections /\ SameReceiving(k, l)
  /\ \/ l = k
     \/ /\ k.file.nr # 0
        /\ \E n \in 0 .. k.file.left :
             /\ l.send_mbuf =
                  k.send_mbuf \o Pieces(k.file.nr, FilePieces - k.file.left + 1, n)
             /\ l.file = [nr |-> k.file.nr, left |-> k.file.left - n]
             /\ l.send_and_close = k.send_and_close
     \/ /\ k.file.nr # 0 /\ k.file.left = 0
        /\ l.send_mbuf = k.send_mbuf /\ l.file = NoFile
        /\ l.send_and_close = (k.send_and_close \/ Kind(c, k.file.nr) = "get_close")

LEMMA TransferFields ==
  ASSUME NEW c, NEW k \in Connections
  PROVE  AfterTransfer(c, k, Transfer(c, k))
<1> DEFINE room == Room - Len(k.send_mbuf)
           n == IF room < k.file.left THEN room ELSE k.file.left
           first == FilePieces - k.file.left + 1
<1>1. FilePieces \in Nat \ {0} /\ Room \in Nat
  BY WebConnectionsAssumption
<1>2. /\ k.file \in [nr : Nat, left : 0 .. FilePieces]
      /\ k.file.nr \in Nat /\ k.file.left \in 0 .. FilePieces
      /\ k.send_mbuf \in Seq(Items) /\ Len(k.send_mbuf) \in Nat
      /\ k.send_and_close \in BOOLEAN
  BY DEF Connections
<1>3. CASE k.file.nr = 0 \/ room <= 0
  <2>1. Transfer(c, k) = k
    BY <1>3 DEF Transfer
  <2> QED
    BY <2>1 DEF SameReceiving, AfterTransfer
<1>4. CASE k.file.nr # 0 /\ ~(room <= 0) /\ k.file.left > 0
  <2>1. n \in 0 .. k.file.left /\ first \in Nat /\ first # 0 /\ n \in Nat
    BY <1>1, <1>2, <1>4
  <2>2. Transfer(c, k) = [k EXCEPT !.send_mbuf = @ \o Pieces(k.file.nr, first, n),
                                   !.file.left = @ - n]
    BY <1>4 DEF Transfer, Pieces
  <2> HIDE DEF n, first, room
  <2>3. k.send_mbuf \o Pieces(k.file.nr, first, n) \in Seq(Items)
    BY <1>2, <2>1, PiecesFacts, ConcatProperties DEF ArePieces
  <2>4. k.file.left - n \in 0 .. FilePieces
    BY <1>1, <1>2, <2>1
  <2>5. [k.file EXCEPT !.left = @ - n] = [nr |-> k.file.nr, left |-> k.file.left - n]
    BY <1>2
  <2>6. /\ Transfer(c, k) \in Connections
        /\ SameReceiving(k, Transfer(c, k))
        /\ Transfer(c, k).send_mbuf = k.send_mbuf \o Pieces(k.file.nr, first, n)
        /\ Transfer(c, k).file = [nr |-> k.file.nr, left |-> k.file.left - n]
        /\ Transfer(c, k).send_and_close = k.send_and_close
    BY <1>2, <2>2, <2>3, <2>4, <2>5 DEF Connections, SameReceiving
  <2> QED
    BY <1>4, <2>1, <2>6 DEF first, AfterTransfer
<1>5. CASE k.file.nr # 0 /\ ~(room <= 0) /\ ~(k.file.left > 0)
  <2>1. k.file.left = 0
    BY <1>1, <1>2, <1>5
  <2>2. Transfer(c, k) = [k EXCEPT !.file = NoFile,
                                   !.send_and_close = @ \/ Kind(c, k.file.nr) = "get_close"]
    BY <1>5 DEF Transfer
  <2>3. NoFile \in [nr : Nat, left : 0 .. FilePieces]
    BY <1>1 DEF NoFile
  <2>4. (k.send_and_close \/ Kind(c, k.file.nr) = "get_close") \in BOOLEAN
    OBVIOUS
  <2>5. /\ Transfer(c, k) \in Connections
        /\ SameReceiving(k, Transfer(c, k))
        /\ Transfer(c, k).send_mbuf = k.send_mbuf
        /\ Transfer(c, k).file = NoFile
        /\ Transfer(c, k).send_and_close =
             (k.send_and_close \/ Kind(c, k.file.nr) = "get_close")
    BY <1>2, <2>2, <2>3, <2>4 DEF Connections, SameReceiving
  <2> QED
    BY <1>5, <2>1, <2>5 DEF AfterTransfer
<1> QED
  BY <1>3, <1>4, <1>5

---------------------------------------------------------------------------
(* FlattenSeq, a recursive function.  What holds of it for every sequence  *)
(* is shown by looking at the first place where it does not.               *)

LEMMA Least ==
  ASSUME NEW T \in SUBSET Nat, T # {}
  PROVE  \E m \in T : \A k \in T : ~(k < m)
<1> DEFINE R == {pair \in Nat \X Nat : pair[1] < pair[2]}
<1>1. IsWellFoundedOn(R, Nat)
  BY NatLessThanWellFounded DEF OpToRel
<1>2. PICK m \in T : \A k \in T : ~(<<k, m>> \in R)
  <2> HIDE DEF R
  <2> QED
    BY <1>1, WFMin
<1> QED
  BY <1>2

\* f has the first m values of what FlattenSeq computes of ss.
IsFlat(f, ss, m) == f = [i \in 1 .. m |-> IF i = 1 THEN ss[i] ELSE f[i - 1] \o ss[i]]

LEMMA FlatStep ==
  ASSUME NEW f, NEW ss, NEW m \in Nat, IsFlat(f, ss, m), NEW i \in 1 .. m
  PROVE  f[i] = IF i = 1 THEN ss[i] ELSE f[i - 1] \o ss[i]
BY DEF IsFlat

LEMMA FlatExists ==
  ASSUME NEW ss, NEW n \in Nat
  PROVE  \E f : IsFlat(f, ss, n)
<1> DEFINE Bad == {m \in 0 .. n : \A f : ~IsFlat(f, ss, m)}
<1>1. \E f : IsFlat(f, ss, 0)
  <2>1. IsFlat([i \in 1 .. 0 |-> <<>>], ss, 0)
    BY DEF IsFlat
  <2> QED
    BY <2>1
<1>2. ASSUME NEW m \in 1 .. n, NEW f, IsFlat(f, ss, m - 1)
      PROVE  \E g : IsFlat(g, ss, m)
  <2> DEFINE g == [i \in 1 .. m |-> IF i # m THEN f[i]
                                    ELSE IF i = 1 THEN ss[i] ELSE f[i - 1] \o ss[i]]
  <2>1. ASSUME NEW i \in 1 .. m
        PROVE  g[i] = IF i = 1 THEN ss[i] ELSE g[i - 1] \o ss[i]
    <3>1. i # 1 => i - 1 \in 1 .. m /\ i - 1 # m /\ g[i - 1] = f[i - 1]
      OBVIOUS
    <3>2. CASE i = m
      BY <3>1, <3>2
    <3>3. CASE i # m
      <4>1. i \in 1 .. m - 1 /\ m - 1 \in Nat
        BY <3>3
      <4>2. f[i] = IF i = 1 THEN ss[i] ELSE f[i - 1] \o ss[i]
        <5> HIDE DEF g
        <5> QED
          BY <1>2, <4>1, FlatStep
      <4> QED
        BY <3>1, <3>3, <4>2
    <3> QED
      BY <3>2, <3>3
  <2>2. g = [i \in 1 .. m |-> g[i]]
    OBVIOUS
  <2> HIDE DEF g
  <2>3. IsFlat(g, ss, m)
    BY <2>1, <2>2 DEF IsFlat
  <2> QED
    BY <2>3
<1>3. Bad = {}
  <2> SUFFICES ASSUME Bad # {} PROVE FALSE
    OBVIOUS
  <2>1. Bad \in SUBSET Nat
    OBVIOUS
  <2>2. PICK m \in Bad : \A k \in Bad : ~(k < m)
    <3> HIDE DEF Bad
    <3> QED
      BY <2>1, Least
  <2>3. m \in 1 .. n
    BY <1>1, <2>2
  <2>4. m - 1 \in 0 .. n /\ m - 1 < m
    BY <2>3
  <2>5. PICK f : IsFlat(f, ss, m - 1)
    BY <2>2, <2>4
  <2> QED
    BY <1>2, <2>2, <2>3, <2>5
<1> QED
  BY <1>3

\* Two such functions agree as long as what they flatten does.
LEMMA FlatAgrees ==
  ASSUME NEW ss, NEW tt, NEW n \in Nat, NEW m \in Nat, n <= m,
         NEW f, NEW g, IsFlat(f, ss, n), IsFlat(g, tt, m),
         \A i \in 1 .. n : ss[i] = tt[i]
  PROVE  \A i \in 1 .. n : f[i] = g[i]
<1> DEFINE Bad == {i \in 1 .. n : f[i] # g[i]}
<1> SUFFICES ASSUME Bad # {} PROVE FALSE
  OBVIOUS
<1>1. Bad \in SUBSET Nat
  OBVIOUS
<1>2. PICK i \in Bad : \A k \in Bad : ~(k < i)
  <2> HIDE DEF Bad
  <2> QED
    BY <1>1, Least
<1>3. i \in 1 .. n /\ i \in 1 .. m /\ (i # 1 => i - 1 \in 1 .. n /\ i - 1 < i)
  OBVIOUS
<1>4. f[i] = (IF i = 1 THEN ss[i] ELSE f[i - 1] \o ss[i])
  <2> HIDE DEF Bad
  <2> QED
    BY <1>3, FlatStep
<1>5. g[i] = (IF i = 1 THEN tt[i] ELSE g[i - 1] \o tt[i])
  <2> HIDE DEF Bad
  <2> QED
    BY <1>3, FlatStep
<1>6. i # 1 => f[i - 1] = g[i - 1]
  BY <1>2, <1>3
<1> QED
  BY <1>2, <1>3, <1>4, <1>5, <1>6

LEMMA FlatType ==
  ASSUME NEW S, NEW ss, NEW n \in Nat, \A i \in 1 .. n : ss[i] \in Seq(S),
         NEW f, IsFlat(f, ss, n)
  PROVE  \A i \in 1 .. n : f[i] \in Seq(S)
<1> DEFINE Bad == {i \in 1 .. n : f[i] \notin Seq(S)}
<1> SUFFICES ASSUME Bad # {} PROVE FALSE
  OBVIOUS
<1>1. Bad \in SUBSET Nat
  OBVIOUS
<1>2. PICK i \in Bad : \A k \in Bad : ~(k < i)
  <2> HIDE DEF Bad
  <2> QED
    BY <1>1, Least
<1>3. i \in 1 .. n /\ (i # 1 => i - 1 \in 1 .. n /\ i - 1 < i)
  OBVIOUS
<1>4. f[i] = (IF i = 1 THEN ss[i] ELSE f[i - 1] \o ss[i])
  <2> HIDE DEF Bad
  <2> QED
    BY <1>3, FlatStep
<1>5. i # 1 => f[i - 1] \in Seq(S)
  BY <1>2, <1>3
<1>6. ss[i] \in Seq(S)
  BY <1>3
<1>7. i # 1 => f[i - 1] \o ss[i] \in Seq(S)
  <2> HIDE DEF Bad
  <2> QED
    BY <1>5, <1>6, ConcatProperties
<1> QED
  BY <1>2, <1>4, <1>6, <1>7

LEMMA FlattenIsFlat ==
  ASSUME NEW ss, Len(ss) \in Nat \ {0}
  PROVE  \E f : IsFlat(f, ss, Len(ss)) /\ FlattenSeq(ss) = f[Len(ss)]
<1> DEFINE flat == CHOOSE f : IsFlat(f, ss, Len(ss))
<1>1. FlattenSeq(ss) = flat[Len(ss)]
  BY DEF FlattenSeq, IsFlat
<1>2. IsFlat(flat, ss, Len(ss))
  BY FlatExists
<1> HIDE DEF flat
<1> QED
  BY <1>1, <1>2

LEMMA FlattenEmpty == FlattenSeq(<<>>) = <<>>
BY DEF FlattenSeq

LEMMA FlattenAppend ==
  ASSUME NEW S, NEW ss \in Seq(Seq(S)), NEW s \in Seq(S)
  PROVE  /\ FlattenSeq(ss) \in Seq(S)
         /\ FlattenSeq(Append(ss, s)) = FlattenSeq(ss) \o s
<1> DEFINE tt == Append(ss, s)
           n == Len(ss)
<1>1. n \in Nat /\ \A i \in 1 .. n : ss[i] \in Seq(S)
  BY ElementOfSeq
<1>2. /\ Len(tt) = n + 1 /\ tt[n + 1] = s /\ n + 1 # 0
      /\ \A i \in 1 .. n : ss[i] = tt[i]
  BY AppendProperties
<1> HIDE DEF tt
<1>3. PICK g : IsFlat(g, tt, n + 1) /\ FlattenSeq(tt) = g[n + 1]
  <2>1. Len(tt) \in Nat \ {0}
    BY <1>1, <1>2
  <2> QED
    BY <1>2, <2>1, FlattenIsFlat
<1>4. g[n + 1] = IF n + 1 = 1 THEN tt[n + 1] ELSE g[n + 1 - 1] \o tt[n + 1]
  BY <1>1, <1>3, FlatStep
<1>5. CASE n = 0
  <2>1. ss = <<>>
    BY <1>5, EmptySeq
  <2>2. <<>> \in Seq(S) /\ <<>> \o s = s
    BY EmptySeq, ConcatEmptySeq
  <2>3. n + 1 = 1
    BY <1>5
  <2>4. FlattenSeq(tt) = s
    BY <1>2, <1>3, <1>4, <2>3
  <2> QED
    BY <2>1, <2>2, <2>4, FlattenEmpty DEF tt
<1>6. CASE n # 0
  <2>1. PICK f : IsFlat(f, ss, n) /\ FlattenSeq(ss) = f[n]
    BY <1>1, <1>6, FlattenIsFlat
  <2>2. n \in 1 .. n /\ n + 1 - 1 = n /\ n + 1 # 1 /\ n <= n + 1 /\ n + 1 \in Nat
    BY <1>1, <1>6
  <2> HIDE DEF n
  <2>3. f[n] \in Seq(S)
    BY <1>1, <2>1, <2>2, FlatType
  <2>4. f[n] = g[n]
    <3> DEFINE m == n + 1
    <3>0. m \in Nat /\ n \in Nat /\ n <= m /\ IsFlat(g, tt, m) /\ IsFlat(f, ss, n)
      BY <1>1, <1>3, <2>1, <2>2
    <3> HIDE DEF m
    <3>1. \A i \in 1 .. n : f[i] = g[i]
      BY <1>2, <3>0, FlatAgrees
    <3> QED
      BY <2>2, <3>1
  <2> QED
    BY <1>2, <1>3, <1>4, <2>1, <2>2, <2>3, <2>4 DEF tt
<1> QED
  BY <1>5, <1>6

---------------------------------------------------------------------------
(* What the handlers do to a connection.                                   *)

\* l is what k becomes when it handles a request: there is a reply to send, or
\* the head of a file and those pieces that there is room for.
AfterRequest(c, k, nr, l) ==
  /\ l \in Connections
  /\ l.handled = Append(k.handled, nr)
  /\ l.recv_mbuf = k.recv_mbuf /\ l.websocket = k.websocket
  /\ l.close_immediately = k.close_immediately
  /\ l.crossed = k.crossed /\ l.broken = k.broken
  /\ IF Kind(c, nr) = "action"
       THEN /\ l.send_mbuf = Append(k.send_mbuf, Item("reply", nr, 0))
            /\ l.file = k.file /\ l.send_and_close
       ELSE \E n \in 0 .. FilePieces :
            /\ l.send_mbuf = Append(k.send_mbuf, Item("head", nr, 0)) \o Pieces(nr, 1, n)
            /\ l.file = [nr |-> nr, left |-> FilePieces - n]
            /\ l.send_and_close = k.send_and_close

LEMMA RequestFields ==
  ASSUME NEW c, NEW k \in Connections, NEW nr \in Nat
  PROVE  AfterRequest(c, k, nr, HandleRequest(c, k, nr))
<1> DEFINE taken == [k EXCEPT !.handled = Append(@, nr)]
<1>1. FilePieces \in Nat \ {0}
  BY WebConnectionsAssumption
<1>2. Append(k.handled, nr) \in Seq(Nat)
  BY AppendProperties DEF Connections
<1>3. /\ taken \in Connections /\ taken.handled = Append(k.handled, nr)
      /\ taken.recv_mbuf = k.recv_mbuf /\ taken.websocket = k.websocket
      /\ taken.close_immediately = k.close_immediately
      /\ taken.crossed = k.crossed /\ taken.broken = k.broken
      /\ taken.file = k.file /\ taken.send_mbuf = k.send_mbuf
      /\ taken.send_and_close = k.send_and_close
  BY <1>2 DEF Connections
<1>4. Item("reply", nr, 0) \in Items /\ Item("head", nr, 0) \in Items
  BY DEF Item, Items
<1>5. CASE Kind(c, nr) = "action"
  <2> DEFINE r == Send(taken, Item("reply", nr, 0))
  <2>1. HandleRequest(c, k, nr) = [r EXCEPT !.send_and_close = TRUE]
    BY <1>5 DEF HandleRequest, SendReply
  <2>2. /\ r \in Connections /\ SameReceiving(taken, r)
        /\ r.send_mbuf = Append(taken.send_mbuf, Item("reply", nr, 0))
        /\ r.file = taken.file
    <3> HIDE DEF taken
    <3> QED
      BY <1>3, <1>4, SendFields
  <2> HIDE DEF r, taken
  <2> QED
    BY <1>3, <1>5, <2>1, <2>2 DEF SameReceiving, Connections, AfterRequest
<1>6. CASE Kind(c, nr) # "action"
  <2> DEFINE h == Send(taken, Item("head", nr, 0))
             l == [h EXCEPT !.file = [nr |-> nr, left |-> FilePieces]]
  <2>1. HandleRequest(c, k, nr) = Transfer(c, l)
    BY <1>6 DEF HandleRequest, SendFile
  <2>2. /\ h \in Connections /\ SameReceiving(taken, h)
        /\ h.send_mbuf = Append(taken.send_mbuf, Item("head", nr, 0))
        /\ h.send_and_close = taken.send_and_close
    <3> HIDE DEF taken
    <3> QED
      BY <1>3, <1>4, SendFields
  <2>3. [nr |-> nr, left |-> FilePieces] \in [nr : Nat, left : 0 .. FilePieces]
    BY <1>1
  <2> HIDE DEF taken, h
  <2>4. /\ l \in Connections /\ SameReceiving(taken, l)
        /\ l.send_mbuf = Append(k.send_mbuf, Item("head", nr, 0))
        /\ l.send_and_close = k.send_and_close
        /\ l.file.nr = nr /\ l.file.left = FilePieces
        /\ l.file = [nr |-> nr, left |-> FilePieces]
    BY <1>3, <2>2, <2>3 DEF SameReceiving, Connections
  <2> HIDE DEF l
  <2>5. AfterTransfer(c, l, Transfer(c, l))
    BY <2>4, TransferFields
  <2>6. \E n \in 0 .. FilePieces :
          /\ Transfer(c, l).send_mbuf = l.send_mbuf \o Pieces(nr, 1, n)
          /\ Transfer(c, l).file = [nr |-> nr, left |-> FilePieces - n]
          /\ Transfer(c, l).send_and_close = l.send_and_close
    <3>1. CASE Transfer(c, l) = l
      <4>1. Pieces(nr, 1, 0) = <<>>
        BY DEF Pieces
      <4>2. l.send_mbuf \o <<>> = l.send_mbuf
        BY <2>4, ConcatEmptySeq DEF Connections
      <4>3. FilePieces - 0 = FilePieces /\ 0 \in 0 .. FilePieces
        BY <1>1
      <4> QED
        BY <2>4, <3>1, <4>1, <4>2, <4>3
    <3>2. CASE \E n \in 0 .. l.file.left :
                 /\ Transfer(c, l).send_mbuf =
                      l.send_mbuf \o Pieces(l.file.nr, FilePieces - l.file.left + 1, n)
                 /\ Transfer(c, l).file = [nr |-> l.file.nr, left |-> l.file.left - n]
                 /\ Transfer(c, l).send_and_close = l.send_and_close
      <4>1. FilePieces - l.file.left + 1 = 1
        BY <1>1, <2>4
      <4> QED
        BY <2>4, <3>2, <4>1
    <3>3. l.file.left # 0
      BY <1>1, <2>4
    <3> QED
      BY <2>4, <2>5, <3>1, <3>2, <3>3 DEF AfterTransfer
  <2> QED
    BY <1>3, <1>6, <2>1, <2>4, <2>5, <2>6 DEF SameReceiving, AfterTransfer, AfterRequest
<1> QED
  BY <1>5, <1>6

\* l is what k becomes when it handles a frame, which adds a frame to what is
\* to be sent, or a text that breaks the websocket, or nothing.
AfterFrame(c, k, nr, l) ==
  /\ l \in Connections
  /\ l.handled = Append(k.handled, nr)
  /\ l.recv_mbuf = k.recv_mbuf /\ l.websocket = k.websocket
  /\ l.close_immediately = k.close_immediately
  /\ l.crossed = k.crossed /\ l.file = k.file
  /\ k.broken => l.broken
  /\ \/ l.send_mbuf = k.send_mbuf
     \/ l.send_mbuf = Append(k.send_mbuf, Frame)
     \/ l.send_mbuf = Append(k.send_mbuf, Item("text", nr, 0)) /\ l.broken
  /\ l.send_and_close => k.send_and_close \/ l.broken \/ Kind(c, nr) = "close"

LEMMA FrameFields ==
  ASSUME NEW c, NEW k \in Connections, NEW nr \in Nat, NEW refused \in BOOLEAN
  PROVE  AfterFrame(c, k, nr, HandleFrame(c, k, nr, refused))
<1> DEFINE taken == [k EXCEPT !.handled = Append(@, nr)]
<1>1. Append(k.handled, nr) \in Seq(Nat)
  BY AppendProperties DEF Connections
<1>2. /\ taken \in Connections /\ taken.handled = Append(k.handled, nr)
      /\ taken.recv_mbuf = k.recv_mbuf /\ taken.websocket = k.websocket
      /\ taken.close_immediately = k.close_immediately
      /\ taken.crossed = k.crossed /\ taken.broken = k.broken
      /\ taken.file = k.file /\ taken.send_mbuf = k.send_mbuf
      /\ taken.send_and_close = k.send_and_close
  BY <1>1 DEF Connections
<1>3. Item("text", nr, 0) \in Items
  BY DEF Item, Items
<1>4. CASE Kind(c, nr) = "initial_update"
  <2>1. HandleFrame(c, k, nr, refused) = Send(taken, Frame)
    BY <1>4 DEF HandleFrame
  <2> HIDE DEF taken
  <2> QED
    BY <1>2, <2>1, SendFields, FrameType DEF SameReceiving, AfterFrame
<1>5. CASE Kind(c, nr) = "close"
  <2>1. HandleFrame(c, k, nr, refused) = [taken EXCEPT !.send_and_close = TRUE]
    BY <1>5 DEF HandleFrame
  <2> HIDE DEF taken
  <2> QED
    BY <1>2, <1>5, <2>1 DEF Connections, AfterFrame
<1>6. CASE Kind(c, nr) = "command" /\ refused
  <2> DEFINE t == Send(taken, Item("text", nr, 0))
  <2>1. HandleFrame(c, k, nr, refused) =
          [t EXCEPT !.send_and_close = TRUE, !.broken = TRUE]
    BY <1>6 DEF HandleFrame
  <2>2. /\ t \in Connections /\ SameReceiving(taken, t)
        /\ t.send_mbuf = Append(taken.send_mbuf, Item("text", nr, 0))
        /\ t.file = taken.file
    <3> HIDE DEF taken
    <3> QED
      BY <1>2, <1>3, SendFields
  <2> HIDE DEF t, taken
  <2> QED
    BY <1>2, <2>1, <2>2 DEF SameReceiving, Connections, AfterFrame
<1>7. CASE Kind(c, nr) \notin {"initial_update", "close"} /\ ~(Kind(c, nr) = "command" /\ refused)
  <2>1. HandleFrame(c, k, nr, refused) = taken
    BY <1>7 DEF HandleFrame
  <2> HIDE DEF taken
  <2> QED
    BY <1>2, <2>1 DEF AfterFrame
<1> QED
  BY <1>4, <1>5, <1>6, <1>7

\* l is what k becomes when it takes a frame out of recv_mbuf and handles it.
AfterDelivery(c, k, nr, l) ==
  /\ l \in Connections
  /\ l.handled = Append(k.handled, nr)
  /\ l.recv_mbuf = Without(k.recv_mbuf, 2)
  /\ l.websocket = k.websocket
  /\ l.close_immediately = k.close_immediately
  /\ l.crossed = k.crossed /\ l.file = k.file
  /\ k.broken => l.broken
  /\ \/ l.send_mbuf = k.send_mbuf
     \/ l.send_mbuf = Append(k.send_mbuf, Frame)
     \/ l.send_mbuf = Append(k.send_mbuf, Item("text", nr, 0)) /\ l.broken
  /\ l.send_and_close =>
       \/ k.send_and_close \/ l.broken \/ Kind(c, nr) = "close"
       \/ l.recv_mbuf # <<>> /\ Kind(c, l.recv_mbuf[1].nr) = "close"

LEMMA DeliverFrameFields ==
  ASSUME NEW c, NEW k \in Connections, NEW nr \in Nat, NEW refused \in BOOLEAN,
         Whole(k)
  PROVE  AfterDelivery(c, k, nr, DeliverFrame(c, k, nr, refused))
<1> DEFINE j == [k EXCEPT !.recv_mbuf = Without(@, 2)]
           done == HandleFrame(c, j, nr, refused)
           l == DeliverFrame(c, k, nr, refused)
<1>1. /\ k.recv_mbuf \in Seq(Halves) /\ Len(k.recv_mbuf) \in Nat /\ 2 \in 0 .. Len(k.recv_mbuf)
  BY DEF Connections, Whole
<1>2. Without(k.recv_mbuf, 2) \in Seq(Halves)
  BY <1>1, WithoutFacts
<1>3. /\ j \in Connections /\ j.handled = k.handled
      /\ j.recv_mbuf = Without(k.recv_mbuf, 2) /\ j.websocket = k.websocket
      /\ j.close_immediately = k.close_immediately
      /\ j.crossed = k.crossed /\ j.broken = k.broken
      /\ j.file = k.file /\ j.send_mbuf = k.send_mbuf
      /\ j.send_and_close = k.send_and_close
  BY <1>2 DEF Connections
<1>4. l = [done EXCEPT !.send_and_close =
             @ \/ (done.recv_mbuf # <<>> /\ Kind(c, done.recv_mbuf[1].nr) = "close")]
  BY DEF DeliverFrame
<1> HIDE DEF l, j
<1>5. AfterFrame(c, j, nr, done)
  BY <1>3, FrameFields
<1> HIDE DEF done
<1>6. /\ l \in Connections
      /\ l.handled = done.handled /\ l.recv_mbuf = done.recv_mbuf
      /\ l.websocket = done.websocket /\ l.close_immediately = done.close_immediately
      /\ l.crossed = done.crossed /\ l.file = done.file /\ l.broken = done.broken
      /\ l.send_mbuf = done.send_mbuf
      /\ l.send_and_close =>
           \/ done.send_and_close
           \/ done.recv_mbuf # <<>> /\ Kind(c, done.recv_mbuf[1].nr) = "close"
  BY <1>4, <1>5 DEF Connections, AfterFrame
<1> QED
  BY <1>3, <1>5, <1>6 DEF l, AfterFrame, AfterDelivery

---------------------------------------------------------------------------
(* Every handler keeps Fine.                                               *)

LEMMA OrderlyFacts ==
  ASSUME TypeOK, NEW c \in Conns
  PROVE  /\ Len(script[c]) \in Nat
         /\ Len(script[c]) # 0 => Kind(c, 1) \in Requests
         /\ \A i \in 1 .. Len(script[c]) :
              /\ Kind(c, i) \in {"get_close", "action", "bad", "close"} => i = Len(script[c])
              /\ Kind(c, i) = "upgrade" => i = 1
              /\ Kind(c, i) = "get" /\ i # Len(script[c]) => Kind(c, i + 1) \in Requests
<1> DEFINE s == script[c]
<1>1. s \in Seq(Requests \cup Frames) /\ Orderly(s)
  BY WebConnectionsAssumption DEF TypeOK
<1> HIDE DEF s
<1>2. Len(s) \in Nat
  BY <1>1
<1>3. Len(s) # 0 => s[1] \in Requests
  BY <1>1 DEF Orderly
<1>4. ASSUME NEW i \in 1 .. Len(s), i # Len(s)
      PROVE  \/ s[i] = "get" /\ s[i + 1] \in Requests \ {"upgrade"}
             \/ s[i] \in {"upgrade", "initial_update", "command"} /\ s[i + 1] \in Frames
  <2>1. i \in 1 .. Len(s) - 1
    BY <1>2, <1>4
  <2> QED
    BY <1>1, <2>1 DEF Orderly
<1>5. ASSUME NEW i \in 1 .. Len(s), s[i] = "upgrade", i # 1
      PROVE  FALSE
  <2>1. i - 1 \in 1 .. Len(s) /\ i - 1 # Len(s) /\ i - 1 + 1 = i
    BY <1>2, <1>5
  <2>2. s[i] \in Requests \ {"upgrade"} \/ s[i] \in Frames
    BY <1>4, <2>1
  <2> QED
    BY <1>5, <2>2 DEF Frames
<1>6. \A i \in 1 .. Len(s) :
        /\ s[i] \in {"get_close", "action", "bad", "close"} => i = Len(s)
        /\ s[i] = "upgrade" => i = 1
        /\ s[i] = "get" /\ i # Len(s) => s[i + 1] \in Requests
  BY <1>4, <1>5
<1> QED
  BY <1>2, <1>3, <1>6 DEF s, Kind

LEMMA CountedFacts ==
  ASSUME TypeOK, NEW c \in Conns, NEW k \in Connections, NEW f \in Seq(Halves),
         Counted(c, k, f)
  PROVE  /\ Len(k.handled) \in Nat /\ Len(k.recv_mbuf) \in Nat /\ Len(f) \in Nat
         /\ sent[c] \in Nat /\ Len(script[c]) \in Nat
         /\ Len(k.handled) <= sent[c] /\ sent[c] <= Len(script[c])
         /\ Len(k.recv_mbuf) # 0 => /\ k.recv_mbuf[1].nr = Len(k.handled) + 1
                                    /\ Len(k.handled) + 1 <= sent[c]
         /\ Whole(k) => k.recv_mbuf[2].nr = Len(k.handled) + 1
<1>1. /\ Len(k.handled) \in Nat /\ Len(k.recv_mbuf) \in Nat /\ Len(f) \in Nat
      /\ sent[c] \in Nat /\ Len(script[c]) \in Nat /\ sent[c] <= Len(script[c])
  <2>1. k.handled \in Seq(Nat) /\ k.recv_mbuf \in Seq(Halves)
    BY DEF Connections
  <2>2. Len(script[c]) \in Nat
    BY OrderlyFacts
  <2>3. sent[c] \in Nat
    BY DEF TypeOK
  <2>4. sent[c] <= Len(script[c])
    BY DEF Counted
  <2> QED
    BY <2>1, <2>2, <2>3, <2>4, LenProperties
<1>2. 2 * Len(k.handled) + Len(k.recv_mbuf) + Len(f) = 2 * sent[c]
  BY DEF Counted
<1>3. \A a, b, d, e \in Nat : 2 * a + b + d = 2 * e => a <= e /\ (b # 0 => a + 1 <= e)
  OBVIOUS
<1>4. ASSUME NEW i \in {1, 2}, i <= Len(k.recv_mbuf)
      PROVE  k.recv_mbuf[i].nr = Len(k.handled) + 1
  <2>1. i \in 1 .. Len(k.recv_mbuf)
    BY <1>1, <1>4
  <2>2. k.recv_mbuf[i].nr \in Nat /\ k.recv_mbuf[i].part \in {1, 2}
    <3>1. k.recv_mbuf[i] \in Halves
      BY <2>1, ElementOfSeq DEF Connections
    <3> QED
      BY <3>1 DEF Halves
  <2>3. 2 * k.recv_mbuf[i].nr + k.recv_mbuf[i].part - 2 = 2 * Len(k.handled) + i
    BY <2>1 DEF Counted, Place
  <2>4. /\ k.recv_mbuf[i].part \in 1 .. 2 /\ k.recv_mbuf[i].part \in Int
        /\ i \in 1 .. 2 /\ i \in Int
    BY <2>2
  <2> QED
    <3> DEFINE a == k.recv_mbuf[i].nr
               d == Len(k.handled)
               q == k.recv_mbuf[i].part
    <3>1. a \in Int /\ d \in Int /\ q \in Int /\ q \in 1 .. 2 /\ 2 * a + q - 2 = 2 * d + i
      BY <1>1, <2>2, <2>3, <2>4
    <3> HIDE DEF a, d, q
    <3>2. a = d + 1
      BY <2>4, <3>1
    <3> QED
      BY <3>2 DEF a, d
<1>5. Len(k.recv_mbuf) # 0 => k.recv_mbuf[1].nr = Len(k.handled) + 1
  BY <1>1, <1>4
<1>6. Whole(k) => k.recv_mbuf[2].nr = Len(k.handled) + 1
  BY <1>1, <1>4 DEF Whole
<1> QED
  BY <1>1, <1>2, <1>3, <1>5, <1>6

\* The counting goes on when a message is handled.
LEMMA CountedNext ==
  ASSUME TypeOK, NEW c \in Conns, NEW k \in Connections, NEW f \in Seq(Halves),
         Counted(c, k, f), Whole(k), NEW l \in Connections,
         l.handled = Append(k.handled, Len(k.handled) + 1),
         l.recv_mbuf = Without(k.recv_mbuf, 2)
  PROVE  /\ Counted(c, l, f)
         /\ Len(l.handled) = Len(k.handled) + 1
         /\ Len(l.recv_mbuf) = Len(k.recv_mbuf) - 2
<1> DEFINE n == Len(k.handled)
           m == Len(k.recv_mbuf)
<1>1. n \in Nat /\ m \in Nat /\ m >= 2 /\ Len(f) \in Nat /\ sent[c] \in Nat
  BY CountedFacts DEF Whole
<1>2. /\ k.handled \in Seq(Nat) /\ k.recv_mbuf \in Seq(Halves)
  BY DEF Connections
<1>3. 2 \in 0 .. m
  BY <1>1
<1>4. /\ Len(l.recv_mbuf) = m - 2
      /\ \A i \in 1 .. m - 2 : l.recv_mbuf[i] = k.recv_mbuf[2 + i]
  <2>1. /\ Len(Without(k.recv_mbuf, 2)) = Len(k.recv_mbuf) - 2
        /\ \A i \in 1 .. Len(k.recv_mbuf) - 2 :
             Without(k.recv_mbuf, 2)[i] = k.recv_mbuf[2 + i]
    BY <1>2, <1>3, WithoutFacts
  <2> QED
    BY <2>1
<1>5. n + 1 \in Nat
  BY <1>1
<1>6. /\ Len(l.handled) = n + 1
      /\ \A i \in 1 .. n : l.handled[i] = k.handled[i]
      /\ l.handled[n + 1] = n + 1
  BY <1>2, <1>5, AppendProperties
<1>7. l.handled = [i \in 1 .. Len(l.handled) |-> i]
  <2>1. \A i \in 1 .. n : k.handled[i] = i
    <3>1. k.handled = [i \in 1 .. n |-> i]
      BY DEF Counted
    <3> HIDE DEF n
    <3> QED
      BY <3>1
  <2>2. \A i \in 1 .. n + 1 : l.handled[i] = i
    <3> SUFFICES ASSUME NEW i \in 1 .. n + 1 PROVE l.handled[i] = i
      OBVIOUS
    <3>1. i \in 1 .. n \/ i = n + 1
      BY <1>1
    <3> HIDE DEF n
    <3> QED
      BY <1>6, <2>1, <3>1
  <2>3. l.handled \in Seq(Nat)
    BY DEF Connections
  <2> HIDE DEF n
  <2> QED
    BY <1>6, <2>2, <2>3
<1>8. 2 * n + m + Len(f) = 2 * sent[c]
  BY DEF Counted
<1>9. 2 * (n + 1) + (m - 2) = 2 * n + m
  <2> HIDE DEF n, m
  <2> QED
    BY <1>1
<1>10. ASSUME NEW i \in 1 .. m - 2
       PROVE  Place(l.recv_mbuf[i]) = 2 * (n + 1) + i
  <2>0. \A a, b \in Nat : \A j \in 1 .. b - 2 :
          2 + j \in 1 .. b /\ 2 * a + (2 + j) = 2 * (a + 1) + j
    OBVIOUS
  <2>1. 2 + i \in 1 .. m /\ 2 * n + (2 + i) = 2 * (n + 1) + i
    BY <1>1, <2>0
  <2>2. Place(k.recv_mbuf[2 + i]) = 2 * n + (2 + i)
    BY <2>1 DEF Counted
  <2> HIDE DEF n, m
  <2> QED
    BY <1>4, <2>1, <2>2
<1>11. \A i \in 1 .. Len(f) : Place(f[i]) = 2 * n + m + i
  BY DEF Counted
<1> HIDE DEF n, m
<1>12. 2 * Len(l.handled) + Len(l.recv_mbuf) = 2 * n + m
  BY <1>4, <1>6, <1>9
<1>13. \A i \in 1 .. Len(l.recv_mbuf) : Place(l.recv_mbuf[i]) = 2 * Len(l.handled) + i
  BY <1>4, <1>6, <1>10
<1>14. \A i \in 1 .. Len(f) : Place(f[i]) = 2 * Len(l.handled) + Len(l.recv_mbuf) + i
  BY <1>11, <1>12
<1>15. sent[c] <= Len(script[c])
  BY DEF Counted
<1>16. 2 * Len(l.handled) + Len(l.recv_mbuf) + Len(f) = 2 * sent[c]
  BY <1>8, <1>12
<1>17. Counted(c, l, f)
  BY <1>7, <1>13, <1>14, <1>15, <1>16 DEF Counted
<1> QED
  BY <1>4, <1>6, <1>17 DEF n, m

---------------------------------------------------------------------------
(* What is sent and still to be sent, as one stream.                       *)

ToCome(k) == k.send_mbuf \o Pending(k)

LEMMA PendingPieces ==
  ASSUME NEW k \in Connections
  PROVE  /\ Pending(k) = Pieces(k.file.nr, FilePieces - k.file.left + 1, k.file.left)
         /\ Pending(k) \in Seq(Items)
         /\ ToCome(k) \in Seq(Items)
         /\ k.file.left = 0 => Pending(k) = <<>> /\ ToCome(k) = k.send_mbuf
<1> DEFINE nr == k.file.nr
           left == k.file.left
           first == FilePieces - left + 1
<1>1. FilePieces \in Nat /\ nr \in Nat /\ left \in 0 .. FilePieces /\ k.send_mbuf \in Seq(Items)
  BY WebConnectionsAssumption DEF Connections
<1>2. left \in Nat /\ first \in Nat /\ first # 0
  BY <1>1
<1>3. Pending(k) = [i \in 1 .. left |-> Item("piece", nr, FilePieces - left + i)]
  BY DEF Pending
<1> HIDE DEF nr, left
<1>4. \A i \in 1 .. left : FilePieces - left + i = first + i - 1
  BY <1>1, <1>2
<1> HIDE DEF first
<1>5. Pending(k) = Pieces(nr, first, left)
  BY <1>3, <1>4 DEF Pieces
<1>6. Pieces(nr, first, left) \in Seq(Items)
  BY <1>1, <1>2, PiecesFacts DEF ArePieces
<1>7. ToCome(k) \in Seq(Items)
  BY <1>1, <1>5, <1>6, ConcatProperties DEF ToCome
<1>8. ASSUME left = 0 PROVE Pending(k) = <<>> /\ ToCome(k) = k.send_mbuf
  <2>1. Pending(k) = <<>>
    BY <1>3, <1>8
  <2> QED
    BY <1>1, <2>1, ConcatEmptySeq DEF ToCome
<1> QED
  BY <1>5, <1>6, <1>7, <1>8 DEF nr, left, first

LEMMA Associative ==
  ASSUME NEW s \in Seq(Items), NEW t \in Seq(Items), NEW u \in Seq(Items)
  PROVE  /\ (s \o t) \o u = s \o (t \o u)
         /\ s \o t \in Seq(Items)
BY ConcatAssociative, ConcatProperties

AddsUp(a, b, sum) == sum = a + b

Joined(nr, first, n, next, m, all) ==
  Pieces(nr, first, n) \o Pieces(nr, next, m) = Pieces(nr, first, all)

LEMMA PiecesSplit ==
  ASSUME NEW nr \in Nat, NEW first \in Nat, first # 0, NEW n \in Nat, NEW m \in Nat,
         NEW next \in Nat, AddsUp(first, n, next), NEW all \in Nat, AddsUp(n, m, all)
  PROVE  Joined(nr, first, n, next, m, all)
<1> DEFINE a == Pieces(nr, first, n)
           b == Pieces(nr, next, m)
           d == Pieces(nr, first, all)
<1>1. /\ a \in Seq(Items) /\ Len(a) = n
      /\ \A i \in 1 .. n : a[i] = [kind |-> "piece", nr |-> nr, piece |-> first + i - 1]
  <2>1. ArePieces(a, nr, first, n)
    BY PiecesFacts
  <2> QED
    BY <2>1 DEF ArePieces
<1>2. next = first + n /\ all = n + m /\ next # 0
  BY DEF AddsUp
<1>3. /\ b \in Seq(Items) /\ Len(b) = m
      /\ \A i \in 1 .. m : b[i] = [kind |-> "piece", nr |-> nr, piece |-> next + i - 1]
  <2>1. ArePieces(b, nr, next, m)
    BY <1>2, PiecesFacts
  <2> QED
    BY <2>1 DEF ArePieces
<1>4. /\ d \in Seq(Items) /\ Len(d) = all
      /\ \A i \in 1 .. all : d[i] = [kind |-> "piece", nr |-> nr, piece |-> first + i - 1]
  <2>1. ArePieces(d, nr, first, all)
    BY <1>2, PiecesFacts
  <2> QED
    BY <2>1 DEF ArePieces
<1> HIDE DEF a, b, d
<1>5. /\ a \o b \in Seq(Items) /\ Len(a \o b) = all
      /\ \A i \in 1 .. all : (a \o b)[i] = IF i <= n THEN a[i] ELSE b[i - n]
  <2>1. /\ a \o b \in Seq(Items) /\ Len(a \o b) = n + m
        /\ \A i \in 1 .. n + m : (a \o b)[i] = IF i <= n THEN a[i] ELSE b[i - n]
    BY <1>1, <1>3, ConcatProperties
  <2> QED
    BY <1>2, <2>1
<1>6. ASSUME NEW i \in 1 .. all PROVE (a \o b)[i] = d[i]
  <2>1. CASE i <= n
    <3>1. i \in 1 .. n
      BY <1>2, <2>1
    <3> QED
      BY <1>1, <1>4, <1>5, <2>1, <3>1
  <2>2. CASE ~(i <= n)
    <3>1. i - n \in 1 .. m /\ next + (i - n) - 1 = first + i - 1
      BY <1>2, <2>2
    <3> QED
      BY <1>3, <1>4, <1>5, <2>2, <3>1
  <2> QED
    BY <2>1, <2>2
<1>7. a \o b = d
  BY <1>4, <1>5, <1>6, SeqEqual
<1> QED
  BY <1>7 DEF a, b, d, Joined

\* Moving pieces of the file to send_mbuf leaves what is to come as it was.
LEMMA TransferStream ==
  ASSUME NEW c, NEW k \in Connections, NEW l, AfterTransfer(c, k, l)
  PROVE  ToCome(l) = ToCome(k)
<1> DEFINE nr == k.file.nr
           left == k.file.left
           first == FilePieces - left + 1
<1>1. /\ FilePieces \in Nat /\ nr \in Nat /\ left \in 0 .. FilePieces
      /\ k.send_mbuf \in Seq(Items) /\ l \in Connections
  BY WebConnectionsAssumption DEF Connections, AfterTransfer
<1>2. CASE l = k
  BY <1>2
<1>3. ASSUME NEW n \in 0 .. left,
             l.send_mbuf = k.send_mbuf \o Pieces(nr, first, n),
             l.file = [nr |-> nr, left |-> left - n]
      PROVE  ToCome(l) = ToCome(k)
  <2>1. /\ n \in Nat /\ left - n \in Nat /\ first \in Nat /\ first # 0
        /\ FilePieces - (left - n) + 1 = first + n /\ n + (left - n) = left
        /\ first + n \in Nat /\ first + n # 0
    <3> HIDE DEF nr, left
    <3> QED
      BY <1>1
  <2>2. l.file.nr = nr /\ l.file.left = left - n
    BY <1>3
  <2>3. Pending(l) = Pieces(nr, first + n, left - n)
    BY <1>1, <2>1, <2>2, PendingPieces
  <2>4. Pending(k) = Pieces(nr, first, left)
    BY PendingPieces
  <2> HIDE DEF nr, left, first
  <2> DEFINE a == Pieces(nr, first, n)
             b == Pieces(nr, first + n, left - n)
  <2>5. a \in Seq(Items) /\ b \in Seq(Items)
    BY <1>1, <2>1, PiecesFacts DEF ArePieces
  <2>6. a \o b = Pieces(nr, first, left)
    <3> DEFINE m == left - n
               next == first + n
    <3>1. /\ m \in Nat /\ left \in Nat /\ AddsUp(n, m, left)
          /\ next \in Nat /\ AddsUp(first, n, next)
          /\ nr \in Nat /\ first \in Nat /\ first # 0 /\ n \in Nat
      BY <1>1, <2>1 DEF AddsUp
    <3> HIDE DEF m, next
    <3>2. Pieces(nr, first, n) \o Pieces(nr, next, m) = Pieces(nr, first, left)
      <4>1. Joined(nr, first, n, next, m, left)
        BY <3>1, PiecesSplit
      <4> QED
        BY <4>1 DEF Joined
    <3> QED
      BY <3>2 DEF m, next
  <2> HIDE DEF a, b
  <2>7. (k.send_mbuf \o a) \o b = k.send_mbuf \o (a \o b)
    BY <1>1, <2>5, Associative
  <2> QED
    BY <1>3, <2>3, <2>4, <2>6, <2>7 DEF ToCome, a, b
<1>4. ASSUME left = 0, l.send_mbuf = k.send_mbuf, l.file = NoFile
      PROVE  ToCome(l) = ToCome(k)
  <2>1. l.file.left = 0
    BY <1>4 DEF NoFile
  <2> QED
    BY <1>1, <1>4, <2>1, PendingPieces
<1> QED
  BY <1>2, <1>3, <1>4 DEF AfterTransfer

LEMMA StreamToCome ==
  ASSUME NEW k \in Connections, NEW got \in Seq(Items)
  PROVE  /\ got \o k.send_mbuf \o Pending(k) = got \o ToCome(k)
         /\ got \o ToCome(k) \in Seq(Items)
<1>1. k.send_mbuf \in Seq(Items) /\ Pending(k) \in Seq(Items) /\ ToCome(k) \in Seq(Items)
  BY PendingPieces DEF Connections
<1> QED
  BY <1>1, Associative DEF ToCome

LEMMA AnswerType ==
  ASSUME NEW c, NEW nr \in Nat
  PROVE  /\ Answer(c, nr) \in Seq(Items)
         /\ Kind(c, nr) \in {"get", "get_close"} =>
              Answer(c, nr) = <<Item("head", nr, 0)>> \o Pieces(nr, 1, FilePieces)
         /\ Kind(c, nr) = "action" => Answer(c, nr) = <<Item("reply", nr, 0)>>
         /\ Kind(c, nr) = "upgrade" => Answer(c, nr) = <<Item("handshake", nr, 0)>>
<1>1. FilePieces \in Nat
  BY WebConnectionsAssumption
<1>2. /\ <<Item("head", nr, 0)>> \in Seq(Items) /\ <<Item("reply", nr, 0)>> \in Seq(Items)
      /\ <<Item("handshake", nr, 0)>> \in Seq(Items) /\ <<>> \in Seq(Items)
  BY DEF Item, Items
<1>3. [i \in 1 .. FilePieces |-> Item("piece", nr, i)] = Pieces(nr, 1, FilePieces)
  <2>1. \A i \in 1 .. FilePieces : 1 + i - 1 = i
    BY <1>1
  <2> QED
    BY <2>1 DEF Pieces
<1>4. <<Item("head", nr, 0)>> \o Pieces(nr, 1, FilePieces) \in Seq(Items)
  BY <1>1, <1>2, PiecesFacts, ConcatProperties DEF ArePieces
<1>5. CASE Kind(c, nr) \in {"get", "get_close"}
  <2>1. Answer(c, nr) = <<Item("head", nr, 0)>> \o Pieces(nr, 1, FilePieces)
    BY <1>3, <1>5 DEF Answer
  <2> QED
    BY <1>4, <1>5, <2>1
<1>6. CASE Kind(c, nr) = "action"
  <2>1. Answer(c, nr) = <<Item("reply", nr, 0)>>
    BY <1>6 DEF Answer
  <2> QED
    BY <1>2, <1>6, <2>1
<1>7. CASE Kind(c, nr) = "upgrade"
  <2>1. Answer(c, nr) = <<Item("handshake", nr, 0)>>
    BY <1>7 DEF Answer
  <2> QED
    BY <1>2, <1>7, <2>1
<1>8. CASE Kind(c, nr) \notin {"get", "get_close", "action", "upgrade"}
  <2>1. Answer(c, nr) = <<>>
    BY <1>8 DEF Answer
  <2> QED
    BY <1>2, <1>8, <2>1
<1> QED
  BY <1>5, <1>6, <1>7, <1>8

\* The answers are those before and the one to the message handled last.
LEMMA AnswersNext ==
  ASSUME NEW c, NEW k \in Connections, NEW l, NEW nr \in Nat,
         l.handled = Append(k.handled, nr)
  PROVE  /\ Answers(c, k) \in Seq(Items)
         /\ Answers(c, l) = Answers(c, k) \o Answer(c, nr)
<1> DEFINE h == k.handled
           ss == [i \in 1 .. Len(h) |-> Answer(c, h[i])]
           tt == [i \in 1 .. Len(Append(h, nr)) |-> Answer(c, Append(h, nr)[i])]
<1>1. h \in Seq(Nat) /\ Len(h) \in Nat
  BY DEF Connections
<1> HIDE DEF h
<1>2. /\ Append(h, nr) \in Seq(Nat) /\ Len(Append(h, nr)) = Len(h) + 1
      /\ \A i \in 1 .. Len(h) : Append(h, nr)[i] = h[i]
      /\ Append(h, nr)[Len(h) + 1] = nr
  BY <1>1, AppendProperties
<1>3. DOMAIN h = 1 .. Len(h) /\ DOMAIN Append(h, nr) = 1 .. Len(Append(h, nr))
  BY <1>1, <1>2, LenProperties
<1>4. Answers(c, k) = FlattenSeq(ss) /\ Answers(c, l) = FlattenSeq(tt)
  BY <1>3 DEF Answers, h
<1>5. \A i \in 1 .. Len(h) : Answer(c, h[i]) \in Seq(Items)
  BY <1>1, ElementOfSeq, AnswerType
<1>6. ss \in [1 .. Len(h) -> Seq(Items)]
  BY <1>5
<1>7. ss \in Seq(Seq(Items)) /\ Len(ss) = Len(h)
  <2> HIDE DEF ss
  <2> QED
    BY <1>1, <1>6
<1>8. Answer(c, nr) \in Seq(Items)
  BY AnswerType
<1>9. tt = Append(ss, Answer(c, nr))
  <2> DEFINE uu == Append(ss, Answer(c, nr))
  <2>1. /\ uu \in Seq(Seq(Items)) /\ Len(uu) = Len(h) + 1
        /\ \A i \in 1 .. Len(h) : uu[i] = ss[i]
        /\ uu[Len(h) + 1] = Answer(c, nr)
    <3> HIDE DEF ss
    <3> QED
      BY <1>7, <1>8, AppendProperties
  <2>2. uu = [i \in 1 .. Len(h) + 1 |-> uu[i]]
    <3> HIDE DEF uu
    <3> QED
      BY <2>1
  <2>3. \A i \in 1 .. Len(h) : uu[i] = Answer(c, Append(h, nr)[i])
    <3> HIDE DEF uu
    <3> QED
      BY <1>2, <2>1
  <2>4. uu[Len(h) + 1] = Answer(c, Append(h, nr)[Len(h) + 1])
    BY <1>2, <2>1
  <2> HIDE DEF uu, ss
  <2>5. \A i \in 1 .. Len(h) + 1 : uu[i] = Answer(c, Append(h, nr)[i])
    <3>1. \A i \in 1 .. Len(h) + 1 : i \in 1 .. Len(h) \/ i = Len(h) + 1
      BY <1>1
    <3> QED
      BY <2>3, <2>4, <3>1
  <2> QED
    BY <1>2, <2>2, <2>5 DEF uu
<1> HIDE DEF ss, tt
<1> QED
  BY <1>4, <1>7, <1>8, <1>9, FlattenAppend

\* Who answered the same messages has the same stream.
LEMMA SensibleSame ==
  ASSUME NEW c, NEW k, NEW l, l.websocket = k.websocket, l.handled = k.handled,
         NEW stream
  PROVE  Sensible(c, l, stream) <=> Sensible(c, k, stream)
<1>1. Answers(c, l) = Answers(c, k)
  <2>1. [i \in DOMAIN l.handled |-> Answer(c, l.handled[i])] =
        [i \in DOMAIN k.handled |-> Answer(c, k.handled[i])]
    OBVIOUS
  <2> QED
    BY <2>1 DEF Answers
<1> QED
  BY <1>1 DEF Sensible

\* What is in a concatenation is in one of its parts.
InEither(u, s, t) ==
  \A i \in 1 .. Len(u) :
    \/ \E j \in 1 .. Len(s) : u[i] = s[j]
    \/ \E j \in 1 .. Len(t) : u[i] = t[j]

LEMMA ElementsOfConcat ==
  ASSUME NEW S, NEW s \in Seq(S), NEW t \in Seq(S)
  PROVE  InEither(s \o t, s, t)
<1> SUFFICES ASSUME NEW i \in 1 .. Len(s \o t)
             PROVE  \/ \E j \in 1 .. Len(s) : (s \o t)[i] = s[j]
                    \/ \E j \in 1 .. Len(t) : (s \o t)[i] = t[j]
  BY DEF InEither
<1>1. Len(s) \in Nat /\ Len(t) \in Nat
  BY LenProperties
<1>2. /\ Len(s \o t) = Len(s) + Len(t)
      /\ \A j \in 1 .. Len(s) + Len(t) :
           (s \o t)[j] = IF j <= Len(s) THEN s[j] ELSE t[j - Len(s)]
  BY ConcatProperties
<1>3. i \in Int /\ 1 <= i /\ i <= Len(s) + Len(t)
  BY <1>1, <1>2
<1>4. CASE i <= Len(s)
  BY <1>1, <1>2, <1>3, <1>4
<1>5. CASE ~(i <= Len(s))
  <2>1. i - Len(s) \in 1 .. Len(t)
    BY <1>1, <1>3, <1>5
  <2> QED
    BY <1>1, <1>2, <1>3, <1>5, <2>1
<1> QED
  BY <1>4, <1>5

\* A half sentence for the many lemmas that follow.
Still(c, l, f, got) == l \in Connections /\ Fine(c, l, f, got)

LEMMA TransferFine ==
  ASSUME TypeOK, NEW c \in Conns, NEW k \in Connections, NEW f \in Seq(Halves),
         NEW got \in Seq(Items), Fine(c, k, f, got), NEW l, AfterTransfer(c, k, l)
  PROVE  Still(c, l, f, got)
<1> DEFINE n == Len(k.handled)
           nr == k.file.nr
           left == k.file.left
           first == FilePieces - left + 1
<1>1. /\ l \in Connections
      /\ l.recv_mbuf = k.recv_mbuf /\ l.websocket = k.websocket
      /\ l.close_immediately = k.close_immediately
      /\ l.handled = k.handled /\ l.crossed = k.crossed /\ l.broken = k.broken
  BY DEF AfterTransfer, SameReceiving
<1>2. /\ FilePieces \in Nat /\ nr \in Nat /\ left \in 0 .. FilePieces
      /\ k.send_mbuf \in Seq(Items) /\ n \in Nat /\ sent[c] \in Nat /\ Len(script[c]) \in Nat
      /\ n <= sent[c] /\ sent[c] <= Len(script[c])
  <2>1. Counted(c, k, f)
    BY DEF Fine
  <2> QED
    BY <2>1, CountedFacts, WebConnectionsAssumption DEF Connections
<1>3. CASE l = k
  BY <1>3 DEF Still
<1>4. ASSUME NEW m \in 0 .. left, nr # 0,
             l.send_mbuf = k.send_mbuf \o Pieces(nr, first, m),
             l.file = [nr |-> nr, left |-> left - m],
             l.send_and_close = k.send_and_close
      PROVE  /\ OfHandled(l, l.send_mbuf) /\ PiecesBefore(l, got)
             /\ PiecesBefore(l, l.send_mbuf) /\ FileOfLast(c, l) /\ NothingLeft(c, l)
  <2> DEFINE b == Pieces(nr, first, m)
  <2> HIDE DEF n, nr, left
  <2>1. /\ m \in Nat /\ first \in Nat /\ first # 0
    BY <1>2, <1>4
  <2>2. /\ b \in Seq(Items) /\ Len(b) = m
        /\ \A i \in 1 .. m : b[i].kind = "piece" /\ b[i].nr = nr /\ b[i].piece = first + i - 1
    <3> HIDE DEF first
    <3>1. ArePieces(b, nr, first, m)
      BY <1>2, <2>1, PiecesFacts
    <3> HIDE DEF b
    <3>2. \A i \in 1 .. m : b[i] = [kind |-> "piece", nr |-> nr, piece |-> first + i - 1]
      BY <3>1 DEF ArePieces
    <3> QED
      BY <3>1, <3>2 DEF ArePieces
  <2>0. l.send_mbuf = k.send_mbuf \o b
    BY <1>4
  <2> HIDE DEF b
  <2>4. ASSUME NEW i \in 1 .. Len(l.send_mbuf)
        PROVE  \/ \E j \in 1 .. Len(k.send_mbuf) : l.send_mbuf[i] = k.send_mbuf[j]
               \/ \E j \in 1 .. m : l.send_mbuf[i] = b[j]
    <3>1. InEither(l.send_mbuf, k.send_mbuf, b)
      BY <1>2, <2>0, <2>2, ElementsOfConcat
    <3> QED
      BY <2>2, <3>1 DEF InEither
  <2>5. l.file.nr = nr /\ l.file.left = left - m
    BY <1>4
  <2>6. FileOfLast(c, k) /\ OfHandled(k, k.send_mbuf)
        /\ PiecesBefore(k, k.send_mbuf) /\ PiecesBefore(k, got) /\ NothingLeft(c, k)
    BY DEF Fine
  <2>7. FileOfLast(c, l)
    BY <1>1, <1>2, <1>4, <2>5, <2>6 DEF FileOfLast, n, nr, left
  <2>8. OfHandled(l, l.send_mbuf)
    <3>1. nr \in 1 .. n
      BY <1>4, <2>6 DEF FileOfLast, n, nr
    <3>2. \A i \in 1 .. m : b[i].kind # "handshake" /\ b[i].nr \in 1 .. n
      BY <2>2, <3>1
    <3> QED
      BY <1>1, <2>4, <2>6, <3>2 DEF OfHandled, n
  <2>9. \A i \in Int : i <= FilePieces - left => i <= FilePieces - (left - m)
    BY <1>2, <2>1
  <2>10. PiecesBefore(l, got)
    <3> SUFFICES ASSUME NEW i \in 1 .. Len(got), got[i].kind = "piece", got[i].nr = l.file.nr
                 PROVE  got[i].piece <= FilePieces - l.file.left
      BY DEF PiecesBefore
    <3>1. got[i].piece \in Nat
      <4>1. got[i] \in Items
        BY ElementOfSeq
      <4> QED
        BY <4>1 DEF Items
    <3>2. got[i].piece <= FilePieces - left
      BY <2>5, <2>6 DEF PiecesBefore, left, nr
    <3> QED
      BY <2>5, <2>9, <3>1, <3>2
  <2>11. PiecesBefore(l, l.send_mbuf)
    <3> SUFFICES ASSUME NEW i \in 1 .. Len(l.send_mbuf),
                        l.send_mbuf[i].kind = "piece", l.send_mbuf[i].nr = l.file.nr
                 PROVE  l.send_mbuf[i].piece <= FilePieces - l.file.left
      BY DEF PiecesBefore
    <3>1. ASSUME NEW j \in 1 .. Len(k.send_mbuf), l.send_mbuf[i] = k.send_mbuf[j]
          PROVE  l.send_mbuf[i].piece <= FilePieces - l.file.left
      <4>1. k.send_mbuf[j].piece \in Nat
        <5>1. k.send_mbuf[j] \in Items
          BY <1>2, ElementOfSeq
        <5> QED
          BY <5>1 DEF Items
      <4>2. k.send_mbuf[j].piece <= FilePieces - left
        BY <2>5, <2>6, <3>1 DEF PiecesBefore, left, nr
      <4> QED
        BY <2>5, <2>9, <3>1, <4>1, <4>2
    <3>2. ASSUME NEW j \in 1 .. m, l.send_mbuf[i] = b[j]
          PROVE  l.send_mbuf[i].piece <= FilePieces - l.file.left
      <4>1. b[j].piece = first + j - 1
        BY <2>2
      <4>2. first + j - 1 <= FilePieces - (left - m)
        BY <1>2, <2>1
      <4> QED
        BY <2>5, <3>2, <4>1, <4>2
    <3> QED
      BY <2>4, <3>1, <3>2
  <2>12. NothingLeft(c, l)
    <3>1. left = 0 => left - m = 0
      <4>1. \A x, y \in Int : 0 <= y /\ y <= x /\ x = 0 => x - y = 0
        OBVIOUS
      <4>2. left \in Int /\ m \in Int /\ 0 <= m /\ m <= left
        BY <1>2
      <4> QED
        BY <4>1, <4>2
    <3> QED
      BY <1>1, <1>4, <2>5, <2>6, <3>1 DEF NothingLeft, left
  <2> QED
    BY <2>7, <2>8, <2>10, <2>11, <2>12
<1>5. ASSUME nr # 0, left = 0, l.send_mbuf = k.send_mbuf, l.file = NoFile,
             l.send_and_close = (k.send_and_close \/ Kind(c, nr) = "get_close")
      PROVE  /\ OfHandled(l, l.send_mbuf) /\ PiecesBefore(l, got)
             /\ PiecesBefore(l, l.send_mbuf) /\ FileOfLast(c, l) /\ NothingLeft(c, l)
  <2>1. l.file.nr = 0 /\ l.file.left = 0
    BY <1>5 DEF NoFile
  <2>2. /\ FileOfLast(c, k) /\ OfHandled(k, k.send_mbuf) /\ OfHandled(k, got)
        /\ NothingLeft(c, k)
    BY DEF Fine
  <2>3. OfHandled(l, l.send_mbuf) /\ FileOfLast(c, l)
    BY <1>1, <1>5, <2>1, <2>2 DEF OfHandled, FileOfLast
  <2>4. ASSUME NEW s, OfHandled(k, s)
        PROVE  PiecesBefore(l, s)
    BY <1>2, <2>1, <2>4 DEF OfHandled, PiecesBefore
  <2>5. NothingLeft(c, l)
    <3>1. CASE k.send_and_close \/ k.close_immediately
      BY <1>1, <1>5, <2>1, <2>2, <3>1 DEF NothingLeft
    <3>2. CASE Kind(c, nr) = "get_close"
      <4>1. nr \in 1 .. n
        BY <1>5, <2>2 DEF FileOfLast
      <4>2. nr \in 1 .. Len(script[c])
        BY <1>2, <4>1
      <4>3. nr = Len(script[c])
        BY <3>2, <4>2, OrderlyFacts
      <4>4. sent[c] = Len(script[c]) /\ sent[c] = n
        BY <1>2, <4>1, <4>3
      <4> QED
        BY <1>1, <2>1, <4>4 DEF NothingLeft
    <3> QED
      BY <1>1, <1>5, <3>1, <3>2 DEF NothingLeft
  <2> QED
    BY <1>5, <2>2, <2>3, <2>4, <2>5
<1>6. ASSUME /\ OfHandled(l, l.send_mbuf) /\ PiecesBefore(l, got)
             /\ PiecesBefore(l, l.send_mbuf) /\ FileOfLast(c, l) /\ NothingLeft(c, l)
      PROVE  Still(c, l, f, got)
  <2>1. Counted(c, l, f) /\ OneRequest(c, l) /\ OfHandled(l, got)
    BY <1>1 DEF Fine, Counted, OneRequest, OfHandled
  <2>2. Intact(c, l, got)
    <3>1. got \o l.send_mbuf \o Pending(l) = got \o k.send_mbuf \o Pending(k)
      <4>1. /\ got \o l.send_mbuf \o Pending(l) = got \o ToCome(l)
            /\ got \o k.send_mbuf \o Pending(k) = got \o ToCome(k)
        BY <1>1, StreamToCome
      <4> QED
        BY <4>1, TransferStream
    <3>2. Sensible(c, l, got \o k.send_mbuf \o Pending(k)) <=>
            Sensible(c, k, got \o k.send_mbuf \o Pending(k))
      BY <1>1, SensibleSame
    <3> QED
      BY <1>1, <3>1, <3>2 DEF Fine, Intact
  <2> QED
    BY <1>1, <1>6, <2>1, <2>2 DEF Fine, Still
<1> QED
  BY <1>3, <1>4, <1>5, <1>6 DEF AfterTransfer

LEMMA ElementsOfAppend ==
  ASSUME NEW S, NEW s \in Seq(S), NEW x \in S, NEW i \in 1 .. Len(Append(s, x))
  PROVE  \/ \E j \in 1 .. Len(s) : Append(s, x)[i] = s[j]
         \/ Append(s, x)[i] = x
<1>1. /\ Len(Append(s, x)) = Len(s) + 1 /\ Len(s) \in Nat
      /\ \A j \in 1 .. Len(s) : Append(s, x)[j] = s[j]
      /\ Append(s, x)[Len(s) + 1] = x
  BY AppendProperties, LenProperties
<1>2. i \in 1 .. Len(s) \/ i = Len(s) + 1
  BY <1>1
<1> QED
  BY <1>1, <1>2

LEMMA ConcatAppend ==
  ASSUME NEW s \in Seq(Items), NEW t \in Seq(Items), NEW x \in Items
  PROVE  /\ s \o Append(t, x) = Append(s \o t, x)
         /\ Append(t, x) = t \o <<x>> /\ <<x>> \in Seq(Items)
<1>1. <<x>> \in Seq(Items)
  OBVIOUS
<1>2. s \o t \in Seq(Items) /\ (s \o t) \o <<x>> = s \o (t \o <<x>>)
  BY <1>1, Associative
<1>3. Append(t, x) = t \o <<x>>
  BY AppendIsConcat
<1>4. Append(s \o t, x) = (s \o t) \o <<x>>
  BY <1>2, AppendIsConcat
<1> QED
  BY <1>1, <1>2, <1>3, <1>4

\* One item more to send.
LEMMA OneMore ==
  ASSUME NEW l, NEW s \in Seq(Items), NEW x \in Items
  PROVE  /\ OfHandled(l, s) /\ (x.kind # "frame" => x.nr \in 1 .. Len(l.handled))
            /\ (x.kind = "handshake" => l.websocket) => OfHandled(l, Append(s, x))
         /\ PiecesBefore(l, s) /\ x.kind # "piece" => PiecesBefore(l, Append(s, x))
<1>1. ASSUME OfHandled(l, s), x.kind # "frame" => x.nr \in 1 .. Len(l.handled),
             x.kind = "handshake" => l.websocket
      PROVE  OfHandled(l, Append(s, x))
  BY <1>1, ElementsOfAppend DEF OfHandled
<1>2. ASSUME PiecesBefore(l, s), x.kind # "piece"
      PROVE  PiecesBefore(l, Append(s, x))
  BY <1>2, ElementsOfAppend DEF PiecesBefore
<1> QED
  BY <1>1, <1>2

\* More messages are handled.
LEMMA MoreHandled ==
  ASSUME NEW k \in Connections, NEW l, Len(l.handled) = Len(k.handled) + 1,
         k.websocket => l.websocket, NEW s
  PROVE  OfHandled(k, s) => OfHandled(l, s)
<1>1. Len(k.handled) \in Nat
  BY DEF Connections
<1>2. \A nr : nr \in 1 .. Len(k.handled) => nr \in 1 .. Len(l.handled)
  BY <1>1
<1> QED
  BY <1>2 DEF OfHandled

\* A frame after what makes sense on a websocket makes sense.
LEMMA SensibleFrame ==
  ASSUME NEW c, NEW k, k.websocket, NEW l, l.websocket, NEW s \in Seq(Items),
         Sensible(c, k, s)
  PROVE  Sensible(c, l, s) /\ Sensible(c, l, Append(s, Frame))
<1>1. /\ s # <<>> /\ s[1] = Item("handshake", 1, 0)
      /\ \A i \in 2 .. Len(s) : s[i] = Frame
  BY DEF Sensible
<1>2. /\ Append(s, Frame) \in Seq(Items) /\ Len(Append(s, Frame)) = Len(s) + 1
      /\ \A j \in 1 .. Len(s) : Append(s, Frame)[j] = s[j]
      /\ Append(s, Frame)[Len(s) + 1] = Frame
  BY FrameType, AppendProperties
<1>3. Len(s) \in Nat /\ Len(s) # 0
  BY <1>1, EmptySeq, LenProperties
<1>4. Append(s, Frame) # <<>> /\ Append(s, Frame)[1] = s[1]
  <2>1. 1 \in 1 .. Len(s)
    BY <1>3
  <2> QED
    BY <1>2, <1>3, <2>1
<1>5. ASSUME NEW i \in 2 .. Len(Append(s, Frame))
      PROVE  Append(s, Frame)[i] = Frame
  <2>1. i \in 2 .. Len(s) \/ i = Len(s) + 1
    BY <1>2, <1>3
  <2>2. i \in 2 .. Len(s) => i \in 1 .. Len(s)
    BY <1>3
  <2> QED
    BY <1>1, <1>2, <2>1, <2>2
<1> QED
  BY <1>1, <1>4, <1>5 DEF Sensible

\* A frame that is pushed: by broadcast, to whomever, or as a ping.
AfterPush(k, l) ==
  /\ l.recv_mbuf = k.recv_mbuf /\ l.websocket = k.websocket
  /\ l.close_immediately = k.close_immediately /\ l.send_and_close = k.send_and_close
  /\ l.handled = k.handled /\ l.broken = k.broken /\ l.file = k.file
  /\ l.crossed = (k.crossed \/ ~k.websocket)
  /\ l.send_mbuf = Append(k.send_mbuf, Frame)

LEMMA PushFine ==
  ASSUME TypeOK, NEW c \in Conns, NEW k \in Connections, NEW f \in Seq(Halves),
         NEW got \in Seq(Items), Fine(c, k, f, got), NEW l \in Connections, AfterPush(k, l)
  PROVE  Still(c, l, f, got)
<1>1. /\ l.recv_mbuf = k.recv_mbuf /\ l.websocket = k.websocket
      /\ l.close_immediately = k.close_immediately /\ l.send_and_close = k.send_and_close
      /\ l.handled = k.handled /\ l.broken = k.broken /\ l.file = k.file
      /\ l.crossed = (k.crossed \/ ~k.websocket)
      /\ l.send_mbuf = Append(k.send_mbuf, Frame)
  BY DEF AfterPush
<1>2. k.send_mbuf \in Seq(Items) /\ Frame \in Items
  BY FrameType DEF Connections
<1>3. /\ Counted(c, l, f) /\ OneRequest(c, l) /\ OfHandled(l, got) /\ PiecesBefore(l, got)
      /\ FileOfLast(c, l) /\ NothingLeft(c, l)
      /\ OfHandled(l, k.send_mbuf) /\ PiecesBefore(l, k.send_mbuf)
  BY <1>1 DEF Fine, Counted, OneRequest, OfHandled, PiecesBefore, FileOfLast, NothingLeft
<1>4. OfHandled(l, l.send_mbuf) /\ PiecesBefore(l, l.send_mbuf)
  <2>1. Frame.kind = "frame"
    BY DEF Frame, Item
  <2> QED
    BY <1>1, <1>2, <1>3, <2>1, OneMore
<1>5. Intact(c, l, got)
  <2> SUFFICES ASSUME ~l.crossed, ~l.broken, ~shut[c]
               PROVE  Sensible(c, l, got \o l.send_mbuf \o Pending(l))
    BY DEF Intact
  <2>1. k.websocket /\ ~k.crossed /\ ~k.broken
    BY <1>1
  <2>2. k.file.left = 0
    BY <2>1 DEF Fine, FileOfLast
  <2>3. Pending(k) = <<>> /\ Pending(l) = <<>>
    BY <1>1, <2>2, PendingPieces
  <2>4. got \o k.send_mbuf \in Seq(Items) /\ got \o l.send_mbuf \in Seq(Items)
    BY <1>1, <1>2, AppendProperties, ConcatProperties
  <2>5. Sensible(c, k, got \o k.send_mbuf)
    <3>1. Sensible(c, k, got \o k.send_mbuf \o Pending(k))
      BY <2>1 DEF Fine, Intact
    <3> QED
      BY <2>3, <2>4, <3>1, ConcatEmptySeq
  <2>6. Sensible(c, l, Append(got \o k.send_mbuf, Frame))
    BY <1>1, <2>1, <2>4, <2>5, SensibleFrame
  <2>7. Append(got \o k.send_mbuf, Frame) = got \o l.send_mbuf
    BY <1>1, <1>2, ConcatAppend
  <2> QED
    BY <2>3, <2>4, <2>6, <2>7, ConcatEmptySeq
<1> QED
  BY <1>3, <1>4, <1>5 DEF Fine, Still

\* The message that is handled next.
NextOf(k, nr) == nr \in Nat /\ nr = Len(k.handled) + 1

LEMMA FrameFine ==
  ASSUME TypeOK, NEW c \in Conns, NEW k \in Connections, NEW f \in Seq(Halves),
         NEW got \in Seq(Items), Fine(c, k, f, got), k.websocket, Whole(k),
         NEW nr, NextOf(k, nr), NEW l, AfterDelivery(c, k, nr, l)
  PROVE  Still(c, l, f, got)
<1> DEFINE n == Len(k.handled)
<1>0. nr \in Nat /\ nr = Len(k.handled) + 1
  BY DEF NextOf
<1>1. /\ l \in Connections /\ l.handled = Append(k.handled, nr)
      /\ l.recv_mbuf = Without(k.recv_mbuf, 2) /\ l.websocket
      /\ l.close_immediately = k.close_immediately
      /\ l.crossed = k.crossed /\ l.file = k.file /\ (k.broken => l.broken)
      /\ \/ l.send_mbuf = k.send_mbuf
         \/ l.send_mbuf = Append(k.send_mbuf, Frame)
         \/ l.send_mbuf = Append(k.send_mbuf, Item("text", nr, 0)) /\ l.broken
      /\ l.send_and_close =>
           \/ k.send_and_close \/ l.broken \/ Kind(c, nr) = "close"
           \/ l.recv_mbuf # <<>> /\ Kind(c, l.recv_mbuf[1].nr) = "close"
  BY DEF AfterDelivery
<1>2. Counted(c, k, f)
  BY DEF Fine
<1>3. Counted(c, l, f) /\ Len(l.handled) = n + 1
  BY <1>0, <1>1, <1>2, CountedNext
<1>4. /\ n \in Nat /\ sent[c] \in Nat /\ Len(script[c]) \in Nat
      /\ n + 1 <= sent[c] /\ sent[c] <= Len(script[c])
  BY <1>2, CountedFacts DEF Whole
<1>5. OneRequest(c, l)
  BY <1>1 DEF OneRequest
<1>6. OfHandled(l, got) /\ OfHandled(l, k.send_mbuf)
  BY <1>1, <1>3, MoreHandled DEF Fine
<1>7. PiecesBefore(l, got) /\ PiecesBefore(l, k.send_mbuf)
  BY <1>1 DEF Fine, PiecesBefore
<1>8. k.send_mbuf \in Seq(Items)
  BY DEF Connections
<1>9. OfHandled(l, l.send_mbuf) /\ PiecesBefore(l, l.send_mbuf)
  <2>1. /\ Frame \in Items /\ Frame.kind = "frame"
        /\ Item("text", nr, 0) \in Items /\ Item("text", nr, 0).kind = "text"
        /\ Item("text", nr, 0).nr = nr
    BY <1>0, FrameType DEF Frame, Item, Items
  <2>2. nr \in 1 .. Len(l.handled)
    BY <1>0, <1>3, <1>4
  <2> QED
    BY <1>1, <1>6, <1>7, <1>8, <2>1, <2>2, OneMore
<1>10. k.file.left = 0 /\ (k.file.nr # 0 => k.file.nr \in 1 .. n)
  BY DEF Fine, FileOfLast
<1>11. FileOfLast(c, l)
  <2>1. k.file.nr \in 1 .. n => k.file.nr \in 1 .. n + 1
    BY <1>4
  <2>2. k.file.nr # 0 => Kind(c, k.file.nr) \in {"get", "get_close"}
    BY DEF Fine, FileOfLast
  <2> HIDE DEF n
  <2> QED
    BY <1>1, <1>3, <1>10, <2>1, <2>2 DEF FileOfLast
<1>12. NothingLeft(c, l)
  <2> SUFFICES ASSUME l.send_and_close \/ l.close_immediately, ~l.broken
               PROVE  /\ shut[c] \/ (sent[c] = Len(script[c]) /\ l.file.left = 0)
                      /\ \A i \in 1 .. sent[c] :
                           i <= Len(l.handled) \/ Kind(c, i) \in {"bad", "close"}
    BY DEF NothingLeft
  <2>1. CASE k.send_and_close \/ k.close_immediately
    <3>1. ~k.broken
      BY <1>1
    <3>2. /\ shut[c] \/ (sent[c] = Len(script[c]) /\ k.file.left = 0)
          /\ \A i \in 1 .. sent[c] : i <= n \/ Kind(c, i) \in {"bad", "close"}
      BY <2>1, <3>1 DEF Fine, NothingLeft
    <3>3. \A i \in 1 .. sent[c] : i <= n => i <= Len(l.handled)
      BY <1>3, <1>4
    <3> QED
      BY <1>1, <3>2, <3>3
  <2>2. CASE Kind(c, nr) = "close"
    <3>1. nr \in 1 .. Len(script[c]) /\ nr = n + 1
      BY <1>0, <1>4
    <3>2. nr = Len(script[c])
      BY <2>2, <3>1, OrderlyFacts
    <3>3. sent[c] = Len(script[c]) /\ sent[c] = Len(l.handled)
      BY <1>3, <1>4, <3>1, <3>2
    <3> QED
      BY <1>1, <1>4, <1>10, <3>3
  <2>3. CASE l.recv_mbuf # <<>> /\ Kind(c, l.recv_mbuf[1].nr) = "close"
    <3>1. Len(l.recv_mbuf) # 0
      BY <1>1, <2>3, EmptySeq DEF Connections
    <3>2. l.recv_mbuf[1].nr = Len(l.handled) + 1 /\ Len(l.handled) + 1 <= sent[c]
      BY <1>1, <1>3, <3>1, CountedFacts
    <3>3. l.recv_mbuf[1].nr = n + 2 /\ n + 2 <= sent[c] /\ n + 2 \in 1 .. Len(script[c])
      BY <1>3, <1>4, <3>2
    <3>4. n + 2 = Len(script[c]) /\ Kind(c, n + 2) = "close"
      BY <2>3, <3>3, OrderlyFacts
    <3>5. sent[c] = Len(script[c]) /\ sent[c] = Len(l.handled) + 1 /\ sent[c] = n + 2
      BY <1>3, <1>4, <3>3, <3>4
    <3>6. \A i \in 1 .. sent[c] : i <= Len(l.handled) \/ i = n + 2
      BY <1>3, <1>4, <3>5
    <3> QED
      BY <1>1, <1>10, <3>4, <3>5, <3>6
  <2> QED
    BY <1>1, <2>1, <2>2, <2>3
<1>13. Intact(c, l, got)
  <2> SUFFICES ASSUME ~l.crossed, ~l.broken, ~shut[c]
               PROVE  Sensible(c, l, got \o l.send_mbuf \o Pending(l))
    BY DEF Intact
  <2>1. ~k.crossed /\ ~k.broken
    BY <1>1
  <2>2. Pending(k) = <<>> /\ Pending(l) = <<>>
    BY <1>1, <1>10, PendingPieces
  <2>3. got \o k.send_mbuf \in Seq(Items)
    BY <1>8, ConcatProperties
  <2>4. Sensible(c, k, got \o k.send_mbuf)
    <3>1. Sensible(c, k, got \o k.send_mbuf \o Pending(k))
      BY <2>1 DEF Fine, Intact
    <3> QED
      BY <2>2, <2>3, <3>1, ConcatEmptySeq
  <2>5. Sensible(c, l, got \o k.send_mbuf) /\ Sensible(c, l, Append(got \o k.send_mbuf, Frame))
    BY <1>1, <2>3, <2>4, SensibleFrame
  <2>6. got \o Append(k.send_mbuf, Frame) = Append(got \o k.send_mbuf, Frame)
    BY <1>8, FrameType, ConcatAppend
  <2>7. Append(got \o k.send_mbuf, Frame) \in Seq(Items)
    BY <2>3, FrameType, AppendProperties
  <2> QED
    BY <1>1, <2>2, <2>3, <2>5, <2>6, <2>7, ConcatEmptySeq
<1> QED
  BY <1>1, <1>3, <1>5, <1>6, <1>7, <1>9, <1>11, <1>12, <1>13 DEF Fine, Still

\* d has the first m values of what Deliver computes.
IsDelivered(d, c, k, refused, m) ==
  d = [i \in 0 .. m |->
         IF i = 0 THEN k
         ELSE DeliverFrame(c, d[i - 1], k.recv_mbuf[2 * i].nr, refused)]

LEMMA DeliveredExists ==
  ASSUME NEW c, NEW k, NEW refused, NEW n \in Nat
  PROVE  \E d : IsDelivered(d, c, k, refused, n)
<1> DEFINE Bad == {m \in 0 .. n : \A d : ~IsDelivered(d, c, k, refused, m)}
<1>1. \E d : IsDelivered(d, c, k, refused, 0)
  <2> DEFINE d == [i \in 0 .. 0 |-> k]
  <2>1. IsDelivered(d, c, k, refused, 0)
    BY DEF IsDelivered
  <2> QED
    BY <2>1
<1>2. ASSUME NEW m \in 1 .. n, NEW d, IsDelivered(d, c, k, refused, m - 1)
      PROVE  \E e : IsDelivered(e, c, k, refused, m)
  <2> DEFINE e == [i \in 0 .. m |->
                     IF i # m THEN d[i]
                     ELSE DeliverFrame(c, d[i - 1], k.recv_mbuf[2 * i].nr, refused)]
  <2>1. \A i \in 0 .. m - 1 :
          d[i] = IF i = 0 THEN k
                 ELSE DeliverFrame(c, d[i - 1], k.recv_mbuf[2 * i].nr, refused)
    BY <1>2 DEF IsDelivered
  <2>2. ASSUME NEW i \in 0 .. m
        PROVE  e[i] = IF i = 0 THEN k
                      ELSE DeliverFrame(c, e[i - 1], k.recv_mbuf[2 * i].nr, refused)
    <3>1. i # 0 => i - 1 \in 0 .. m /\ i - 1 # m
      OBVIOUS
    <3>2. i # 0 => e[i - 1] = d[i - 1]
      BY <3>1
    <3>3. CASE i = m
      <4>1. i # 0
        BY <3>3
      <4> QED
        BY <3>2, <3>3, <4>1
    <3>4. CASE i # m
      <4>1. i \in 0 .. m - 1
        BY <3>4
      <4>2. e[i] = d[i]
        BY <3>4
      <4> HIDE DEF e
      <4> QED
        BY <2>1, <3>2, <4>1, <4>2
    <3> QED
      BY <3>3, <3>4
  <2>3. e = [i \in 0 .. m |-> e[i]]
    OBVIOUS
  <2> HIDE DEF e
  <2>4. IsDelivered(e, c, k, refused, m)
    BY <2>2, <2>3 DEF IsDelivered
  <2> QED
    BY <2>4
<1>3. Bad = {}
  <2> SUFFICES ASSUME Bad # {} PROVE FALSE
    OBVIOUS
  <2>1. Bad \in SUBSET Nat
    OBVIOUS
  <2>2. PICK m \in Bad : \A i \in Bad : ~(i < m)
    <3> HIDE DEF Bad
    <3> QED
      BY <2>1, Least
  <2>3. m \in 1 .. n
    BY <1>1, <2>2
  <2>4. m - 1 \in 0 .. n /\ m - 1 < m
    BY <2>3
  <2>5. PICK d : IsDelivered(d, c, k, refused, m - 1)
    BY <2>2, <2>4
  <2> QED
    BY <1>2, <2>2, <2>3, <2>5
<1> QED
  BY <1>3

\* What l has become when as many frames of k are delivered as there are.
LEMMA DeliverFine ==
  ASSUME TypeOK, NEW c \in Conns, NEW k \in Connections, NEW f \in Seq(Halves),
         NEW got \in Seq(Items), Fine(c, k, f, got), k.websocket, NEW refused \in BOOLEAN
  PROVE  Still(c, Deliver(c, k, refused), f, got) /\ ~Whole(Deliver(c, k, refused))
<1> DEFINE size == Len(k.recv_mbuf)
           n == Len(k.handled)
           half == size \div 2
           d == Delivered(c, k, refused)
           Good(i) == /\ Still(c, d[i], f, got) /\ d[i].websocket
                      /\ Len(d[i].recv_mbuf) = size - 2 * i
                      /\ Len(d[i].handled) = n + i
           Bad == {i \in 0 .. half : ~Good(i)}
<1>1. size \in Nat /\ n \in Nat
  <2>1. Counted(c, k, f)
    BY DEF Fine
  <2> QED
    BY <2>1, CountedFacts
<1>2. half \in Nat /\ 2 * half <= size /\ size - 2 * half < 2
  <2>1. \A a \in Nat : a \div 2 \in Nat /\ 2 * (a \div 2) <= a /\ a - 2 * (a \div 2) < 2
    BY Z3
  <2> HIDE DEF size
  <2> QED
    BY <1>1, <2>1
<1>3. IsDelivered(d, c, k, refused, half)
  <2>1. \E e : IsDelivered(e, c, k, refused, half)
    BY <1>2, DeliveredExists
  <2> QED
    BY <2>1 DEF IsDelivered, Delivered
<1> HIDE DEF d
<1>4. \A i \in 0 .. half :
        d[i] = IF i = 0 THEN k
               ELSE DeliverFrame(c, d[i - 1], k.recv_mbuf[2 * i].nr, refused)
  BY <1>3 DEF IsDelivered
<1> HIDE DEF half, size, n
<1>5. Good(0)
  <2>1. d[0] = k
    BY <1>2, <1>4
  <2>2. size - 2 * 0 = size /\ n + 0 = n
    BY <1>1
  <2> QED
    BY <2>1, <2>2 DEF Still, size, n
<1>6. ASSUME NEW i \in 1 .. half, Good(i - 1)
      PROVE  Good(i)
  <2> DEFINE j == d[i - 1]
             nr == k.recv_mbuf[2 * i].nr
  <2>1. d[i] = DeliverFrame(c, j, nr, refused)
    BY <1>2, <1>4
  <2>2. /\ j \in Connections /\ Fine(c, j, f, got) /\ j.websocket
        /\ Len(j.recv_mbuf) = size - 2 * (i - 1) /\ Len(j.handled) = n + (i - 1)
    BY <1>6 DEF Still
  <2>3. /\ 2 * i \in 1 .. size /\ n + i \in Nat /\ size - 2 * (i - 1) >= 2
        /\ n + (i - 1) + 1 = n + i
    BY <1>1, <1>2
  <2>4. nr = n + i
    <3>1. Place(k.recv_mbuf[2 * i]) = 2 * n + 2 * i
      BY <2>3 DEF Fine, Counted, n, size
    <3>2. k.recv_mbuf[2 * i] \in Halves
      BY <2>3, ElementOfSeq DEF Connections, size
    <3>3. nr \in Nat /\ k.recv_mbuf[2 * i].part \in 1 .. 2
      BY <3>2 DEF Halves
    <3>4. 2 * nr + k.recv_mbuf[2 * i].part - 2 = 2 * n + 2 * i
      BY <3>1 DEF Place
    <3>5. \A a, b, p, e \in Int : p \in 1 .. 2 /\ 2 * a + p - 2 = 2 * b + 2 * e => a = b + e
      OBVIOUS
    <3> DEFINE q == k.recv_mbuf[2 * i].part
    <3>6. q \in Int /\ q \in 1 .. 2 /\ 2 * nr + q - 2 = 2 * n + 2 * i
      BY <3>3, <3>4
    <3> HIDE DEF nr, q
    <3> QED
      BY <1>1, <3>3, <3>5, <3>6
  <2> HIDE DEF nr
  <2>5. NextOf(j, nr) /\ nr \in Nat
    BY <2>2, <2>3, <2>4 DEF NextOf
  <2>6. Whole(j)
    BY <2>2, <2>3 DEF Whole
  <2> HIDE DEF j
  <2>7. AfterDelivery(c, j, nr, d[i])
    BY <2>1, <2>2, <2>5, <2>6, DeliverFrameFields
  <2>8. Still(c, d[i], f, got)
    BY <2>2, <2>5, <2>6, <2>7, FrameFine
  <2>9. d[i].websocket
    BY <2>2, <2>7 DEF AfterDelivery
  <2>10. Len(d[i].handled) = Len(j.handled) + 1 /\ Len(d[i].recv_mbuf) = Len(j.recv_mbuf) - 2
    <3>1. /\ d[i].handled = Append(j.handled, nr)
          /\ d[i].recv_mbuf = Without(j.recv_mbuf, 2)
      BY <2>7 DEF AfterDelivery
    <3>2. nr = Len(j.handled) + 1 /\ Counted(c, j, f) /\ d[i] \in Connections
      BY <2>2, <2>5, <2>8 DEF NextOf, Fine, Still
    <3> QED
      BY <2>2, <2>6, <3>1, <3>2, CountedNext
  <2>11. size - 2 * (i - 1) - 2 = size - 2 * i /\ n + (i - 1) + 1 = n + i
    BY <1>1
  <2> QED
    BY <2>2, <2>8, <2>9, <2>10, <2>11
<1>7. Bad = {}
  <2> SUFFICES ASSUME Bad # {} PROVE FALSE
    OBVIOUS
  <2>1. Bad \in SUBSET Nat
    BY <1>2
  <2>2. PICK i \in Bad : \A m \in Bad : ~(m < i)
    <3> HIDE DEF Bad
    <3> QED
      BY <2>1, Least
  <2>3. i # 0
    BY <1>5, <2>2
  <2> HIDE DEF Good
  <2>4. i \in 1 .. half /\ i - 1 \in 0 .. half /\ i - 1 < i /\ ~Good(i)
    BY <1>2, <2>2, <2>3
  <2>5. Good(i - 1)
    BY <2>2, <2>4
  <2> QED
    BY <1>6, <2>4, <2>5
<1>8. Good(half)
  BY <1>2, <1>7
<1>9. Deliver(c, k, refused) = d[half]
  BY DEF Deliver, d, half, size
<1> QED
  BY <1>2, <1>8, <1>9 DEF Whole

\* What is to come when a request is handled, while no file is being sent, is
\* its answer.
LEMMA RequestStream ==
  ASSUME NEW c, NEW k \in Connections, k.file.left = 0, NEW nr \in Nat, NEW l,
         AfterRequest(c, k, nr, l), Kind(c, nr) \in {"get", "get_close", "action"}
  PROVE  ToCome(l) = k.send_mbuf \o Answer(c, nr)
<1>1. k.send_mbuf \in Seq(Items) /\ l \in Connections
  BY DEF Connections, AfterRequest
<1>2. CASE Kind(c, nr) = "action"
  <2> DEFINE x == Item("reply", nr, 0)
  <2>1. l.send_mbuf = Append(k.send_mbuf, x) /\ l.file.left = 0
    BY <1>2 DEF AfterRequest
  <2>2. x \in Items /\ Answer(c, nr) = <<x>>
    BY <1>2, AnswerType DEF Item, Items
  <2>3. ToCome(l) = l.send_mbuf
    BY <1>1, <2>1, PendingPieces
  <2> HIDE DEF x
  <2>4. Append(k.send_mbuf, x) = k.send_mbuf \o <<x>>
    BY <1>1, <2>2, ConcatAppend
  <2> QED
    BY <2>1, <2>2, <2>3, <2>4
<1>3. CASE Kind(c, nr) \in {"get", "get_close"}
  <2> DEFINE x == Item("head", nr, 0)
  <2>1. PICK m \in 0 .. FilePieces :
          /\ l.send_mbuf = Append(k.send_mbuf, x) \o Pieces(nr, 1, m)
          /\ l.file = [nr |-> nr, left |-> FilePieces - m]
    BY <1>3 DEF AfterRequest
  <2>2. x \in Items
    BY DEF Item, Items
  <2>3. Answer(c, nr) = <<x>> \o Pieces(nr, 1, FilePieces)
    BY <1>3, AnswerType
  <2> HIDE DEF x
  <2> DEFINE rest == FilePieces - m
             next == FilePieces - rest + 1
             a == Pieces(nr, 1, m)
             b == Pieces(nr, next, rest)
  <2>4. /\ FilePieces \in Nat /\ m \in Nat /\ rest \in Nat /\ next \in Nat /\ next # 0
        /\ next = 1 + m /\ FilePieces = m + rest
    BY WebConnectionsAssumption
  <2>5. Pending(l) = b
    <3>1. l.file.nr = nr /\ l.file.left = rest
      BY <2>1
    <3> QED
      BY <1>1, <3>1, PendingPieces
  <2> HIDE DEF rest, next
  <2>6. a \in Seq(Items) /\ b \in Seq(Items)
    <3>1. ArePieces(a, nr, 1, m) /\ ArePieces(b, nr, next, rest)
      BY <2>4, PiecesFacts
    <3> QED
      BY <3>1 DEF ArePieces
  <2>7. a \o b = Pieces(nr, 1, FilePieces)
    <3>1. AddsUp(1, m, next) /\ AddsUp(m, rest, FilePieces)
      BY <2>4 DEF AddsUp
    <3> DEFINE one == 1
    <3>2. one \in Nat /\ one # 0 /\ AddsUp(one, m, next)
      BY <3>1
    <3> HIDE DEF one
    <3>3. Joined(nr, one, m, next, rest, FilePieces)
      BY <2>4, <3>1, <3>2, PiecesSplit
    <3> QED
      BY <3>3 DEF Joined, one
  <2> HIDE DEF a, b
  <2>8. /\ Append(k.send_mbuf, x) = k.send_mbuf \o <<x>> /\ <<x>> \in Seq(Items)
    BY <1>1, <2>2, ConcatAppend
  <2>9. ToCome(l) = ((k.send_mbuf \o <<x>>) \o a) \o b
    BY <2>1, <2>5, <2>8 DEF ToCome, a
  <2>10. /\ k.send_mbuf \o <<x>> \in Seq(Items)
         /\ ((k.send_mbuf \o <<x>>) \o a) \o b = (k.send_mbuf \o <<x>>) \o (a \o b)
    <3> DEFINE y == k.send_mbuf \o <<x>>
    <3>1. y \in Seq(Items)
      BY <1>1, <2>8, ConcatProperties
    <3> HIDE DEF y
    <3>2. (y \o a) \o b = y \o (a \o b)
      BY <2>6, <3>1, Associative
    <3> QED
      BY <3>1, <3>2 DEF y
  <2>11. (k.send_mbuf \o <<x>>) \o (a \o b) = k.send_mbuf \o (<<x>> \o (a \o b))
    <3>1. a \o b \in Seq(Items)
      BY <2>6, ConcatProperties
    <3> QED
      BY <1>1, <2>8, <3>1, Associative
  <2> QED
    BY <2>3, <2>7, <2>9, <2>10, <2>11
<1> QED
  BY <1>2, <1>3

\* A request is handled, and taken out of recv_mbuf.
LEMMA RequestFine ==
  ASSUME TypeOK, NEW c \in Conns, NEW k \in Connections, NEW f \in Seq(Halves),
         NEW got \in Seq(Items), Fine(c, k, f, got), ~k.websocket, Whole(k),
         NEW nr, NextOf(k, nr), Kind(c, nr) \in {"get", "get_close", "action"},
         NEW h, AfterRequest(c, k, nr, h)
  PROVE  /\ Still(c, [h EXCEPT !.recv_mbuf = Without(@, 2)], f, got)
         /\ ~Whole([h EXCEPT !.recv_mbuf = Without(@, 2)])
<1> DEFINE l == [h EXCEPT !.recv_mbuf = Without(@, 2)]
           n == Len(k.handled)
<1>1. /\ h \in Connections /\ h.handled = Append(k.handled, nr)
      /\ h.recv_mbuf = k.recv_mbuf /\ h.websocket = k.websocket
      /\ h.close_immediately = k.close_immediately
      /\ h.crossed = k.crossed /\ h.broken = k.broken
  BY DEF AfterRequest
<1>2. nr \in Nat /\ nr = n + 1
  BY DEF NextOf
<1>3. Counted(c, k, f) /\ OneRequest(c, k)
  BY DEF Fine
<1>4. /\ n \in Nat /\ sent[c] \in Nat /\ Len(script[c]) \in Nat /\ Len(k.recv_mbuf) \in Nat
      /\ n + 1 <= sent[c] /\ sent[c] <= Len(script[c]) /\ Len(f) \in Nat
  BY <1>3, CountedFacts DEF Whole
<1>5. sent[c] = n + 1
  <2>1. sent[c] <= n + 1
    BY <1>3 DEF OneRequest
  <2> QED
    BY <1>4, <2>1
<1>6. /\ l \in Connections /\ l.handled = Append(k.handled, nr)
      /\ l.recv_mbuf = Without(k.recv_mbuf, 2) /\ ~l.websocket
      /\ l.close_immediately = k.close_immediately
      /\ l.crossed = k.crossed /\ l.broken = k.broken
      /\ l.send_mbuf = h.send_mbuf /\ l.file = h.file /\ l.send_and_close = h.send_and_close
  <2>1. Without(k.recv_mbuf, 2) \in Seq(Halves)
    <3>1. 2 \in 0 .. Len(k.recv_mbuf) /\ k.recv_mbuf \in Seq(Halves)
      BY <1>4 DEF Whole, Connections
    <3> QED
      BY <3>1, WithoutFacts
  <2> QED
    BY <1>1, <2>1 DEF Connections
<1> HIDE DEF l
<1>7. /\ Counted(c, l, f) /\ Len(l.handled) = n + 1
      /\ Len(l.recv_mbuf) = Len(k.recv_mbuf) - 2
  BY <1>2, <1>3, <1>6, CountedNext
<1>8. ~Whole(l)
  <2>1. 2 * n + Len(k.recv_mbuf) + Len(f) = 2 * sent[c]
    BY <1>3 DEF Counted
  <2> DEFINE m == Len(k.recv_mbuf)
             p == Len(f)
             s == sent[c]
  <2>2. /\ n \in Nat /\ m \in Nat /\ p \in Nat /\ s = n + 1 /\ 2 * n + m + p = 2 * s
        /\ Len(l.recv_mbuf) = m - 2
    BY <1>4, <1>5, <1>7, <2>1
  <2> HIDE DEF n, m, p, s
  <2>3. ~(m - 2 >= 2)
    BY <2>2
  <2> QED
    BY <2>2, <2>3 DEF Whole
<1>9. OneRequest(c, l)
  <2>1. \A i \in 1 .. sent[c] : Kind(c, i) \in Requests
    BY <1>3 DEF OneRequest
  <2>2. sent[c] <= Len(l.handled) + 1
    BY <1>4, <1>5, <1>7
  <2> QED
    BY <2>1, <2>2 DEF OneRequest
<1>10. OfHandled(l, got) /\ OfHandled(l, k.send_mbuf)
  BY <1>6, <1>7, MoreHandled DEF Fine
<1>11. k.send_mbuf \in Seq(Items) /\ FilePieces \in Nat
  BY WebConnectionsAssumption DEF Connections
<1>12. /\ k.file.left = 0
       /\ k.file.nr # 0 =>
            k.file.nr \in 1 .. n /\ Kind(c, k.file.nr) \in {"get", "get_close"}
  <2>1. k.file.left # 0 => sent[c] = n
    BY DEF Fine, FileOfLast
  <2>2. k.file.left = 0
    BY <1>4, <1>5, <2>1
  <2> QED
    BY <2>2 DEF Fine, FileOfLast
<1>13. nr \in 1 .. Len(l.handled) /\ nr \in 1 .. Len(script[c])
  BY <1>2, <1>4, <1>7
<1>14. /\ OfHandled(l, l.send_mbuf) /\ PiecesBefore(l, got)
       /\ PiecesBefore(l, l.send_mbuf) /\ FileOfLast(c, l)
  <2>1. CASE Kind(c, nr) = "action"
    <3> DEFINE x == Item("reply", nr, 0)
    <3>1. l.send_mbuf = Append(k.send_mbuf, x) /\ l.file = k.file
      BY <1>6, <2>1 DEF AfterRequest
    <3>2. x \in Items /\ x.kind = "reply" /\ x.nr = nr
      BY <1>2 DEF Item, Items
    <3>3. PiecesBefore(l, got) /\ PiecesBefore(l, k.send_mbuf)
      BY <3>1 DEF Fine, PiecesBefore
    <3> HIDE DEF x
    <3>4. OfHandled(l, l.send_mbuf) /\ PiecesBefore(l, l.send_mbuf)
      BY <1>10, <1>11, <1>13, <3>1, <3>2, <3>3, OneMore
    <3>5. k.file.nr \in 1 .. n => k.file.nr \in 1 .. Len(l.handled)
      BY <1>4, <1>7
    <3>6. FileOfLast(c, l)
      BY <1>12, <3>1, <3>5 DEF FileOfLast
    <3> QED
      BY <3>3, <3>4, <3>6
  <2>2. CASE Kind(c, nr) \in {"get", "get_close"}
    <3> DEFINE x == Item("head", nr, 0)
    <3>1. PICK m \in 0 .. FilePieces :
            /\ l.send_mbuf = Append(k.send_mbuf, x) \o Pieces(nr, 1, m)
            /\ l.file = [nr |-> nr, left |-> FilePieces - m]
      BY <1>6, <2>2 DEF AfterRequest
    <3>2. x \in Items /\ x.kind = "head" /\ x.nr = nr
      BY <1>2 DEF Item, Items
    <3> HIDE DEF x
    <3>3. l.file.nr = nr /\ l.file.left = FilePieces - m /\ FilePieces - l.file.left = m /\ m \in Nat
      BY <1>11, <3>1
    <3> DEFINE a == Pieces(nr, 1, m)
               s == Append(k.send_mbuf, x)
    <3>4. /\ a \in Seq(Items) /\ Len(a) = m
          /\ \A i \in 1 .. m : a[i].kind = "piece" /\ a[i].nr = nr /\ a[i].piece = 1 + i - 1
      <4>1. ArePieces(a, nr, 1, m)
        BY <1>2, <3>3, PiecesFacts
      <4> HIDE DEF a
      <4>2. \A i \in 1 .. m : a[i] = [kind |-> "piece", nr |-> nr, piece |-> 1 + i - 1]
        BY <4>1 DEF ArePieces
      <4> QED
        BY <4>1, <4>2 DEF ArePieces
    <3>5. \A i \in 1 .. m : 1 + i - 1 <= m
      BY <3>3
    <3>6. ASSUME NEW t, OfHandled(k, t)
          PROVE  PiecesBefore(l, t)
      <4>1. \A i \in 1 .. Len(t) : t[i].kind = "piece" => t[i].nr \in 1 .. n
        BY <3>6 DEF OfHandled
      <4>2. nr \notin 1 .. n
        BY <1>2, <1>4
      <4> QED
        BY <3>3, <4>1, <4>2 DEF PiecesBefore
    <3>7. PiecesBefore(l, got) /\ PiecesBefore(l, k.send_mbuf)
      BY <3>6 DEF Fine
    <3>8. s \in Seq(Items) /\ OfHandled(l, s) /\ PiecesBefore(l, s)
      BY <1>10, <1>11, <1>13, <3>2, <3>7, OneMore, AppendProperties
    <3>9. l.send_mbuf = s \o a
      BY <3>1
    <3> HIDE DEF a, s
    <3>10. ASSUME NEW i \in 1 .. Len(l.send_mbuf)
           PROVE  \/ \E j \in 1 .. Len(s) : l.send_mbuf[i] = s[j]
                  \/ \E j \in 1 .. m : l.send_mbuf[i] = a[j]
      <4>1. a \in Seq(Items) /\ Len(a) = m /\ s \in Seq(Items) /\ i \in 1 .. Len(s \o a)
        BY <3>4, <3>8, <3>9
      <4>2. InEither(s \o a, s, a)
        BY <4>1, ElementsOfConcat
      <4> QED
        BY <3>9, <4>1, <4>2 DEF InEither
    <3>11. OfHandled(l, l.send_mbuf)
      <4>1. \A j \in 1 .. m : a[j].kind # "handshake" /\ a[j].nr \in 1 .. Len(l.handled)
        BY <1>13, <3>4
      <4> QED
        BY <3>8, <3>10, <4>1 DEF OfHandled
    <3>12. PiecesBefore(l, l.send_mbuf)
      <4>1. \A j \in 1 .. m : a[j].piece <= FilePieces - l.file.left
        BY <3>3, <3>4, <3>5
      <4> QED
        BY <3>8, <3>10, <4>1 DEF PiecesBefore
    <3>13. FileOfLast(c, l)
      BY <1>2, <1>5, <1>6, <1>7, <1>13, <2>2, <3>3 DEF FileOfLast
    <3> QED
      BY <3>7, <3>11, <3>12, <3>13
  <2> QED
    BY <2>1, <2>2
<1>15. NothingLeft(c, l)
  <2>1. CASE k.send_and_close \/ k.close_immediately
    <3>1. NothingLeft(c, k) /\ nr \in 1 .. sent[c] /\ ~(nr <= n)
      BY <1>2, <1>4, <1>5 DEF Fine
    <3>2. k.broken
      BY <2>1, <3>1 DEF NothingLeft
    <3> QED
      BY <1>6, <3>2 DEF NothingLeft
  <2>2. CASE Kind(c, nr) = "action"
    <3>1. nr = Len(script[c])
      BY <1>13, <2>2, OrderlyFacts
    <3>2. l.file = k.file
      BY <1>6, <2>2 DEF AfterRequest
    <3>3. sent[c] = Len(script[c]) /\ \A i \in 1 .. sent[c] : i <= Len(l.handled)
      BY <1>2, <1>4, <1>5, <1>7, <3>1
    <3> QED
      BY <1>12, <3>2, <3>3 DEF NothingLeft
  <2>3. CASE ~(k.send_and_close \/ k.close_immediately) /\ Kind(c, nr) # "action"
    BY <1>6, <2>3 DEF NothingLeft, AfterRequest
  <2> QED
    BY <2>1, <2>2, <2>3
<1>16. Intact(c, l, got)
  <2> SUFFICES ASSUME ~l.crossed, ~l.broken, ~shut[c]
               PROVE  Sensible(c, l, got \o l.send_mbuf \o Pending(l))
    BY DEF Intact
  <2>1. got \o k.send_mbuf = Answers(c, k)
    <3>1. got \o k.send_mbuf \o Pending(k) = Answers(c, k)
      BY <1>6 DEF Fine, Intact, Sensible
    <3>2. Pending(k) = <<>> /\ got \o k.send_mbuf \in Seq(Items)
      BY <1>11, <1>12, PendingPieces, ConcatProperties
    <3> QED
      BY <3>1, <3>2, ConcatEmptySeq
  <2>2. got \o l.send_mbuf \o Pending(l) = got \o ToCome(l)
    BY <1>6, StreamToCome
  <2>3. ToCome(l) = ToCome(h)
    BY <1>6 DEF ToCome, Pending
  <2>4. ToCome(h) = k.send_mbuf \o Answer(c, nr)
    BY <1>2, <1>12, RequestStream
  <2>5. got \o (k.send_mbuf \o Answer(c, nr)) = (got \o k.send_mbuf) \o Answer(c, nr)
    <3> DEFINE y == Answer(c, nr)
    <3>1. y \in Seq(Items)
      BY <1>2, AnswerType
    <3> HIDE DEF y
    <3>2. got \o (k.send_mbuf \o y) = (got \o k.send_mbuf) \o y
      BY <1>11, <3>1, Associative
    <3> QED
      BY <3>2 DEF y
  <2>6. Answers(c, l) = Answers(c, k) \o Answer(c, nr)
    BY <1>2, <1>6, AnswersNext
  <2> QED
    BY <1>6, <2>1, <2>2, <2>3, <2>4, <2>5, <2>6 DEF Sensible
<1> QED
  BY <1>6, <1>7, <1>8, <1>9, <1>10, <1>14, <1>15, <1>16 DEF Fine, Still, l

LEMMA UpgradeFine ==
  ASSUME TypeOK, NEW c \in Conns, NEW k \in Connections, NEW f \in Seq(Halves),
         NEW got \in Seq(Items), Fine(c, k, f, got), ~k.websocket, Whole(k),
         Kind(c, k.recv_mbuf[1].nr) = "upgrade"
  PROVE  Still(c, Upgrade(c, k), f, got) /\ Upgrade(c, k).websocket
<1> DEFINE nr == k.recv_mbuf[1].nr
           x == Item("handshake", nr, 0)
           w == [k EXCEPT !.recv_mbuf = Without(@, 2), !.websocket = TRUE,
                          !.handled = Append(@, nr)]
           l == Upgrade(c, k)
           n == Len(k.handled)
<1>1. Counted(c, k, f)
  BY DEF Fine
<1>2. /\ n \in Nat /\ sent[c] \in Nat /\ Len(script[c]) \in Nat /\ Len(k.recv_mbuf) \in Nat
      /\ n + 1 <= sent[c] /\ sent[c] <= Len(script[c]) /\ nr = n + 1
  BY <1>1, CountedFacts DEF Whole
<1>3. nr \in Nat /\ nr \in 1 .. Len(script[c]) /\ nr \in 1 .. sent[c]
  BY <1>2
<1>4. nr = 1 /\ n = 0
  <2>1. nr = 1
    BY <1>3, OrderlyFacts
  <2> HIDE DEF nr, n
  <2> QED
    BY <1>2, <2>1
<1>5. k.handled = <<>>
  BY <1>4, EmptySeq DEF Connections
<1>6. /\ w \in Connections /\ w.recv_mbuf = Without(k.recv_mbuf, 2) /\ w.websocket
      /\ w.handled = Append(k.handled, nr) /\ w.close_immediately = k.close_immediately
      /\ w.send_and_close = k.send_and_close /\ w.file = k.file
      /\ w.crossed = k.crossed /\ w.broken = k.broken /\ w.send_mbuf = k.send_mbuf
  <2>1. Without(k.recv_mbuf, 2) \in Seq(Halves)
    <3>1. 2 \in 0 .. Len(k.recv_mbuf) /\ k.recv_mbuf \in Seq(Halves)
      BY <1>2 DEF Whole, Connections
    <3> QED
      BY <3>1, WithoutFacts
  <2>2. Append(k.handled, nr) \in Seq(Nat)
    BY <1>3, AppendProperties DEF Connections
  <2> HIDE DEF nr
  <2> QED
    BY <2>1, <2>2 DEF Connections
<1>7. l = IF k.send_mbuf = <<>> THEN Send(w, x) ELSE w
  BY DEF Upgrade
<1>8. x \in Items /\ x.kind = "handshake" /\ x.nr = nr /\ x = Item("handshake", 1, 0)
  BY <1>3, <1>4 DEF Item, Items
<1> HIDE DEF w, l, nr, x, n
<1>9. /\ l \in Connections /\ l.recv_mbuf = Without(k.recv_mbuf, 2) /\ l.websocket
      /\ l.handled = Append(k.handled, nr) /\ l.close_immediately = k.close_immediately
      /\ l.send_and_close = k.send_and_close /\ l.file = k.file
      /\ l.crossed = k.crossed /\ l.broken = k.broken
      /\ \/ k.send_mbuf = <<>> /\ l.send_mbuf = Append(k.send_mbuf, x)
         \/ k.send_mbuf # <<>> /\ l.send_mbuf = k.send_mbuf
  <2>1. CASE k.send_mbuf = <<>>
    <3>1. l = Send(w, x)
      BY <1>7, <2>1
    <3>2. /\ Send(w, x) \in Connections /\ SameReceiving(w, Send(w, x))
          /\ Send(w, x).send_mbuf = Append(w.send_mbuf, x) /\ Send(w, x).file = w.file
          /\ Send(w, x).send_and_close = w.send_and_close
      BY <1>6, <1>8, SendFields
    <3> QED
      BY <1>6, <2>1, <3>1, <3>2 DEF SameReceiving
  <2>2. CASE k.send_mbuf # <<>>
    BY <1>6, <1>7, <2>2
  <2> QED
    BY <2>1, <2>2
<1>10. Counted(c, l, f) /\ Len(l.handled) = n + 1
  BY <1>1, <1>2, <1>9, CountedNext DEF n
<1>11. OneRequest(c, l)
  BY <1>9 DEF OneRequest
<1>12. OfHandled(l, got) /\ OfHandled(l, k.send_mbuf)
  BY <1>9, <1>10, MoreHandled DEF Fine, n
<1>13. PiecesBefore(l, got) /\ PiecesBefore(l, k.send_mbuf)
  BY <1>9 DEF Fine, PiecesBefore
<1>14. OfHandled(l, l.send_mbuf) /\ PiecesBefore(l, l.send_mbuf)
  <2>1. nr \in 1 .. Len(l.handled) /\ k.send_mbuf \in Seq(Items)
    BY <1>2, <1>10 DEF Connections
  <2> QED
    BY <1>8, <1>9, <1>12, <1>13, <2>1, OneMore
<1>15. k.file.nr = 0 /\ k.file.left = 0
  <2>1. FileOfLast(c, k)
    BY DEF Fine
  <2>2. k.file.nr # 0 => k.file.nr \in 1 .. 0
    BY <1>4, <2>1 DEF FileOfLast, n
  <2>3. k.file.nr = 0
    BY <2>2
  <2> QED
    BY <2>1, <2>3 DEF FileOfLast
<1>16. FileOfLast(c, l)
  BY <1>9, <1>15 DEF FileOfLast
<1>17. NothingLeft(c, l)
  <2>1. ASSUME k.send_and_close \/ k.close_immediately
        PROVE  k.broken
    <3>1. NothingLeft(c, k) /\ nr \in 1 .. sent[c] /\ ~(nr <= n)
      BY <1>2, <1>3, <1>4 DEF Fine
    <3>2. Kind(c, nr) = "upgrade"
      BY DEF nr
    <3> QED
      BY <2>1, <3>1, <3>2 DEF NothingLeft, n
  <2> QED
    BY <1>9, <2>1 DEF NothingLeft
<1>18. Intact(c, l, got)
  <2> SUFFICES ASSUME ~l.crossed, ~l.broken, ~shut[c]
               PROVE  Sensible(c, l, got \o l.send_mbuf \o Pending(l))
    BY DEF Intact
  <2>1. Answers(c, k) = <<>>
    <3>1. [i \in DOMAIN k.handled |-> Answer(c, k.handled[i])] = <<>>
      BY <1>5
    <3> QED
      BY <3>1, FlattenEmpty DEF Answers
  <2>2. /\ k.send_mbuf \in Seq(Items) /\ Pending(k) = <<>> /\ Pending(l) = <<>>
        /\ got \o k.send_mbuf \in Seq(Items) /\ l.send_mbuf \in Seq(Items)
        /\ got \o l.send_mbuf \in Seq(Items)
    BY <1>9, <1>15, PendingPieces, ConcatProperties DEF Connections
  <2>3. got \o k.send_mbuf = <<>>
    <3>1. got \o k.send_mbuf \o Pending(k) = <<>>
      BY <1>9, <2>1 DEF Fine, Intact, Sensible
    <3> QED
      BY <2>2, <3>1, ConcatEmptySeq
  <2>4. got = <<>> /\ k.send_mbuf = <<>>
    <3>1. /\ Len(got \o k.send_mbuf) = Len(got) + Len(k.send_mbuf)
          /\ Len(got) \in Nat /\ Len(k.send_mbuf) \in Nat
      BY <2>2, ConcatProperties, LenProperties
    <3>2. Len(got \o k.send_mbuf) = 0
      BY <2>3
    <3>3. Len(got) = 0 /\ Len(k.send_mbuf) = 0
      BY <3>1, <3>2
    <3> QED
      BY <2>2, <3>3, EmptySeq
  <2>5. l.send_mbuf = <<x>>
    BY <1>8, <1>9, <2>4
  <2>6. got \o l.send_mbuf \o Pending(l) = <<x>>
    BY <2>2, <2>4, <2>5, ConcatEmptySeq
  <2>7. \A i \in 2 .. Len(<<x>>) : <<x>>[i] = Frame
    OBVIOUS
  <2> QED
    BY <1>8, <1>9, <2>6, <2>7 DEF Sensible
<1> QED
  BY <1>9, <1>10, <1>11, <1>12, <1>13, <1>14, <1>16, <1>17, <1>18 DEF Fine, Still, l

\* ... and whole messages are left only where the connection is closed.
Treated(c, l, f, got) == Still(c, l, f, got) /\ (Whole(l) => l.close_immediately)

LEMMA HttpReceiveFine ==
  ASSUME TypeOK, NEW c \in Conns, NEW k \in Connections, NEW f \in Seq(Halves),
         NEW got \in Seq(Items), Fine(c, k, f, got), ~k.websocket, k.recv_mbuf # <<>>,
         NEW refused \in BOOLEAN
  PROVE  Treated(c, HttpReceive(c, k, refused), f, got)
<1> DEFINE nr == k.recv_mbuf[1].nr
           n == Len(k.handled)
           l == HttpReceive(c, k, refused)
<1>1. Counted(c, k, f) /\ OneRequest(c, k)
  BY DEF Fine
<1>2. Len(k.recv_mbuf) # 0
  BY EmptySeq DEF Connections
<1>3. /\ n \in Nat /\ sent[c] \in Nat /\ Len(script[c]) \in Nat
      /\ n + 1 <= sent[c] /\ sent[c] <= Len(script[c]) /\ nr = n + 1
  BY <1>1, <1>2, CountedFacts
<1>4. nr \in Nat /\ nr \in 1 .. Len(script[c]) /\ nr \in 1 .. sent[c] /\ NextOf(k, nr)
  BY <1>3 DEF NextOf
<1>5. Kind(c, nr) \in Requests
  BY <1>1, <1>4 DEF OneRequest
<1>6. CASE Kind(c, nr) = "bad"
  <2>1. l = [k EXCEPT !.close_immediately = TRUE]
    BY <1>6 DEF HttpReceive
  <2> HIDE DEF l
  <2>2. /\ l \in Connections /\ l.recv_mbuf = k.recv_mbuf /\ l.websocket = k.websocket
        /\ l.handled = k.handled /\ l.close_immediately
        /\ l.send_and_close = k.send_and_close /\ l.file = k.file
        /\ l.crossed = k.crossed /\ l.broken = k.broken /\ l.send_mbuf = k.send_mbuf
    BY <2>1 DEF Connections
  <2>3. /\ Counted(c, l, f) /\ OneRequest(c, l) /\ OfHandled(l, got) /\ OfHandled(l, l.send_mbuf)
        /\ PiecesBefore(l, got) /\ PiecesBefore(l, l.send_mbuf) /\ FileOfLast(c, l)
    <3>1. Counted(c, l, f)
      BY <1>1, <2>2 DEF Counted
    <3>2. OneRequest(c, l)
      BY <1>1, <2>2 DEF OneRequest
    <3>3. OfHandled(l, got) /\ OfHandled(l, l.send_mbuf)
      BY <2>2 DEF Fine, OfHandled
    <3>4. PiecesBefore(l, got) /\ PiecesBefore(l, l.send_mbuf)
      BY <2>2 DEF Fine, PiecesBefore
    <3>5. FileOfLast(c, l)
      BY <2>2 DEF Fine, FileOfLast
    <3> QED
      BY <3>1, <3>2, <3>3, <3>4, <3>5
  <2>4. NothingLeft(c, l)
    <3>1. nr = Len(script[c]) /\ sent[c] = Len(script[c])
      <4>1. nr = Len(script[c])
        BY <1>4, <1>6, OrderlyFacts
      <4> HIDE DEF nr, n
      <4> QED
        BY <1>3, <4>1
    <3>2. k.file.left = 0
      <4>1. k.file.left # 0 => sent[c] = n
        BY DEF Fine, FileOfLast
      <4>2. sent[c] # n
        BY <1>3
      <4> QED
        BY <4>1, <4>2
    <3>3. \A i \in 1 .. sent[c] : i <= n \/ i = nr
      <4> HIDE DEF nr, n
      <4> QED
        BY <1>3, <3>1
    <3> QED
      BY <1>6, <2>2, <3>1, <3>2, <3>3 DEF NothingLeft
  <2>5. Intact(c, l, got)
    <3>1. Pending(l) = Pending(k)
      BY <2>2 DEF Pending
    <3> DEFINE stream == got \o k.send_mbuf \o Pending(k)
    <3>2. Sensible(c, l, stream) <=> Sensible(c, k, stream)
      BY <2>2, SensibleSame
    <3> QED
      BY <2>2, <3>1, <3>2 DEF Fine, Intact
  <2> QED
    BY <2>2, <2>3, <2>4, <2>5 DEF Fine, Still, Treated, l
<1>7. CASE Kind(c, nr) # "bad" /\ ~Whole(k)
  <2>1. l = k
    BY <1>7 DEF HttpReceive
  <2> HIDE DEF l
  <2> QED
    BY <1>7, <2>1 DEF Still, Treated, l
<1>8. CASE Whole(k) /\ Kind(c, nr) = "upgrade"
  <2> DEFINE u == Upgrade(c, k)
  <2>1. l = Deliver(c, u, refused)
    BY <1>8 DEF HttpReceive
  <2>2. u \in Connections /\ Fine(c, u, f, got) /\ u.websocket
    BY <1>8, UpgradeFine DEF Still
  <2> HIDE DEF u, l
  <2>3. Still(c, Deliver(c, u, refused), f, got) /\ ~Whole(Deliver(c, u, refused))
    BY <2>2, DeliverFine
  <2> QED
    BY <2>1, <2>3 DEF Treated, l
<1>9. CASE Whole(k) /\ Kind(c, nr) \notin {"bad", "upgrade"}
  <2> DEFINE h == HandleRequest(c, k, nr)
  <2>1. l = [h EXCEPT !.recv_mbuf = Without(@, 2)]
    BY <1>9 DEF HttpReceive
  <2>2. AfterRequest(c, k, nr, h)
    BY <1>4, RequestFields
  <2>3. Kind(c, nr) \in {"get", "get_close", "action"}
    BY <1>5, <1>9 DEF Requests
  <2> HIDE DEF l, h, nr
  <2>4. /\ Still(c, [h EXCEPT !.recv_mbuf = Without(@, 2)], f, got)
        /\ ~Whole([h EXCEPT !.recv_mbuf = Without(@, 2)])
    BY <1>4, <1>9, <2>2, <2>3, RequestFine
  <2> QED
    BY <2>1, <2>4 DEF Treated, l
<1> QED
  BY <1>6, <1>7, <1>8, <1>9

\* MG_EV_RECV, after something was read.
LEMMA ReceivedFine ==
  ASSUME TypeOK, NEW c \in Conns, NEW k \in Connections, NEW f \in Seq(Halves),
         NEW got \in Seq(Items), Fine(c, k, f, got), k.recv_mbuf # <<>>,
         NEW refused \in BOOLEAN
  PROVE  Treated(c, Received(c, k, refused), f, got)
<1>1. CASE k.websocket
  <2>1. Received(c, k, refused) = Deliver(c, k, refused)
    BY <1>1 DEF Received
  <2>2. Still(c, Deliver(c, k, refused), f, got) /\ ~Whole(Deliver(c, k, refused))
    BY <1>1, DeliverFine
  <2> QED
    BY <2>1, <2>2 DEF Treated
<1>2. CASE ~k.websocket
  <2> DEFINE t == Transfer(c, k)
  <2>1. Received(c, k, refused) = HttpReceive(c, t, refused)
    BY <1>2 DEF Received
  <2>2. AfterTransfer(c, k, t)
    BY TransferFields
  <2> HIDE DEF t
  <2>3. Still(c, t, f, got)
    BY <2>2, TransferFine
  <2>4. t \in Connections /\ Fine(c, t, f, got)
    BY <2>3 DEF Still
  <2>5. ~t.websocket /\ t.recv_mbuf # <<>>
    BY <1>2, <2>2 DEF AfterTransfer, SameReceiving
  <2>6. Treated(c, HttpReceive(c, t, refused), f, got)
    BY <2>4, <2>5, HttpReceiveFine
  <2> QED
    BY <2>1, <2>6
<1> QED
  BY <1>1, <1>2

\* Halves that have arrived are next in recv_mbuf.
LEMMA ArrivedCounted ==
  ASSUME TypeOK, NEW c \in Conns, NEW k \in Connections, NEW f \in Seq(Halves),
         Counted(c, k, f), NEW n \in 1 .. Len(f), NEW l,
         l.handled = k.handled, l.recv_mbuf = k.recv_mbuf \o SubSeq(f, 1, n)
  PROVE  /\ Counted(c, l, Without(f, n))
         /\ l.recv_mbuf \in Seq(Halves) /\ l.recv_mbuf # <<>>
         /\ Without(f, n) \in Seq(Halves)
<1> DEFINE r == k.recv_mbuf
           a == SubSeq(f, 1, n)
           b == Without(f, n)
           h == Len(k.handled)
           m == Len(r)
           z == Len(f)
<1>1. /\ h \in Nat /\ m \in Nat /\ z \in Nat /\ sent[c] \in Nat
      /\ r \in Seq(Halves)
  BY CountedFacts DEF Connections
<1>2. n \in 0 .. z /\ n \in Nat /\ n # 0 /\ n <= z
  BY <1>1
<1>3. a \in Seq(Halves) /\ Len(a) = n /\ \A i \in 1 .. n : a[i] = f[i]
  BY <1>2, FirstFacts
<1>4. b \in Seq(Halves) /\ Len(b) = z - n /\ \A i \in 1 .. z - n : b[i] = f[n + i]
  BY <1>2, WithoutFacts
<1>5. /\ sent[c] <= Len(script[c])
      /\ k.handled = [i \in 1 .. h |-> i]
      /\ 2 * h + m + z = 2 * sent[c]
      /\ \A i \in 1 .. m : Place(r[i]) = 2 * h + i
      /\ \A i \in 1 .. z : Place(f[i]) = 2 * h + m + i
  BY DEF Counted
<1>6. l.recv_mbuf = r \o a /\ Len(l.handled) = h /\ l.handled = k.handled
  OBVIOUS
<1> HIDE DEF r, a, b, h, m, z
<1>7. /\ r \o a \in Seq(Halves) /\ Len(r \o a) = m + n
      /\ \A i \in 1 .. m + n : (r \o a)[i] = IF i <= m THEN r[i] ELSE a[i - m]
  BY <1>1, <1>3, ConcatProperties DEF m
<1>8. 2 * h + (m + n) + (z - n) = 2 * sent[c]
  BY <1>1, <1>2, <1>5
<1>9. ASSUME NEW i \in 1 .. m + n PROVE Place((r \o a)[i]) = 2 * h + i
  <2>1. CASE i <= m
    <3>1. i \in 1 .. m
      BY <1>1, <2>1
    <3> QED
      BY <1>5, <1>7, <2>1, <3>1
  <2>2. CASE ~(i <= m)
    <3>1. i - m \in 1 .. n /\ i - m \in 1 .. z /\ 2 * h + m + (i - m) = 2 * h + i
      BY <1>1, <1>2, <2>2
    <3>2. (r \o a)[i] = f[i - m]
      BY <1>3, <1>7, <2>2, <3>1
    <3> QED
      BY <1>5, <3>1, <3>2
  <2> QED
    BY <2>1, <2>2
<1>10. ASSUME NEW i \in 1 .. z - n PROVE Place(b[i]) = 2 * h + (m + n) + i
  <2>1. n + i \in 1 .. z /\ 2 * h + m + (n + i) = 2 * h + (m + n) + i
    BY <1>1, <1>2
  <2> QED
    BY <1>4, <1>5, <2>1
<1>11. Len(l.recv_mbuf) = m + n /\ m + n \in Nat /\ m + n # 0
  <2>1. m + n \in Nat /\ m + n # 0
    BY <1>1, <1>2
  <2>2. Len(l.recv_mbuf) = Len(r \o a)
    BY <1>6
  <2> QED
    BY <1>7, <2>1, <2>2
<1>12. l.recv_mbuf # <<>>
  BY <1>11
<1>13. Counted(c, l, b)
  <2>1. l.handled = [i \in 1 .. Len(l.handled) |-> i]
    BY <1>5, <1>6
  <2>2. 2 * Len(l.handled) + Len(l.recv_mbuf) + Len(b) = 2 * sent[c]
    BY <1>4, <1>6, <1>8, <1>11
  <2>3. \A i \in 1 .. Len(l.recv_mbuf) : Place(l.recv_mbuf[i]) = 2 * Len(l.handled) + i
    BY <1>6, <1>9, <1>11
  <2>4. \A i \in 1 .. Len(b) : Place(b[i]) = 2 * Len(l.handled) + Len(l.recv_mbuf) + i
    BY <1>4, <1>6, <1>10, <1>11
  <2> QED
    BY <1>5, <2>1, <2>2, <2>3, <2>4 DEF Counted
<1> QED
  BY <1>4, <1>6, <1>7, <1>12, <1>13 DEF b

\* Reading from the socket: n halves, or the end.
LEMMA ReadFine ==
  ASSUME TypeOK, NEW c \in Conns, NEW k \in Connections, ~Whole(k),
         Fine(c, k, inflight[c], received[c]),
         NEW n \in IF inflight[c] = <<>> THEN {0} ELSE 1 .. Len(inflight[c]),
         inflight[c] # <<>> \/ shut[c], NEW refused \in BOOLEAN
  PROVE  Treated(c, Read(c, k, n, refused), Without(inflight[c], n), received[c])
<1> DEFINE f == inflight[c]
           got == received[c]
           l == Read(c, k, n, refused)
<1>1. f \in Seq(Halves) /\ got \in Seq(Items)
  BY DEF TypeOK
<1>2. CASE f = <<>>
  <2>1. n = 0 /\ shut[c]
    BY <1>2
  <2>2. l = [k EXCEPT !.send_and_close = TRUE]
    BY <2>1 DEF Read
  <2>3. Without(f, n) = f
    <3>1. Len(f) = 0 /\ n \in 0 .. Len(f)
      BY <1>2, <2>1
    <3> HIDE DEF f
    <3>2. Without(f, n) \in Seq(Halves) /\ Len(Without(f, n)) = Len(f) - n
      BY <1>1, <3>1, WithoutFacts
    <3>3. Len(Without(f, n)) = 0
      BY <2>1, <3>1, <3>2
    <3> QED
      BY <1>2, <3>2, <3>3, EmptySeq
  <2> HIDE DEF l, f, got
  <2>4. /\ l \in Connections /\ l.recv_mbuf = k.recv_mbuf /\ l.websocket = k.websocket
        /\ l.handled = k.handled /\ l.close_immediately = k.close_immediately
        /\ l.file = k.file
        /\ l.crossed = k.crossed /\ l.broken = k.broken /\ l.send_mbuf = k.send_mbuf
    BY <2>2 DEF Connections
  <2>5. Fine(c, k, f, got)
    BY DEF f, got
  <2>6. Counted(c, l, f)
    BY <2>4, <2>5 DEF Counted, Fine
  <2>7. OneRequest(c, l)
    BY <2>4, <2>5 DEF OneRequest, Fine
  <2>8. OfHandled(l, got) /\ OfHandled(l, l.send_mbuf)
    BY <2>4, <2>5 DEF OfHandled, Fine
  <2>9. PiecesBefore(l, got) /\ PiecesBefore(l, l.send_mbuf)
    BY <2>4, <2>5 DEF PiecesBefore, Fine
  <2>10. FileOfLast(c, l)
    BY <2>4, <2>5 DEF FileOfLast, Fine
  <2>11. NothingLeft(c, l)
    <3> DEFINE h == Len(k.handled)
               m == Len(k.recv_mbuf)
    <3>1. h \in Nat /\ m \in Nat /\ sent[c] \in Nat
      BY <1>1, <2>5, CountedFacts DEF Fine
    <3>2. 2 * h + m + Len(f) = 2 * sent[c]
      BY <2>5 DEF Fine, Counted
    <3>3. Len(f) = 0
      BY <1>2
    <3>4. ~(m >= 2)
      BY DEF Whole
    <3>5. l.handled = k.handled /\ Len(l.handled) = h
      BY <2>4
    <3> HIDE DEF h, m
    <3>6. 2 * h + m = 2 * sent[c]
      BY <3>1, <3>2, <3>3
    <3>7. h = sent[c]
      BY <3>1, <3>4, <3>6
    <3>8. \A i \in 1 .. sent[c] : i <= Len(l.handled)
      BY <3>1, <3>5, <3>7
    <3> QED
      BY <2>1, <3>8 DEF NothingLeft
  <2>12. Intact(c, l, got)
    BY <2>1 DEF Intact
  <2>13. ~Whole(l)
    BY <2>4 DEF Whole
  <2> QED
    BY <2>3, <2>4, <2>6, <2>7, <2>8, <2>9, <2>10, <2>11, <2>12, <2>13
       DEF Fine, Still, Treated, l, f, got
<1>3. CASE f # <<>>
  <2> DEFINE j == [k EXCEPT !.recv_mbuf = @ \o SubSeq(f, 1, n)]
             g == Without(f, n)
  <2>1. n \in 1 .. Len(f)
    BY <1>3
  <2>2. n # 0
    BY <1>1, <2>1
  <2>3. l = Received(c, j, refused)
    BY <2>2 DEF Read
  <2> HIDE DEF l, f, got
  <2>4. Fine(c, k, f, got)
    BY DEF f, got
  <2>5. /\ j.handled = k.handled /\ j.recv_mbuf = k.recv_mbuf \o SubSeq(f, 1, n)
        /\ j.websocket = k.websocket /\ j.close_immediately = k.close_immediately
        /\ j.send_and_close = k.send_and_close /\ j.file = k.file
        /\ j.crossed = k.crossed /\ j.broken = k.broken /\ j.send_mbuf = k.send_mbuf
    BY DEF Connections
  <2>6. j = [k EXCEPT !.recv_mbuf = j.recv_mbuf]
    BY DEF Connections
  <2> HIDE DEF j
  <2>7. /\ Counted(c, j, g) /\ j.recv_mbuf \in Seq(Halves) /\ j.recv_mbuf # <<>>
        /\ g \in Seq(Halves)
    <3>1. Counted(c, k, f)
      BY <2>4 DEF Fine
    <3> QED
      BY <1>1, <2>1, <2>5, <3>1, ArrivedCounted
  <2> HIDE DEF g
  <2>8. j \in Connections
    <3> DEFINE r == j.recv_mbuf
    <3>1. r \in Seq(Halves) /\ j = [k EXCEPT !.recv_mbuf = r]
      BY <2>6, <2>7
    <3> HIDE DEF r
    <3> QED
      BY <3>1 DEF Connections
  <2>9. OneRequest(c, j)
    BY <2>4, <2>5 DEF OneRequest, Fine
  <2>10. OfHandled(j, got) /\ OfHandled(j, j.send_mbuf)
    BY <2>4, <2>5 DEF OfHandled, Fine
  <2>11. PiecesBefore(j, got) /\ PiecesBefore(j, j.send_mbuf)
    BY <2>4, <2>5 DEF PiecesBefore, Fine
  <2>12. FileOfLast(c, j) /\ NothingLeft(c, j)
    BY <2>4, <2>5 DEF FileOfLast, NothingLeft, Fine
  <2>13. Intact(c, j, got)
    <3>1. Pending(j) = Pending(k)
      BY <2>5 DEF Pending
    <3> DEFINE stream == got \o k.send_mbuf \o Pending(k)
    <3>2. Sensible(c, j, stream) <=> Sensible(c, k, stream)
      BY <2>5, SensibleSame
    <3> QED
      BY <2>4, <2>5, <3>1, <3>2 DEF Fine, Intact
  <2>14. Fine(c, j, g, got)
    BY <2>7, <2>9, <2>10, <2>11, <2>12, <2>13 DEF Fine
  <2>15. Treated(c, Received(c, j, refused), g, got)
    BY <1>1, <2>7, <2>8, <2>14, ReceivedFine
  <2> QED
    BY <2>3, <2>15 DEF l, g, f, got
<1> QED
  BY <1>2, <1>3

\* MG_EV_SEND and MG_EV_POLL.
LEMMA ToldFine ==
  ASSUME TypeOK, NEW c \in Conns, NEW k \in Connections, NEW f \in Seq(Halves),
         NEW got \in Seq(Items), Fine(c, k, f, got)
  PROVE  /\ Still(c, Told(c, k), f, got)
         /\ Told(c, k).recv_mbuf = k.recv_mbuf
         /\ Told(c, k).close_immediately = k.close_immediately
<1>1. CASE k.websocket
  <2>1. Told(c, k) = k
    BY <1>1 DEF Told
  <2> QED
    BY <2>1 DEF Still
<1>2. CASE ~k.websocket
  <2> DEFINE t == Transfer(c, k)
  <2>1. Told(c, k) = t
    BY <1>2 DEF Told
  <2>2. AfterTransfer(c, k, t)
    BY TransferFields
  <2> HIDE DEF t
  <2>3. Still(c, t, f, got)
    BY <2>2, TransferFine
  <2>4. t.recv_mbuf = k.recv_mbuf /\ t.close_immediately = k.close_immediately
    BY <2>2 DEF AfterTransfer, SameReceiving
  <2> QED
    BY <2>1, <2>3, <2>4
<1> QED
  BY <1>1, <1>2

\* What is in a part of a sequence is in the sequence.
LEMMA OfParts ==
  ASSUME NEW k, NEW s \in Seq(Items), NEW n \in 0 .. Len(s)
  PROVE  /\ OfHandled(k, s) => OfHandled(k, SubSeq(s, 1, n)) /\ OfHandled(k, Without(s, n))
         /\ PiecesBefore(k, s) => PiecesBefore(k, SubSeq(s, 1, n)) /\ PiecesBefore(k, Without(s, n))
<1>1. Len(s) \in Nat /\ n \in Nat /\ n <= Len(s)
  BY LenProperties
<1>2. /\ Len(SubSeq(s, 1, n)) = n
      /\ \A i \in 1 .. n : SubSeq(s, 1, n)[i] = s[i]
      /\ Len(Without(s, n)) = Len(s) - n
      /\ \A i \in 1 .. Len(s) - n : Without(s, n)[i] = s[n + i]
  BY FirstFacts, WithoutFacts
<1>3. \A i \in 1 .. Len(SubSeq(s, 1, n)) : i \in 1 .. Len(s) /\ SubSeq(s, 1, n)[i] = s[i]
  BY <1>1, <1>2
<1>4. \A i \in 1 .. Len(Without(s, n)) : n + i \in 1 .. Len(s) /\ Without(s, n)[i] = s[n + i]
  BY <1>1, <1>2
<1>5. OfHandled(k, s) => OfHandled(k, SubSeq(s, 1, n)) /\ OfHandled(k, Without(s, n))
  BY <1>3, <1>4 DEF OfHandled
<1>6. PiecesBefore(k, s) => PiecesBefore(k, SubSeq(s, 1, n)) /\ PiecesBefore(k, Without(s, n))
  BY <1>3, <1>4 DEF PiecesBefore
<1> QED
  BY <1>5, <1>6

LEMMA OfBoth ==
  ASSUME NEW k, NEW s \in Seq(Items), NEW t \in Seq(Items)
  PROVE  /\ OfHandled(k, s) /\ OfHandled(k, t) => OfHandled(k, s \o t)
         /\ PiecesBefore(k, s) /\ PiecesBefore(k, t) => PiecesBefore(k, s \o t)
<1>0. InEither(s \o t, s, t)
  BY ElementsOfConcat
<1>1. ASSUME OfHandled(k, s), OfHandled(k, t) PROVE OfHandled(k, s \o t)
  BY <1>0, <1>1 DEF OfHandled, InEither
<1>2. ASSUME PiecesBefore(k, s), PiecesBefore(k, t) PROVE PiecesBefore(k, s \o t)
  BY <1>0, <1>2 DEF PiecesBefore, InEither
<1> QED
  BY <1>1, <1>2

\* Writing to the socket: m items that the browser gets, unless it has closed;
\* none if the write fails.
LEMMA WriteFine ==
  ASSUME TypeOK, NEW c \in Conns, NEW k \in Connections, NEW f \in Seq(Halves),
         NEW got \in Seq(Items), Fine(c, k, f, got),
         NEW m \in (IF shut[c] THEN {0} ELSE {}) \cup 1 .. Len(k.send_mbuf)
  PROVE  LET now == IF shut[c] THEN got ELSE got \o SubSeq(k.send_mbuf, 1, m) IN
         /\ Still(c, Write(c, k, m), f, now) /\ now \in Seq(Items)
         /\ Write(c, k, m).recv_mbuf = k.recv_mbuf
         /\ m # 0 => Write(c, k, m).close_immediately = k.close_immediately
<1> DEFINE now == IF shut[c] THEN got ELSE got \o SubSeq(k.send_mbuf, 1, m)
           l == Write(c, k, m)
<1> SUFFICES /\ Still(c, l, f, now) /\ now \in Seq(Items)
             /\ l.recv_mbuf = k.recv_mbuf
             /\ m # 0 => l.close_immediately = k.close_immediately
  OBVIOUS
<1>1. k.send_mbuf \in Seq(Items) /\ Len(k.send_mbuf) \in Nat
  BY LenProperties DEF Connections
<1>2. CASE m = 0
  <2>1. shut[c]
    BY <1>1, <1>2
  <2>2. l = [k EXCEPT !.close_immediately = TRUE, !.broken = TRUE]
    BY <1>2 DEF Write
  <2>3. now = got
    BY <2>1
  <2> HIDE DEF l, now
  <2>4. /\ l \in Connections /\ l.recv_mbuf = k.recv_mbuf /\ l.websocket = k.websocket
        /\ l.handled = k.handled /\ l.file = k.file /\ l.broken /\ l.send_mbuf = k.send_mbuf
    BY <2>2 DEF Connections
  <2>5. Counted(c, l, f)
    BY <2>4 DEF Counted, Fine
  <2>6. OneRequest(c, l)
    BY <2>4 DEF OneRequest, Fine
  <2>7. OfHandled(l, got) /\ OfHandled(l, l.send_mbuf)
    BY <2>4 DEF OfHandled, Fine
  <2>8. PiecesBefore(l, got) /\ PiecesBefore(l, l.send_mbuf)
    BY <2>4 DEF PiecesBefore, Fine
  <2>9. FileOfLast(c, l)
    BY <2>4 DEF FileOfLast, Fine
  <2>10. NothingLeft(c, l) /\ Intact(c, l, got)
    BY <2>4 DEF NothingLeft, Intact
  <2>11. Still(c, l, f, got)
    BY <2>4, <2>5, <2>6, <2>7, <2>8, <2>9, <2>10 DEF Still, Fine
  <2> QED
    BY <1>2, <2>3, <2>4, <2>11
<1>3. CASE m # 0
  <2> DEFINE b == Without(k.send_mbuf, m)
             a == SubSeq(k.send_mbuf, 1, m)
             j == [k EXCEPT !.send_mbuf = b]
  <2>1. m \in 0 .. Len(k.send_mbuf)
    BY <1>1, <1>3
  <2>2. l = Told(c, j)
    BY <1>3 DEF Write
  <2>3. a \in Seq(Items) /\ b \in Seq(Items) /\ a \o b = k.send_mbuf
    BY <1>1, <2>1, FirstFacts, WithoutFacts, FirstAndRest
  <2>4. /\ OfHandled(k, a) /\ OfHandled(k, b) /\ PiecesBefore(k, a) /\ PiecesBefore(k, b)
    BY <1>1, <2>1, OfParts DEF Fine
  <2>5. now = IF shut[c] THEN got ELSE got \o a
    OBVIOUS
  <2> HIDE DEF a, b, l, now
  <2>6. now \in Seq(Items) /\ OfHandled(k, now) /\ PiecesBefore(k, now)
    <3>1. got \o a \in Seq(Items) /\ OfHandled(k, got \o a) /\ PiecesBefore(k, got \o a)
      BY <2>3, <2>4, OfBoth, ConcatProperties DEF Fine
    <3> QED
      BY <2>5, <3>1 DEF Fine
  <2>7. /\ j \in Connections /\ j.recv_mbuf = k.recv_mbuf /\ j.websocket = k.websocket
        /\ j.handled = k.handled /\ j.close_immediately = k.close_immediately
        /\ j.send_and_close = k.send_and_close /\ j.file = k.file
        /\ j.crossed = k.crossed /\ j.broken = k.broken /\ j.send_mbuf = b
    BY <2>3 DEF Connections
  <2> HIDE DEF j
  <2>8. Counted(c, j, f)
    BY <2>7 DEF Counted, Fine
  <2>9. OneRequest(c, j)
    BY <2>7 DEF OneRequest, Fine
  <2>10. OfHandled(j, now) /\ OfHandled(j, j.send_mbuf)
    BY <2>4, <2>6, <2>7 DEF OfHandled
  <2>11. PiecesBefore(j, now) /\ PiecesBefore(j, j.send_mbuf)
    BY <2>4, <2>6, <2>7 DEF PiecesBefore
  <2>12. FileOfLast(c, j) /\ NothingLeft(c, j)
    BY <2>7 DEF FileOfLast, NothingLeft, Fine
  <2>13. Intact(c, j, now)
    <3> SUFFICES ASSUME ~j.crossed, ~j.broken, ~shut[c]
                 PROVE  Sensible(c, j, now \o j.send_mbuf \o Pending(j))
      BY DEF Intact
    <3>1. now = got \o a
      BY <2>5
    <3>2. (got \o a) \o b = got \o k.send_mbuf
      <4>1. a \in Seq(Items) /\ b \in Seq(Items)
        BY <2>3
      <4>2. (got \o a) \o b = got \o (a \o b)
        BY <4>1, Associative
      <4> QED
        BY <2>3, <4>2
    <3>3. Pending(j) = Pending(k)
      BY <2>7 DEF Pending
    <3> DEFINE stream == got \o k.send_mbuf \o Pending(k)
    <3>4. Sensible(c, j, stream) <=> Sensible(c, k, stream)
      BY <2>7, SensibleSame
    <3>5. Sensible(c, k, stream)
      BY <2>7 DEF Fine, Intact
    <3> QED
      BY <2>7, <3>1, <3>2, <3>3, <3>4, <3>5
  <2>14. Fine(c, j, f, now)
    BY <2>8, <2>9, <2>10, <2>11, <2>12, <2>13 DEF Fine
  <2>15. /\ Still(c, Told(c, j), f, now)
         /\ Told(c, j).recv_mbuf = j.recv_mbuf
         /\ Told(c, j).close_immediately = j.close_immediately
    BY <2>6, <2>7, <2>14, ToldFine
  <2> QED
    BY <2>2, <2>6, <2>7, <2>15
<1> QED
  BY <1>2, <1>3

---------------------------------------------------------------------------
(* The list of connections when some of them are closed.                   *)

Once(g) == \A i, j \in 1 .. Len(g) : g[i] = g[j] => i = j

\* g has what is left of the first n in list.
IsOthers(g, list, over, n) ==
  /\ g \in Seq(Conns) /\ Once(g)
  /\ \A x : (\E j \in 1 .. Len(g) : g[j] = x) <=> x \notin over /\ \E j \in 1 .. n : list[j] = x

LEMMA OthersNext ==
  ASSUME NEW list \in Seq(Conns), Once(list), NEW over, NEW n \in 1 .. Len(list),
         NEW g, IsOthers(g, list, over, n - 1)
  PROVE  IsOthers(g \o (IF list[n] \in over THEN <<>> ELSE <<list[n]>>), list, over, n)
<1>1. /\ Len(list) \in Nat /\ n \in Nat /\ n <= Len(list) /\ n \in 1 .. n
      /\ list[n] \in Conns /\ g \in Seq(Conns) /\ Len(g) \in Nat /\ Once(g)
      /\ \A x : (\E j \in 1 .. Len(g) : g[j] = x) <=>
                  x \notin over /\ \E j \in 1 .. n - 1 : list[j] = x
  BY ElementOfSeq, LenProperties DEF IsOthers
<1>2. \A j \in 1 .. n : j \in 1 .. n - 1 \/ j = n
  BY <1>1
<1>3. \A j \in 1 .. n - 1 : j \in 1 .. n /\ j \in 1 .. Len(list) /\ j # n
  BY <1>1
<1>4. CASE list[n] \in over
  <2>1. g \o <<>> = g
    BY <1>1, ConcatEmptySeq
  <2>2. \A x : (\E j \in 1 .. Len(g) : g[j] = x) <=> x \notin over /\ \E j \in 1 .. n : list[j] = x
    BY <1>1, <1>2, <1>3, <1>4
  <2> QED
    BY <1>1, <1>4, <2>1, <2>2 DEF IsOthers
<1>5. CASE list[n] \notin over
  <2> DEFINE y == list[n]
             h == Append(g, y)
             m == Len(g)
  <2>1. y \in Conns /\ y \notin over /\ m \in Nat
    BY <1>1, <1>5
  <2>2. \A j \in 1 .. n - 1 : list[j] # y
    BY <1>3 DEF Once
  <2> HIDE DEF y
  <2>3. /\ h \in Seq(Conns) /\ Len(h) = m + 1 /\ h[m + 1] = y
        /\ \A j \in 1 .. m : h[j] = g[j]
        /\ h = g \o <<y>>
    BY <1>1, <2>1, AppendProperties, AppendIsConcat
  <2>4. \A j \in 1 .. m : g[j] # y
    BY <1>1, <2>2
  <2> HIDE DEF h
  <2>5. \A j \in 1 .. m + 1 : j \in 1 .. m \/ j = m + 1
    BY <2>1
  <2>6. \A j \in 1 .. m : j \in 1 .. m + 1
    BY <2>1
  <2>7. m + 1 \in 1 .. m + 1
    BY <2>1
  <2>8. Once(g) /\ \A x : (\E j \in 1 .. m : g[j] = x) <=>
                            x \notin over /\ \E j \in 1 .. n - 1 : list[j] = x
    BY <1>1
  <2> HIDE DEF m
  <2>9. Once(h)
    <3> SUFFICES ASSUME NEW i \in 1 .. m + 1, NEW j \in 1 .. m + 1, h[i] = h[j]
                 PROVE  i = j
      BY <2>3 DEF Once
    <3> QED
      BY <2>3, <2>4, <2>5, <2>8 DEF Once, m
  <2>10. ASSUME NEW x
         PROVE  (\E j \in 1 .. m + 1 : h[j] = x) <=> x \notin over /\ \E j \in 1 .. n : list[j] = x
    <3>1. (\E j \in 1 .. m + 1 : h[j] = x) <=> (\E j \in 1 .. m : g[j] = x) \/ x = y
      BY <2>3, <2>5, <2>6, <2>7
    <3>2. (\E j \in 1 .. n : list[j] = x) <=> (\E j \in 1 .. n - 1 : list[j] = x) \/ x = y
      BY <1>1, <1>2, <1>3 DEF y
    <3> QED
      BY <2>1, <2>8, <3>1, <3>2
  <2>11. IsOthers(h, list, over, n)
    BY <2>3, <2>9, <2>10 DEF IsOthers
  <2> QED
    BY <1>5, <2>3, <2>11 DEF y
<1> QED
  BY <1>4, <1>5

LEMMA OthersFacts ==
  ASSUME NEW list \in Seq(Conns), Once(list), NEW over
  PROVE  IsOthers(Others(list, over), list, over, Len(list))
<1> DEFINE e(i) == IF list[i] \in over THEN <<>> ELSE <<list[i]>>
           ss == [i \in 1 .. Len(list) |-> e(i)]
           n == Len(list)
<1>1. n \in Nat /\ DOMAIN list = 1 .. n
  BY LenProperties
<1>2. Others(list, over) = FlattenSeq(ss)
  BY <1>1 DEF Others
<1>3. Len(ss) = n /\ \A i \in 1 .. n : ss[i] = e(i)
  BY <1>1
<1>4. IsOthers(<<>>, list, over, 0)
  BY DEF IsOthers, Once
<1>5. CASE n = 0
  <2>1. ss = <<>>
    BY <1>5
  <2> QED
    BY <1>2, <1>4, <1>5, <2>1, FlattenEmpty
<1>6. CASE n # 0
  <2> HIDE DEF ss
  <2>1. PICK f : IsFlat(f, ss, n) /\ FlattenSeq(ss) = f[n]
    <3>1. Len(ss) \in Nat \ {0}
      BY <1>1, <1>3, <1>6
    <3> QED
      BY <1>3, <3>1, FlattenIsFlat
  <2> HIDE DEF n
  <2> DEFINE Bad == {i \in 1 .. n : ~IsOthers(f[i], list, over, i)}
  <2>2. ASSUME NEW i \in 1 .. n, i # 1 => IsOthers(f[i - 1], list, over, i - 1)
        PROVE  IsOthers(f[i], list, over, i)
    <3> DEFINE g == IF i = 1 THEN <<>> ELSE f[i - 1]
    <3>1. f[i] = IF i = 1 THEN ss[i] ELSE f[i - 1] \o ss[i]
      BY <1>1, <2>1, FlatStep
    <3>2. ss[i] = IF list[i] \in over THEN <<>> ELSE <<list[i]>>
      BY <1>3
    <3>3. i \in 1 .. Len(list)
      BY DEF n
    <3>4. ss[i] \in Seq(Conns)
      <4>1. list[i] \in Conns
        BY <3>3, ElementOfSeq
      <4> QED
        BY <3>2, <4>1
    <3>5. f[i] = g \o ss[i]
      BY <3>1, <3>4, ConcatEmptySeq
    <3>6. IsOthers(g, list, over, i - 1)
      <4>1. CASE i = 1
        <5>1. i - 1 = 0
          BY <4>1
        <5> QED
          BY <1>4, <4>1, <5>1
      <4>2. CASE i # 1
        BY <2>2, <4>2
      <4> QED
        BY <4>1, <4>2
    <3> HIDE DEF g
    <3>7. IsOthers(g \o (IF list[i] \in over THEN <<>> ELSE <<list[i]>>), list, over, i)
      BY <3>3, <3>6, OthersNext
    <3> QED
      BY <3>2, <3>5, <3>7
  <2>3. Bad = {}
    <3> SUFFICES ASSUME Bad # {} PROVE FALSE
      OBVIOUS
    <3>1. Bad \in SUBSET Nat
      OBVIOUS
    <3>2. PICK i \in Bad : \A m \in Bad : ~(m < i)
      <4> HIDE DEF Bad
      <4> QED
        BY <3>1, Least
    <3>3. i \in 1 .. n /\ (i # 1 => i - 1 \in 1 .. n /\ i - 1 < i)
      BY <1>1, <3>2
    <3>4. i # 1 => IsOthers(f[i - 1], list, over, i - 1)
      BY <3>2, <3>3
    <3> QED
      BY <2>2, <3>2, <3>3, <3>4
  <2>4. n \in 1 .. n
    BY <1>1, <1>6
  <2>5. IsOthers(f[n], list, over, n)
    BY <2>3, <2>4
  <2> QED
    BY <1>2, <2>1, <2>5 DEF n
<1> QED
  BY <1>5, <1>6

---------------------------------------------------------------------------
(* What does not change from one state to the next.                        *)

LEMMA AnswersLater ==
  ASSUME script' = script, NEW c
  PROVE  Answers(c, conn[c])' = Answers(c, conn'[c])
<1>1. [i \in DOMAIN conn[c].handled |-> Answer(c, conn[c].handled[i])]' =
      [i \in DOMAIN conn'[c].handled |-> Answer(c, conn'[c].handled[i])]
  BY DEF Answer, Kind
<1> QED
  BY <1>1 DEF Answers

LEMMA SensibleLater ==
  ASSUME script' = script, NEW c
  PROVE  /\ Sensible(c, conn[c], received[c])' <=> Sensible(c, conn'[c], received'[c])
         /\ Sensible(c, conn[c], received[c] \o conn[c].send_mbuf \o Pending(conn[c]))' <=>
              Sensible(c, conn'[c], received'[c] \o conn'[c].send_mbuf \o Pending(conn'[c]))
<1>1. Answers(c, conn[c])' = Answers(c, conn'[c])
  BY AnswersLater
<1>2. Pending(conn[c])' = Pending(conn'[c])
  BY DEF Pending
<1> QED
  BY <1>1, <1>2 DEF Sensible

LEMMA FineLater ==
  ASSUME NEW c, script' = script, sent'[c] = sent[c], shut'[c] = shut[c],
         Fine(c, conn'[c], inflight'[c], received'[c])
  PROVE  Fine(c, conn[c], inflight[c], received[c])'
<1>1. script' = script /\ sent'[c] = sent[c] /\ shut'[c] = shut[c]
  OBVIOUS
<1>2. Counted(c, conn[c], inflight[c])'
  BY <1>1 DEF Fine, Counted, Place
<1>3. OneRequest(c, conn[c])'
  BY <1>1 DEF Fine, OneRequest, Kind
<1>4. OfHandled(conn[c], received[c])' /\ OfHandled(conn[c], conn[c].send_mbuf)'
  BY <1>1 DEF Fine, OfHandled
<1>5. PiecesBefore(conn[c], received[c])' /\ PiecesBefore(conn[c], conn[c].send_mbuf)'
  BY <1>1 DEF Fine, PiecesBefore
<1>6. FileOfLast(c, conn[c])'
  BY <1>1 DEF Fine, FileOfLast, Kind
<1>7. NothingLeft(c, conn[c])'
  BY <1>1 DEF Fine, NothingLeft, Kind
<1>8. Intact(c, conn[c], received[c])'
  BY <1>1, SensibleLater DEF Fine, Intact
<1> QED
  BY <1>2, <1>3, <1>4, <1>5, <1>6, <1>7, <1>8 DEF Fine

LEMMA DoneLater ==
  ASSUME NEW c, script' = script, sent'[c] = sent[c], shut'[c] = shut[c],
         AllDone(c, conn'[c], received'[c])
  PROVE  AllDone(c, conn[c], received[c])'
<1>1. script' = script /\ sent'[c] = sent[c] /\ shut'[c] = shut[c]
  OBVIOUS
<1> QED
  BY <1>1, SensibleLater DEF AllDone, Kind, ToSet

LEMMA Untouched ==
  ASSUME NEW c, script' = script, sent'[c] = sent[c], shut'[c] = shut[c],
         conn'[c] = conn[c], inflight'[c] = inflight[c], received'[c] = received[c]
  PROVE  /\ Fine(c, conn[c], inflight[c], received[c]) =>
              Fine(c, conn[c], inflight[c], received[c])'
         /\ AllDone(c, conn[c], received[c]) => AllDone(c, conn[c], received[c])'
<1>1. ASSUME Fine(c, conn[c], inflight[c], received[c])
      PROVE  Fine(c, conn[c], inflight[c], received[c])'
  <2>1. Fine(c, conn'[c], inflight'[c], received'[c])
    BY <1>1
  <2> QED
    BY <2>1, FineLater
<1>2. ASSUME AllDone(c, conn[c], received[c])
      PROVE  AllDone(c, conn[c], received[c])'
  <2>1. AllDone(c, conn'[c], received'[c])
    BY <1>2
  <2> QED
    BY <2>1, DoneLater
<1> QED
  BY <1>1, <1>2

---------------------------------------------------------------------------
(* The initial states, and the steps of browsers.                          *)

LEMMA NewFacts ==
  /\ NewConnection \in Connections
  /\ NewConnection.recv_mbuf = <<>> /\ NewConnection.send_mbuf = <<>>
  /\ NewConnection.handled = <<>> /\ NewConnection.file = NoFile
  /\ ~NewConnection.websocket /\ ~NewConnection.send_and_close
  /\ ~NewConnection.close_immediately /\ ~Whole(NewConnection)
<1>1. NoFile \in [nr : Nat, left : 0 .. FilePieces]
  BY WebConnectionsAssumption DEF NoFile
<1>2. <<>> \in Seq(Halves) /\ <<>> \in Seq(Items) /\ <<>> \in Seq(Nat)
  BY EmptySeq
<1>3. ~(0 >= 2)
  OBVIOUS
<1> QED
  BY <1>1, <1>2, <1>3 DEF NewConnection, Connections, Whole

LEMMA InitKeeps ==
  ASSUME Init
  PROVE  TypeOK /\ Inv
<1>1. TypeOK
  BY NewFacts, EmptySeq, WebConnectionsAssumption DEF Init, TypeOK
<1>2. ASSUME NEW c \in Conns
      PROVE  /\ life[c] = "new" /\ conn[c] = NewConnection /\ received[c] = <<>>
             /\ inflight[c] = <<>> /\ sent[c] = 0
  BY DEF Init
<1>3. ASSUME NEW c \in Conns
      PROVE  Fine(c, NewConnection, <<>>, <<>>)
  <2>1. Counted(c, NewConnection, <<>>)
    <3>1. sent[c] = 0 /\ 0 <= Len(script[c])
      <4>1. Len(script[c]) \in Nat
        BY <1>1, OrderlyFacts
      <4> QED
        BY <1>2, <4>1
    <3>2. <<>> = [i \in 1 .. Len(<<>>) |-> i]
      OBVIOUS
    <3> QED
      BY <3>1, <3>2, NewFacts DEF Counted
  <2>2. OneRequest(c, NewConnection)
    BY <1>2, NewFacts DEF OneRequest
  <2>3. OfHandled(NewConnection, <<>>) /\ PiecesBefore(NewConnection, <<>>)
    BY DEF OfHandled, PiecesBefore
  <2>4. FileOfLast(c, NewConnection) /\ NothingLeft(c, NewConnection)
    BY NewFacts DEF FileOfLast, NothingLeft, NoFile
  <2>5. Intact(c, NewConnection, <<>>)
    <3>1. [i \in DOMAIN NewConnection.handled |-> Answer(c, NewConnection.handled[i])] = <<>>
      BY NewFacts
    <3>2. Answers(c, NewConnection) = <<>>
      BY <3>1, FlattenEmpty DEF Answers
    <3>3. NewConnection.file.left = 0
      BY NewFacts DEF NoFile
    <3>4. Pending(NewConnection) = <<>>
      BY <3>3, NewFacts, PendingPieces
    <3>5. <<>> \o NewConnection.send_mbuf \o Pending(NewConnection) = <<>>
      BY <3>4, NewFacts
    <3> QED
      BY <3>2, <3>5, NewFacts DEF Intact, Sensible
  <2> QED
    BY <2>1, <2>2, <2>3, <2>4, <2>5, NewFacts DEF Fine
<1>4. ConnInv
  BY <1>2, <1>3 DEF ConnInv
<1>5. ListInv
  BY DEF Init, ListInv
<1>6. PollInv /\ ClosedInv
  BY <1>2 DEF PollInv, ClosedInv
<1> QED
  BY <1>1, <1>4, <1>5, <1>6 DEF Inv

LEMMA TodoType ==
  ASSUME TypeOK
  PROVE  /\ Len(todo) \in Nat
         /\ \A i \in 1 .. Len(todo) :
              todo[i].c \in Conns /\ todo[i].read \in BOOLEAN /\ todo[i].write \in BOOLEAN
<1> DEFINE Flags == [c : Conns, read : BOOLEAN, write : BOOLEAN]
<1>1. todo \in Seq(Flags)
  BY DEF TypeOK
<1> HIDE DEF Flags
<1>2. Len(todo) \in Nat /\ \A i \in 1 .. Len(todo) : todo[i] \in Flags
  BY <1>1, ElementOfSeq, LenProperties
<1> QED
  BY <1>2 DEF Flags

LEMMA ConnectKeeps ==
  ASSUME TypeOK, Inv, NEW c \in Conns, Connect(c)
  PROVE  TypeOK' /\ Inv'
<1>1. /\ life[c] = "new" /\ life' = [life EXCEPT ![c] = "backlog"]
      /\ script' = script /\ sent' = sent /\ shut' = shut
      /\ UNCHANGED <<inflight, received, conn, spc, active_connections, todo, updates>>
  BY DEF Connect, browserVars
<1>2. /\ life' \in [Conns -> {"new", "backlog", "open", "closed"}] /\ life'[c] = "backlog"
      /\ \A d \in Conns : d # c => life'[d] = life[d]
  BY <1>1 DEF TypeOK
<1>3. TypeOK'
  BY <1>1, <1>2 DEF TypeOK
<1>4. ASSUME NEW d \in Conns
      PROVE  /\ Fine(d, conn[d], inflight[d], received[d]) =>
                  Fine(d, conn[d], inflight[d], received[d])'
             /\ AllDone(d, conn[d], received[d]) => AllDone(d, conn[d], received[d])'
  BY <1>1, Untouched
<1>5. ConnInv'
  BY <1>1, <1>2, <1>4 DEF Inv, ConnInv, NewConnection, NoFile
<1>6. ListInv'
  <2>1. \A d \in Conns : life'[d] = "open" <=> life[d] = "open"
    BY <1>1, <1>2
  <2>2. \A i \in 1 .. Len(todo) : todo[i].c \in Conns
    BY TodoType
  <2> QED
    BY <1>1, <2>1, <2>2 DEF Inv, ListInv
<1>7. PollInv'
  BY <1>1, <1>2 DEF Inv, PollInv, Whole
<1>8. ClosedInv'
  BY <1>1, <1>2, <1>4 DEF Inv, ClosedInv
<1> QED
  BY <1>3, <1>5, <1>6, <1>7, <1>8 DEF Inv

LEMMA ShutKeeps ==
  ASSUME TypeOK, Inv, NEW c \in Conns, Shut(c)
  PROVE  TypeOK' /\ Inv'
<1>1. /\ life[c] \in {"backlog", "open"} /\ shut' = [shut EXCEPT ![c] = TRUE]
      /\ script' = script /\ sent' = sent
      /\ UNCHANGED <<life, inflight, received, conn, spc, active_connections, todo, updates>>
  BY DEF Shut
<1>2. /\ shut' \in [Conns -> BOOLEAN] /\ shut'[c]
      /\ \A d \in Conns : d # c => shut'[d] = shut[d]
  BY <1>1 DEF TypeOK
<1>3. TypeOK'
  BY <1>1, <1>2 DEF TypeOK
<1>4. ASSUME NEW d \in Conns, d # c
      PROVE  /\ Fine(d, conn[d], inflight[d], received[d]) =>
                  Fine(d, conn[d], inflight[d], received[d])'
             /\ AllDone(d, conn[d], received[d]) => AllDone(d, conn[d], received[d])'
  BY <1>1, <1>2, <1>4, Untouched
<1>5. Fine(c, conn[c], inflight[c], received[c])'
  <2>1. Fine(c, conn[c], inflight[c], received[c])
    BY <1>1 DEF Inv, ConnInv
  <2>2. Counted(c, conn[c], inflight[c])' /\ OneRequest(c, conn[c])'
    BY <1>1, <2>1 DEF Fine, Counted, Place, OneRequest, Kind
  <2>3. /\ OfHandled(conn[c], received[c])' /\ OfHandled(conn[c], conn[c].send_mbuf)'
        /\ PiecesBefore(conn[c], received[c])' /\ PiecesBefore(conn[c], conn[c].send_mbuf)'
    BY <1>1, <2>1 DEF Fine, OfHandled, PiecesBefore
  <2>4. FileOfLast(c, conn[c])'
    BY <1>1, <2>1 DEF Fine, FileOfLast, Kind
  <2>5. NothingLeft(c, conn[c])'
    BY <1>1, <1>2, <2>1 DEF Fine, NothingLeft, Kind
  <2>6. Intact(c, conn[c], received[c])'
    BY <1>2 DEF Intact
  <2> QED
    BY <2>2, <2>3, <2>4, <2>5, <2>6 DEF Fine
<1>6. ConnInv'
  BY <1>1, <1>4, <1>5 DEF Inv, ConnInv, NewConnection, NoFile
<1>7. ListInv'
  <2>1. \A i \in 1 .. Len(todo) : todo[i].c \in Conns
    BY TodoType
  <2>2. \A d \in Conns : shut[d] => shut'[d]
    BY <1>2
  <2> QED
    BY <1>1, <2>1, <2>2 DEF Inv, ListInv
<1>8. PollInv'
  BY <1>1 DEF Inv, PollInv, Whole
<1>9. ClosedInv'
  BY <1>1, <1>4 DEF Inv, ClosedInv
<1> QED
  BY <1>3, <1>6, <1>7, <1>8, <1>9 DEF Inv

\* Why a browser that sends its next message has been answered the last one.
LEMMA SentFacts ==
  ASSUME TypeOK, NEW c \in Conns, Fine(c, conn[c], inflight[c], received[c]),
         SendMessage(c), ~conn[c].websocket
  PROVE  /\ sent[c] <= Len(conn[c].handled)
         /\ Kind(c, sent[c] + 1) \in Requests
         /\ conn[c].file.left = 0
<1> DEFINE k == conn[c]
           got == received[c]
           n == Len(k.handled)
           s == sent[c]
<1>1. k \in Connections /\ got \in Seq(Items) /\ inflight[c] \in Seq(Halves)
  BY DEF TypeOK
<1>2. /\ n \in Nat /\ s \in Nat /\ Len(script[c]) \in Nat /\ s < Len(script[c]) /\ n <= s
  <2>1. Counted(c, k, inflight[c]) /\ s < Len(script[c])
    BY DEF Fine, SendMessage
  <2> QED
    BY <1>1, <2>1, CountedFacts
<1>3. FilePieces \in Nat \ {0} /\ k.file.left \in 0 .. FilePieces
  BY <1>1, WebConnectionsAssumption DEF Connections
<1>4. OfHandled(k, got) /\ PiecesBefore(k, got) /\ FileOfLast(c, k) /\ OneRequest(c, k)
  BY DEF Fine
<1>5. CASE s = 0
  <2>1. Kind(c, s + 1) \in Requests
    BY <1>2, <1>5, OrderlyFacts
  <2>2. k.file.left = 0
    <3>1. k.file.left # 0 => k.file.nr \in 1 .. n /\ n = 0
      BY <1>4, <1>5 DEF FileOfLast
    <3>2. \A i \in 1 .. n : n # 0
      BY <1>2
    <3> QED
      BY <3>1, <3>2
  <2> QED
    BY <1>2, <1>5, <2>1, <2>2
<1>6. CASE s # 0
  <2> HIDE DEF k, got, n, s
  <2>1. s \in 1 .. s /\ s \in 1 .. Len(script[c]) /\ s # Len(script[c])
    BY <1>2, <1>6
  <2>2. Kind(c, s) \in Requests
    BY <1>4, <2>1 DEF OneRequest, k, s
  <2>3. Kind(c, s) \in {"get", "upgrade"}
    BY <2>1, <2>2, OrderlyFacts DEF Requests
  <2>4. ToSet(Answer(c, s)) \subseteq ToSet(got)
    <3>1. s > 0
      BY <1>2, <1>6
    <3> QED
      BY <3>1 DEF SendMessage, Answered, got, s
  <2>5. ASSUME NEW j \in 1 .. Len(Answer(c, s))
        PROVE  \E i \in 1 .. Len(got) : got[i] = Answer(c, s)[j]
    <3>1. Answer(c, s) \in Seq(Items) /\ got \in Seq(Items)
      BY <1>1, <1>2, AnswerType
    <3>2. DOMAIN Answer(c, s) = 1 .. Len(Answer(c, s)) /\ DOMAIN got = 1 .. Len(got)
      BY <3>1, LenProperties
    <3>3. Answer(c, s)[j] \in ToSet(got)
      BY <2>4, <3>2 DEF ToSet
    <3> QED
      BY <3>2, <3>3 DEF ToSet
  <2>6. CASE Kind(c, s) = "upgrade"
    <3>1. Answer(c, s) = <<Item("handshake", s, 0)>>
      BY <1>2, <2>6, AnswerType
    <3>2. PICK i \in 1 .. Len(got) : got[i] = Item("handshake", s, 0)
      <4>1. 1 \in 1 .. Len(Answer(c, s)) /\ Answer(c, s)[1] = Item("handshake", s, 0)
        BY <3>1
      <4> QED
        BY <2>5, <4>1
    <3>3. got[i].kind = "handshake"
      BY <3>2 DEF Item
    <3>4. k.websocket
      BY <1>4, <3>2, <3>3 DEF OfHandled
    <3> QED
      BY <3>4 DEF k
  <2>7. CASE Kind(c, s) = "get"
    <3> DEFINE x == Item("head", s, 0)
               ps == Pieces(s, 1, FilePieces)
    <3>1. Answer(c, s) = <<x>> \o ps
      BY <1>2, <2>7, AnswerType
    <3>2. x \in Items /\ x.kind = "head" /\ x.nr = s
      BY <1>2 DEF Item, Items
    <3>3. /\ ps \in Seq(Items) /\ Len(ps) = FilePieces
          /\ ps[FilePieces] = [kind |-> "piece", nr |-> s, piece |-> 1 + FilePieces - 1]
      <4>1. ArePieces(ps, s, 1, FilePieces)
        BY <1>2, <1>3, PiecesFacts
      <4>2. FilePieces \in 1 .. FilePieces
        BY <1>3
      <4> HIDE DEF ps
      <4> QED
        BY <4>1, <4>2 DEF ArePieces
    <3> HIDE DEF x, ps
    <3>4. /\ Len(<<x>>) = 1 /\ <<x>>[1] = x /\ <<x>> \in Seq(Items)
      BY <3>2
    <3> DEFINE y == <<x>>
    <3>5. y \in Seq(Items) /\ Len(y) = 1 /\ y[1] = x
      BY <3>4
    <3> HIDE DEF y
    <3>6. /\ Len(y \o ps) = 1 + FilePieces
          /\ (y \o ps)[1] = x
          /\ (y \o ps)[1 + FilePieces] = ps[FilePieces]
      <4>1. /\ Len(y \o ps) = Len(y) + Len(ps)
            /\ \A i \in 1 .. Len(y) + Len(ps) :
                 (y \o ps)[i] = IF i <= Len(y) THEN y[i] ELSE ps[i - Len(y)]
        BY <3>3, <3>5, ConcatProperties
      <4>2. /\ 1 \in 1 .. 1 + FilePieces /\ 1 + FilePieces \in 1 .. 1 + FilePieces
            /\ ~(1 + FilePieces <= 1) /\ 1 + FilePieces - 1 = FilePieces
        BY <1>3
      <4> QED
        BY <3>3, <3>5, <4>1, <4>2
    <3>7. 1 \in 1 .. Len(Answer(c, s)) /\ 1 + FilePieces \in 1 .. Len(Answer(c, s))
      BY <1>3, <3>1, <3>6 DEF y
    <3>8. PICK i \in 1 .. Len(got) : got[i] = x
      BY <2>5, <3>1, <3>6, <3>7 DEF y
    <3>9. s \in 1 .. n
      BY <1>4, <3>2, <3>8 DEF OfHandled, n
    <3>10. PICK j \in 1 .. Len(got) : got[j] = ps[FilePieces]
      BY <2>5, <3>1, <3>6, <3>7 DEF y
    <3>11. got[j].kind = "piece" /\ got[j].nr = s /\ got[j].piece = FilePieces
      BY <1>3, <3>3, <3>10
    <3>12. k.file.left = 0
      <4> SUFFICES ASSUME k.file.left # 0 PROVE FALSE
        OBVIOUS
      <4>1. k.file.nr = n /\ s = n
        BY <1>4 DEF FileOfLast, n, s
      <4>2. FilePieces <= FilePieces - k.file.left
        BY <1>4, <3>11, <4>1 DEF PiecesBefore
      <4> QED
        BY <1>3, <4>2
    <3>13. Kind(c, s + 1) \in Requests
      BY <2>1, <2>7, OrderlyFacts
    <3>14. s <= n
      BY <1>2, <3>9
    <3> QED
      BY <3>12, <3>13, <3>14 DEF k, n, s
  <2> QED
    BY <2>3, <2>6, <2>7
<1> QED
  BY <1>5, <1>6

LEMMA SendMessageKeeps ==
  ASSUME TypeOK, Inv, NEW c \in Conns, SendMessage(c)
  PROVE  TypeOK' /\ Inv'
<1> DEFINE k == conn[c]
           s == sent[c]
           f == inflight[c]
           a == [nr |-> s + 1, part |-> 1]
           b == [nr |-> s + 1, part |-> 2]
           n == Len(k.handled)
           m == Len(k.recv_mbuf)
           z == Len(f)
<1>1. /\ life[c] \in {"backlog", "open"} /\ ~shut[c] /\ s < Len(script[c])
      /\ sent' = [sent EXCEPT ![c] = s + 1]
      /\ inflight' = [inflight EXCEPT ![c] = f \o <<a, b>>]
      /\ UNCHANGED <<script, life, shut, received, conn, spc, active_connections, todo, updates>>
  BY DEF SendMessage
<1>2. Fine(c, k, f, received[c])
  BY <1>1 DEF Inv, ConnInv
<1>3. k \in Connections /\ f \in Seq(Halves) /\ s \in Nat /\ received[c] \in Seq(Items)
  BY DEF TypeOK
<1>4. /\ n \in Nat /\ m \in Nat /\ z \in Nat /\ Len(script[c]) \in Nat
      /\ 2 * n + m + z = 2 * s
      /\ \A i \in 1 .. z : Place(f[i]) = 2 * n + m + i
  <2>1. Counted(c, k, f)
    BY <1>2 DEF Fine
  <2> QED
    BY <1>3, <2>1, CountedFacts DEF Counted
<1>5. /\ a \in Halves /\ b \in Halves /\ a.nr = s + 1 /\ a.part = 1 /\ b.nr = s + 1 /\ b.part = 2
  BY <1>3 DEF Halves
<1> HIDE DEF k, s, f, a, b, n, m, z
<1>6. /\ f \o <<a, b>> \in Seq(Halves) /\ Len(f \o <<a, b>>) = z + 2
      /\ \A i \in 1 .. z + 2 : (f \o <<a, b>>)[i] = IF i <= z THEN f[i] ELSE <<a, b>>[i - z]
  <2> DEFINE t == <<a, b>>
  <2>1. t \in Seq(Halves) /\ Len(t) = 2
    BY <1>5
  <2> HIDE DEF t
  <2>2. /\ f \o t \in Seq(Halves) /\ Len(f \o t) = z + 2
        /\ \A i \in 1 .. z + 2 : (f \o t)[i] = IF i <= z THEN f[i] ELSE t[i - z]
    <3>1. /\ f \o t \in Seq(Halves) /\ Len(f \o t) = Len(f) + Len(t)
          /\ \A i \in 1 .. Len(f) + Len(t) :
               (f \o t)[i] = IF i <= Len(f) THEN f[i] ELSE t[i - Len(f)]
      BY <1>3, <2>1, ConcatProperties
    <3>2. Len(f) = z
      BY DEF z
    <3> QED
      BY <2>1, <3>1, <3>2
  <2> QED
    BY <2>2 DEF t
<1>7. /\ inflight' \in [Conns -> Seq(Halves)] /\ inflight'[c] = f \o <<a, b>>
      /\ sent' \in [Conns -> Nat] /\ sent'[c] = s + 1
      /\ \A d \in Conns : d # c => sent'[d] = sent[d] /\ inflight'[d] = inflight[d]
  <2> DEFINE u == f \o <<a, b>>
             e == s + 1
  <2>1. u \in Seq(Halves) /\ e \in Nat
    BY <1>3, <1>6
  <2>2. sent' = [sent EXCEPT ![c] = e] /\ inflight' = [inflight EXCEPT ![c] = u]
    BY <1>1
  <2> HIDE DEF u, e
  <2>3. /\ inflight' \in [Conns -> Seq(Halves)] /\ inflight'[c] = u
        /\ sent' \in [Conns -> Nat] /\ sent'[c] = e
        /\ \A d \in Conns : d # c => sent'[d] = sent[d] /\ inflight'[d] = inflight[d]
    BY <2>1, <2>2 DEF TypeOK
  <2> QED
    BY <2>3 DEF u, e
<1>8. TypeOK'
  BY <1>1, <1>7 DEF TypeOK
<1>9. ASSUME NEW d \in Conns, d # c
      PROVE  /\ Fine(d, conn[d], inflight[d], received[d]) =>
                  Fine(d, conn[d], inflight[d], received[d])'
             /\ AllDone(d, conn[d], received[d]) => AllDone(d, conn[d], received[d])'
  BY <1>1, <1>7, <1>9, Untouched
<1>10. Fine(c, conn[c], inflight[c], received[c])'
  <2>1. script' = script /\ conn'[c] = k /\ received'[c] = received[c] /\ shut' = shut
    BY <1>1 DEF k
  <2>2. ~k.websocket => s <= n /\ Kind(c, s + 1) \in Requests /\ k.file.left = 0
    BY <1>2, SentFacts DEF k, s, f, n
  <2>3. Counted(c, conn[c], inflight[c])'
    <3>1. sent'[c] <= Len(script'[c])
      BY <1>1, <1>3, <1>4, <1>7
    <3>2. k.handled = [i \in 1 .. Len(k.handled) |-> i]
      BY <1>2 DEF Fine, Counted
    <3>3. 2 * n + m + (z + 2) = 2 * (s + 1)
      BY <1>3, <1>4
    <3>4. 2 * Len(k.handled) + Len(k.recv_mbuf) + Len(inflight'[c]) = 2 * sent'[c]
      BY <1>6, <1>7, <3>3 DEF n, m
    <3>5. \A i \in 1 .. Len(k.recv_mbuf) : Place(k.recv_mbuf[i]) = 2 * Len(k.handled) + i
      BY <1>2 DEF Fine, Counted
    <3>6. ASSUME NEW i \in 1 .. z + 2
          PROVE  Place((f \o <<a, b>>)[i]) = 2 * n + m + i
      <4>1. i \in 1 .. z \/ i = z + 1 \/ i = z + 2
        BY <1>4
      <4>2. CASE i \in 1 .. z
        <5>1. i <= z
          BY <1>4, <4>2
        <5> QED
          BY <1>4, <1>6, <4>2, <5>1
      <4>3. CASE i = z + 1
        <5>1. ~(i <= z) /\ i - z = 1
          BY <1>4, <4>3
        <5>2. (f \o <<a, b>>)[i] = a
          BY <1>6, <5>1
        <5>3. 2 * (s + 1) + 1 - 2 = 2 * n + m + i
          BY <1>3, <1>4, <4>3
        <5> QED
          BY <1>5, <5>2, <5>3 DEF Place
      <4>4. CASE i = z + 2
        <5>1. ~(i <= z) /\ i - z = 2
          BY <1>4, <4>4
        <5>2. (f \o <<a, b>>)[i] = b
          BY <1>6, <5>1
        <5>3. 2 * (s + 1) + 2 - 2 = 2 * n + m + i
          BY <1>3, <1>4, <4>4
        <5> QED
          BY <1>5, <5>2, <5>3 DEF Place
      <4> QED
        BY <4>1, <4>2, <4>3, <4>4
    <3>7. \A i \in 1 .. Len(inflight'[c]) :
            Place(inflight'[c][i]) = 2 * Len(k.handled) + Len(k.recv_mbuf) + i
      BY <1>6, <1>7, <3>6 DEF n, m
    <3> QED
      BY <2>1, <3>1, <3>2, <3>4, <3>5, <3>7 DEF Counted, Place
  <2>4. OneRequest(c, conn[c])'
    <3> SUFFICES ASSUME ~k.websocket
                 PROVE  /\ sent'[c] <= Len(k.handled) + 1
                        /\ \A nr \in 1 .. sent'[c] : Kind(c, nr) \in Requests
      BY <2>1 DEF OneRequest, Kind
    <3>1. \A nr \in 1 .. s : Kind(c, nr) \in Requests
      BY <1>2 DEF Fine, OneRequest, s
    <3>2. \A nr \in 1 .. s + 1 : nr \in 1 .. s \/ nr = s + 1
      BY <1>3
    <3>3. s + 1 <= n + 1
      BY <1>3, <1>4, <2>2
    <3> QED
      BY <1>7, <2>2, <3>1, <3>2, <3>3 DEF n
  <2>5. /\ OfHandled(conn[c], received[c])' /\ OfHandled(conn[c], conn[c].send_mbuf)'
        /\ PiecesBefore(conn[c], received[c])' /\ PiecesBefore(conn[c], conn[c].send_mbuf)'
    BY <1>2, <2>1 DEF Fine, OfHandled, PiecesBefore
  <2>6. k.file.left = 0
    BY <1>2, <2>2 DEF Fine, FileOfLast
  <2>7. FileOfLast(c, conn[c])'
    BY <1>2, <2>1, <2>6 DEF Fine, FileOfLast, Kind
  <2>8. NothingLeft(c, conn[c])'
    <3>1. k.send_and_close \/ k.close_immediately => k.broken
      <4>1. sent[c] # Len(script[c])
        BY <1>1, <1>3, <1>4 DEF s
      <4> QED
        BY <1>1, <1>2, <4>1 DEF Fine, NothingLeft
    <3> QED
      BY <2>1, <3>1 DEF NothingLeft
  <2>9. Intact(c, conn[c], received[c])'
    <3>1. /\ Answers(c, conn[c])' = Answers(c, conn'[c])
          /\ Pending(conn[c])' = Pending(conn'[c])
      BY <2>1, AnswersLater DEF Pending
    <3> QED
      BY <1>2, <2>1, SensibleLater DEF Fine, Intact
  <2> QED
    BY <2>3, <2>4, <2>5, <2>7, <2>8, <2>9 DEF Fine
<1>11. ConnInv'
  BY <1>1, <1>9, <1>10, <1>7 DEF Inv, ConnInv, NewConnection, NoFile
<1>12. ListInv'
  <2>1. \A i \in 1 .. Len(todo) : todo[i].c \in Conns
    BY TodoType
  <2>2. \A d \in Conns : inflight[d] # <<>> => inflight'[d] # <<>>
    <3>1. z + 2 # 0
      BY <1>4
    <3>2. f \o <<a, b>> # <<>>
      BY <1>6, <3>1
    <3> QED
      BY <1>7, <3>2
  <2> QED
    BY <1>1, <2>1, <2>2 DEF Inv, ListInv
<1>13. PollInv'
  BY <1>1 DEF Inv, PollInv, Whole
<1>14. ClosedInv'
  BY <1>1, <1>9 DEF Inv, ClosedInv
<1> QED
  BY <1>8, <1>11, <1>12, <1>13, <1>14 DEF Inv

---------------------------------------------------------------------------
(* The steps of the server.                                                *)

\* A connection in todo waits to be handled, with no whole message in memory.
LEMMA ToBeHandled ==
  ASSUME TypeOK, Inv, todo # <<>>
  PROVE  /\ todo[1].c \in Conns /\ life[todo[1].c] = "open"
         /\ ~conn[todo[1].c].close_immediately /\ ~Whole(conn[todo[1].c])
         /\ Fine(todo[1].c, conn[todo[1].c], inflight[todo[1].c], received[todo[1].c])
         /\ todo[1].read => inflight[todo[1].c] # <<>> \/ shut[todo[1].c]
<1>1. Len(todo) \in Nat /\ Len(todo) # 0
  BY TodoType, EmptySeq DEF TypeOK
<1>2. 1 \in 1 .. Len(todo)
  BY <1>1
<1> QED
  BY <1>2, TodoType DEF Inv, ListInv, PollInv, ConnInv

\* What reading leaves: k, with f still on the way.
LEMMA HandleRead ==
  ASSUME TypeOK, Inv, todo # <<>>, NEW c, c = todo[1].c, NEW refused \in BOOLEAN,
         NEW n \in IF ~todo[1].read THEN {0}
                   ELSE IF inflight[c] = <<>> THEN {0} ELSE 1 .. Len(inflight[c])
  PROVE  /\ Treated(c, IF todo[1].read THEN Read(c, conn[c], n, refused) ELSE conn[c],
                    Without(inflight[c], n), received[c])
         /\ Without(inflight[c], n) \in Seq(Halves)
<1>1. /\ c \in Conns /\ life[c] = "open" /\ ~conn[c].close_immediately /\ ~Whole(conn[c])
      /\ Fine(c, conn[c], inflight[c], received[c])
      /\ todo[1].read => inflight[c] # <<>> \/ shut[c]
  BY ToBeHandled
<1>2. conn[c] \in Connections /\ inflight[c] \in Seq(Halves)
  BY <1>1 DEF TypeOK
<1> DEFINE f == inflight[c]
<1>3. n \in 0 .. Len(f) /\ Without(f, n) \in Seq(Halves)
  <2>1. Len(f) \in Nat
    BY <1>2, LenProperties
  <2> HIDE DEF f
  <2>2. n = 0 \/ n \in 1 .. Len(f)
    BY DEF f
  <2>3. n \in 0 .. Len(f)
    BY <2>1, <2>2
  <2>4. f \in Seq(Halves)
    BY <1>2 DEF f
  <2> QED
    BY <2>3, <2>4, WithoutFacts
<1>4. CASE todo[1].read
  <2>1. n \in IF inflight[c] = <<>> THEN {0} ELSE 1 .. Len(inflight[c])
    BY <1>4
  <2>2. Treated(c, Read(c, conn[c], n, refused), Without(inflight[c], n), received[c])
    BY <1>1, <1>2, <1>4, <2>1, ReadFine
  <2> QED
    BY <1>3, <1>4, <2>2
<1>5. CASE ~todo[1].read
  <2>1. n = 0
    BY <1>5
  <2>2. Without(f, 0) = f
    BY <1>2, SubSeqFull DEF Without
  <2> QED
    BY <1>1, <1>2, <1>3, <1>5, <2>1, <2>2 DEF Treated, Still
<1> QED
  BY <1>4, <1>5

\* A step that treats the first connection in todo, and leaves l of it, keeps
\* the invariant.
LEMMA TreatedKeeps ==
  ASSUME TypeOK, Inv, spc = "handle", todo # <<>>, todo' = Tail(todo),
         NEW c, c = todo[1].c, NEW l, NEW f \in Seq(Halves), NEW got \in Seq(Items),
         Treated(c, l, f, got),
         conn' = [conn EXCEPT ![c] = l], inflight' = [inflight EXCEPT ![c] = f],
         received' = [received EXCEPT ![c] = got], updates' \in 0 .. MaxUpdates,
         UNCHANGED <<browserVars, life, spc, active_connections>>
  PROVE  TypeOK' /\ Inv'
<1> DEFINE Flags == [c : Conns, read : BOOLEAN, write : BOOLEAN]
           q == Len(todo)
<1>1. c \in Conns /\ life[c] = "open"
  BY ToBeHandled
<1>2. l \in Connections /\ Fine(c, l, f, got) /\ (Whole(l) => l.close_immediately)
  BY DEF Treated, Still
<1>3. /\ script' = script /\ sent' = sent /\ shut' = shut /\ life' = life /\ spc' = spc
      /\ active_connections' = active_connections
  BY DEF browserVars
<1>4. /\ conn' \in [Conns -> Connections] /\ conn'[c] = l
      /\ inflight' \in [Conns -> Seq(Halves)] /\ inflight'[c] = f
      /\ received' \in [Conns -> Seq(Items)] /\ received'[c] = got
      /\ \A d \in Conns : d # c =>
           conn'[d] = conn[d] /\ inflight'[d] = inflight[d] /\ received'[d] = received[d]
  BY <1>1, <1>2 DEF TypeOK
<1>5. /\ todo' \in Seq(Flags) /\ Len(todo') = q - 1 /\ q \in Nat /\ q # 0
      /\ \A i \in 1 .. q - 1 : todo'[i] = todo[i + 1] /\ i + 1 \in 1 .. q /\ i + 1 # 1
  <2>1. todo \in Seq(Flags)
    BY DEF TypeOK
  <2> HIDE DEF Flags
  <2>2. /\ Tail(todo) \in Seq(Flags) /\ Len(Tail(todo)) = Len(todo) - 1
        /\ \A i \in 1 .. Len(Tail(todo)) : Tail(todo)[i] = todo[i + 1]
    BY <2>1, HeadTailProperties
  <2>3. Len(todo) \in Nat /\ Len(todo) # 0
    BY <2>1, EmptySeq, LenProperties
  <2>4. \A p \in Nat : \A i \in 1 .. p - 1 : i + 1 \in 1 .. p /\ i + 1 # 1
    OBVIOUS
  <2> QED
    BY <2>2, <2>3, <2>4
<1>6. TypeOK'
  BY <1>3, <1>4, <1>5 DEF TypeOK
<1> HIDE DEF Flags, q
<1>7. ASSUME NEW d \in Conns, d # c
      PROVE  /\ Fine(d, conn[d], inflight[d], received[d]) =>
                  Fine(d, conn[d], inflight[d], received[d])'
             /\ AllDone(d, conn[d], received[d]) => AllDone(d, conn[d], received[d])'
  BY <1>3, <1>4, <1>7, Untouched
<1>8. Fine(c, conn[c], inflight[c], received[c])'
  <2>1. Fine(c, conn'[c], inflight'[c], received'[c])
    BY <1>2, <1>4
  <2> QED
    BY <1>3, <2>1, FineLater
<1>9. ConnInv'
  <2> SUFFICES ASSUME NEW d \in Conns
               PROVE  /\ life'[d] # "closed" => Fine(d, conn[d], inflight[d], received[d])'
                      /\ life'[d] \in {"new", "backlog"} =>
                           conn'[d] = NewConnection' /\ received'[d] = <<>>
                      /\ life'[d] = "new" => sent'[d] = 0
    BY DEF ConnInv
  <2>1. CASE d = c
    BY <1>1, <1>3, <1>8, <2>1
  <2>2. CASE d # c
    BY <1>3, <1>4, <1>7, <2>2 DEF Inv, ConnInv, NewConnection, NoFile
  <2> QED
    BY <2>1, <2>2
<1>10. \A i \in 1 .. q : todo[i].c \in Conns /\ (i # 1 => todo[i].c # c)
  <2>1. 1 \in 1 .. q
    BY <1>5
  <2> QED
    BY <2>1, TodoType DEF Inv, ListInv, q
<1>11. \A i \in 1 .. q - 1 : todo'[i].c # c
  BY <1>5, <1>10
<1>12. ListInv'
  <2>1. \A i \in 1 .. q - 1 :
          /\ life[todo'[i].c] = "open"
          /\ todo'[i].read => inflight'[todo'[i].c] # <<>> \/ shut[todo'[i].c]
    BY <1>4, <1>5, <1>10 DEF Inv, ListInv, q
  <2>2. ASSUME NEW i \in 1 .. q - 1, NEW j \in 1 .. q - 1, todo'[i].c = todo'[j].c
        PROVE  i = j
    <3> DEFINE x == i + 1
               y == j + 1
    <3>1. x \in 1 .. q /\ y \in 1 .. q /\ todo[x].c = todo[y].c
      BY <1>5, <2>2
    <3> HIDE DEF x, y
    <3>2. x = y
      BY <3>1 DEF Inv, ListInv, q
    <3> QED
      BY <1>5, <3>2 DEF x, y
  <2> QED
    BY <1>3, <1>5, <2>1, <2>2 DEF Inv, ListInv
<1>13. PollInv'
  <2>1. ASSUME NEW d \in Conns, life[d] = "open"
        PROVE  /\ Whole(conn'[d]) => conn'[d].close_immediately
               /\ conn'[d].close_immediately => \A i \in 1 .. q - 1 : todo'[i].c # d
    BY <1>2, <1>4, <1>5, <1>11, <2>1 DEF Inv, PollInv, q
  <2> QED
    BY <1>3, <1>5, <2>1 DEF PollInv, Whole
<1>14. ClosedInv'
  BY <1>1, <1>3, <1>7 DEF Inv, ClosedInv
<1> QED
  BY <1>6, <1>9, <1>12, <1>13, <1>14 DEF Inv

LEMMA HandleKeeps ==
  ASSUME TypeOK, Inv, Handle
  PROVE  TypeOK' /\ Inv'
<1> DEFINE c == Head(todo).c
           f == inflight[c]
           Read1(n, refused) == IF Head(todo).read THEN Read(c, conn[c], n, refused) ELSE conn[c]
           Halves1 == IF ~Head(todo).read THEN {0} ELSE IF f = <<>> THEN {0} ELSE 1 .. Len(f)
<1>1. /\ spc = "handle" /\ todo # <<>> /\ todo' = Tail(todo)
      /\ UNCHANGED <<browserVars, life, spc, active_connections>>
  BY DEF Handle
<1>2. Head(todo) = todo[1]
  BY <1>1 DEF TypeOK
<1>3. PICK n \in Halves1, refused \in BOOLEAN :
        LET k == Read1(n, refused) IN
        /\ inflight' = [inflight EXCEPT ![c] = Without(@, n)]
        /\ \/ /\ k.close_immediately \/ (Head(todo).read /\ ~Head(todo).write)
              /\ conn' = [conn EXCEPT ![c] = k] /\ UNCHANGED <<received, updates>>
           \/ /\ ~k.close_immediately /\ Head(todo).write
              /\ \E m \in (IF shut[c] THEN {0} ELSE {}) \cup 1 .. Len(k.send_mbuf) :
                   /\ conn' = [conn EXCEPT ![c] = Write(c, k, m)]
                   /\ received' = IF shut[c] THEN received
                        ELSE [received EXCEPT ![c] = @ \o SubSeq(k.send_mbuf, 1, m)]
              /\ UNCHANGED updates
           \/ /\ ~k.close_immediately /\ ~Head(todo).read /\ ~Head(todo).write
              /\ \/ /\ conn' = [conn EXCEPT ![c] = Told(c, k)]
                    /\ UNCHANGED updates
                 \/ /\ k.websocket /\ updates < MaxUpdates
                    /\ conn' = [conn EXCEPT ![c] = Send(k, Frame)]
                    /\ updates' = updates + 1
              /\ UNCHANGED received
  BY DEF Handle
<1> DEFINE k == Read1(n, refused)
           g == Without(f, n)
           got == received[c]
<1>4. c \in Conns /\ f \in Seq(Halves) /\ got \in Seq(Items)
  BY <1>1, <1>2, ToBeHandled DEF TypeOK
<1>5. Treated(c, k, g, got) /\ g \in Seq(Halves)
  <2>1. n \in IF ~Head(todo).read THEN {0}
              ELSE IF inflight[c] = <<>> THEN {0} ELSE 1 .. Len(inflight[c])
    OBVIOUS
  <2> HIDE DEF c
  <2>0. c = todo[1].c
    BY <1>2 DEF c
  <2>2. /\ Treated(c, IF todo[1].read THEN Read(c, conn[c], n, refused) ELSE conn[c],
                   Without(inflight[c], n), received[c])
        /\ Without(inflight[c], n) \in Seq(Halves)
    BY <1>1, <1>2, <2>0, <2>1, HandleRead
  <2> QED
    BY <1>2, <2>2
<1>6. /\ inflight' = [inflight EXCEPT ![c] = g]
      /\ \/ /\ conn' = [conn EXCEPT ![c] = k] /\ UNCHANGED <<received, updates>>
         \/ /\ ~k.close_immediately
            /\ \E m \in (IF shut[c] THEN {0} ELSE {}) \cup 1 .. Len(k.send_mbuf) :
                 /\ conn' = [conn EXCEPT ![c] = Write(c, k, m)]
                 /\ received' = IF shut[c] THEN received
                      ELSE [received EXCEPT ![c] = got \o SubSeq(k.send_mbuf, 1, m)]
            /\ UNCHANGED updates
         \/ /\ ~k.close_immediately
            /\ conn' = [conn EXCEPT ![c] = Told(c, k)]
            /\ UNCHANGED <<received, updates>>
         \/ /\ ~k.close_immediately
            /\ k.websocket /\ updates < MaxUpdates
            /\ conn' = [conn EXCEPT ![c] = Send(k, Frame)]
            /\ updates' = updates + 1 /\ UNCHANGED received
  BY <1>3
<1> HIDE DEF k, g
<1>7. k \in Connections /\ Fine(c, k, g, got) /\ (Whole(k) => k.close_immediately)
  BY <1>5 DEF Treated, Still
<1>8. received' = received => received' = [received EXCEPT ![c] = got]
  BY <1>4 DEF TypeOK
<1>9. updates \in 0 .. MaxUpdates
  BY DEF TypeOK
<1> HIDE DEF c, f, got, Halves1
<1>10. ASSUME NEW l, NEW now \in Seq(Items), Treated(c, l, g, now),
              conn' = [conn EXCEPT ![c] = l], received' = [received EXCEPT ![c] = now],
              updates' \in 0 .. MaxUpdates
       PROVE  TypeOK' /\ Inv'
  BY <1>1, <1>2, <1>5, <1>6, <1>10, TreatedKeeps DEF c
<1>11. CASE conn' = [conn EXCEPT ![c] = k] /\ UNCHANGED <<received, updates>>
  BY <1>4, <1>5, <1>8, <1>9, <1>10, <1>11
<1>12. ASSUME ~k.close_immediately,
              NEW m \in (IF shut[c] THEN {0} ELSE {}) \cup 1 .. Len(k.send_mbuf),
              conn' = [conn EXCEPT ![c] = Write(c, k, m)],
              received' = IF shut[c] THEN received
                          ELSE [received EXCEPT ![c] = got \o SubSeq(k.send_mbuf, 1, m)],
              UNCHANGED updates
       PROVE  TypeOK' /\ Inv'
  <2> DEFINE now == IF shut[c] THEN got ELSE got \o SubSeq(k.send_mbuf, 1, m)
             l == Write(c, k, m)
  <2>1. Still(c, l, g, now) /\ now \in Seq(Items) /\ l.recv_mbuf = k.recv_mbuf
    BY <1>4, <1>5, <1>7, WriteFine
  <2>2. received' = [received EXCEPT ![c] = now]
    <3>1. CASE shut[c]
      BY <1>8, <1>12, <3>1
    <3>2. CASE ~shut[c]
      BY <1>12, <3>2
    <3> QED
      BY <3>1, <3>2
  <2>3. conn' = [conn EXCEPT ![c] = l] /\ updates' \in 0 .. MaxUpdates
    BY <1>9, <1>12
  <2> HIDE DEF now, l
  <2>4. Treated(c, l, g, now)
    BY <1>7, <1>12, <2>1 DEF Treated, Whole
  <2> QED
    BY <1>10, <2>1, <2>2, <2>3, <2>4
<1>13. ASSUME ~k.close_immediately, conn' = [conn EXCEPT ![c] = Told(c, k)],
              UNCHANGED <<received, updates>>
       PROVE  TypeOK' /\ Inv'
  <2> DEFINE l == Told(c, k)
  <2>1. Still(c, l, g, got) /\ l.recv_mbuf = k.recv_mbuf
    BY <1>4, <1>5, <1>7, ToldFine
  <2>2. conn' = [conn EXCEPT ![c] = l]
    BY <1>13
  <2> HIDE DEF l
  <2>3. Treated(c, l, g, got)
    BY <1>7, <1>13, <2>1 DEF Treated, Whole
  <2> QED
    BY <1>4, <1>8, <1>9, <1>10, <1>13, <2>2, <2>3
<1>14. ASSUME ~k.close_immediately, k.websocket, updates < MaxUpdates,
              conn' = [conn EXCEPT ![c] = Send(k, Frame)],
              updates' = updates + 1, UNCHANGED received
       PROVE  TypeOK' /\ Inv'
  <2> DEFINE l == Send(k, Frame)
  <2>1. /\ l \in Connections /\ SameReceiving(k, l)
        /\ l.send_mbuf = Append(k.send_mbuf, Frame) /\ l.file = k.file
        /\ l.send_and_close = k.send_and_close
    BY <1>7, FrameType, SendFields
  <2>2. conn' = [conn EXCEPT ![c] = l]
    BY <1>14
  <2> HIDE DEF l
  <2>3. AfterPush(k, l)
    <3>1. k.crossed \in BOOLEAN
      BY <1>7 DEF Connections
    <3> QED
      BY <1>14, <2>1, <3>1 DEF SameReceiving, AfterPush
  <2>4. Still(c, l, g, got)
    BY <1>4, <1>5, <1>7, <2>1, <2>3, PushFine
  <2>5. Treated(c, l, g, got)
    BY <1>7, <1>14, <2>1, <2>4 DEF Treated, Whole, SameReceiving
  <2>6. updates' \in 0 .. MaxUpdates
    <3>1. MaxUpdates \in Nat
      BY WebConnectionsAssumption
    <3> QED
      BY <1>9, <1>14, <3>1
  <2> QED
    BY <1>4, <1>8, <1>10, <1>14, <2>2, <2>5, <2>6
<1> QED
  BY <1>6, <1>11, <1>12, <1>13, <1>14

\* A recv that fails takes nothing: either something on the way is lost, or all
\* that was sent has been handled.
LEMMA HandleResetKeeps ==
  ASSUME TypeOK, Inv, HandleReset
  PROVE  TypeOK' /\ Inv'
<1> DEFINE c == Head(todo).c
           f == inflight[c]
           got == received[c]
           k == conn[c]
           l == ReadFails(c, k)
<1>1. /\ spc = "handle" /\ todo # <<>> /\ todo' = Tail(todo) /\ shut[c]
      /\ conn' = [conn EXCEPT ![c] = l]
      /\ UNCHANGED <<browserVars, life, inflight, received, spc, active_connections, updates>>
  BY DEF HandleReset
<1>2. Head(todo) = todo[1]
  BY <1>1 DEF TypeOK
<1>3. c = todo[1].c
  BY <1>2
<1>4. c \in Conns /\ ~Whole(k) /\ Fine(c, k, f, got)
  BY <1>1, <1>3, ToBeHandled
<1>5. k \in Connections /\ f \in Seq(Halves) /\ got \in Seq(Items)
  BY <1>4 DEF TypeOK
<1>6. /\ l \in Connections /\ l.recv_mbuf = k.recv_mbuf /\ l.websocket = k.websocket
      /\ l.handled = k.handled /\ l.close_immediately /\ l.file = k.file
      /\ l.crossed = k.crossed /\ l.send_mbuf = k.send_mbuf
      /\ f # <<>> => l.broken
  BY <1>5 DEF ReadFails, Connections
<1>7. /\ inflight' = [inflight EXCEPT ![c] = f] /\ received' = [received EXCEPT ![c] = got]
      /\ updates' \in 0 .. MaxUpdates
  BY <1>1, <1>4 DEF TypeOK
<1> HIDE DEF c, f, got, k, l
<1>8. Counted(c, l, f) /\ OneRequest(c, l)
  BY <1>4, <1>6 DEF Fine, Counted, OneRequest
<1>9. OfHandled(l, got) /\ OfHandled(l, l.send_mbuf)
  BY <1>4, <1>6 DEF Fine, OfHandled
<1>10. PiecesBefore(l, got) /\ PiecesBefore(l, l.send_mbuf) /\ FileOfLast(c, l)
  BY <1>4, <1>6 DEF Fine, PiecesBefore, FileOfLast
<1>11. NothingLeft(c, l)
  <2>1. CASE f # <<>>
    BY <1>6, <2>1 DEF NothingLeft
  <2>2. CASE f = <<>>
    <3> DEFINE h == Len(k.handled)
               m == Len(k.recv_mbuf)
    <3>1. h \in Nat /\ m \in Nat /\ sent[c] \in Nat
      BY <1>4, <1>5, CountedFacts DEF Fine
    <3>2. 2 * h + m + Len(f) = 2 * sent[c]
      BY <1>4 DEF Fine, Counted
    <3>3. Len(f) = 0
      BY <2>2
    <3>4. ~(m >= 2)
      BY <1>4 DEF Whole
    <3>5. Len(l.handled) = h
      BY <1>6
    <3> HIDE DEF h, m
    <3>6. h = sent[c]
      BY <3>1, <3>2, <3>3, <3>4
    <3>7. \A i \in 1 .. sent[c] : i <= Len(l.handled)
      BY <3>1, <3>5, <3>6
    <3> QED
      BY <1>1, <3>7 DEF NothingLeft
  <2> QED
    BY <2>1, <2>2
<1>12. Intact(c, l, got)
  BY <1>1 DEF Intact
<1>13. Treated(c, l, f, got)
  BY <1>6, <1>8, <1>9, <1>10, <1>11, <1>12 DEF Treated, Still, Fine
<1> QED
  BY <1>1, <1>3, <1>5, <1>7, <1>13, TreatedKeeps

LEMMA BindKeeps ==
  ASSUME TypeOK, Inv, Bind
  PROVE  TypeOK' /\ Inv'
<1>1. /\ spc = "start" /\ spc' \in {"select", "gone"}
      /\ script' = script /\ sent' = sent /\ shut' = shut
      /\ UNCHANGED <<life, inflight, received, conn, active_connections, todo, updates>>
  BY DEF Bind, BindOutcome, browserVars
<1>2. TypeOK'
  BY <1>1 DEF TypeOK
<1>3. ASSUME NEW d \in Conns
      PROVE  /\ Fine(d, conn[d], inflight[d], received[d]) =>
                  Fine(d, conn[d], inflight[d], received[d])'
             /\ AllDone(d, conn[d], received[d]) => AllDone(d, conn[d], received[d])'
  BY <1>1, Untouched
<1>4. ConnInv'
  BY <1>1, <1>3 DEF Inv, ConnInv, NewConnection, NoFile
<1>5. ListInv'
  BY <1>1 DEF Inv, ListInv
<1>6. PollInv'
  BY <1>1 DEF Inv, PollInv, Whole
<1>7. ClosedInv'
  BY <1>1, <1>3 DEF Inv, ClosedInv
<1> QED
  BY <1>2, <1>4, <1>5, <1>6, <1>7 DEF Inv

LEMMA SelectKeeps ==
  ASSUME TypeOK, Inv, Select
  PROVE  TypeOK' /\ Inv'
<1> DEFINE list == active_connections
           n == Len(list)
           Flags == [c : Conns, read : BOOLEAN, write : BOOLEAN]
           e(i) == [c |-> list[i], read |-> inflight[list[i]] # <<>> \/ shut[list[i]],
                    write |-> conn[list[i]].send_mbuf # <<>>]
<1>1. /\ spc = "select" /\ spc' = "handle"
      /\ todo' = [i \in DOMAIN list |-> e(i)]
      /\ script' = script /\ sent' = sent /\ shut' = shut
      /\ UNCHANGED <<life, inflight, received, conn, active_connections, updates>>
  BY DEF Select, browserVars
<1>2. n \in Nat /\ DOMAIN list = 1 .. n /\ \A i \in 1 .. n : list[i] \in Conns
  BY ElementOfSeq, LenProperties DEF TypeOK
<1>3. todo' = [i \in 1 .. n |-> e(i)]
  BY <1>1, <1>2
<1>4. \A i \in 1 .. n : e(i) \in Flags
  BY <1>2
<1>5. /\ todo' \in Seq(Flags) /\ Len(todo') = n
      /\ \A i \in 1 .. n : /\ todo'[i].c = list[i]
                           /\ todo'[i].read <=> inflight[list[i]] # <<>> \/ shut[list[i]]
  <2>1. todo' \in [1 .. n -> Flags]
    BY <1>3, <1>4
  <2>2. todo' \in Seq(Flags) /\ Len(todo') = n
    <3> HIDE DEF n, Flags
    <3> QED
      BY <1>2, <2>1
  <2> QED
    BY <1>3, <2>2
<1>6. TypeOK'
  BY <1>1, <1>5 DEF TypeOK
<1> HIDE DEF Flags, e
<1>7. ASSUME NEW d \in Conns
      PROVE  /\ Fine(d, conn[d], inflight[d], received[d]) =>
                  Fine(d, conn[d], inflight[d], received[d])'
             /\ AllDone(d, conn[d], received[d]) => AllDone(d, conn[d], received[d])'
  BY <1>1, Untouched
<1>8. ConnInv'
  BY <1>1, <1>7 DEF Inv, ConnInv, NewConnection, NoFile
<1>9. ListInv'
  <2>1. /\ \A d \in Conns : life[d] = "open" <=> \E i \in 1 .. n : list[i] = d
        /\ \A i, j \in 1 .. n : list[i] = list[j] => i = j
    BY DEF Inv, ListInv
  <2> HIDE DEF n, list
  <2>2. \A i \in 1 .. n : life[list[i]] = "open"
    BY <1>2, <2>1
  <2>3. \A i \in 1 .. Len(todo') :
       /\ life'[todo'[i].c] = "open"
       /\ todo'[i].read => inflight'[todo'[i].c] # <<>> \/ shut'[todo'[i].c]
       /\ \A j \in 1 .. Len(todo') : todo'[i].c = todo'[j].c => i = j
    BY <1>1, <1>5, <2>1, <2>2
  <2> QED
    BY <1>1, <2>1, <2>3 DEF ListInv, n, list
<1>10. PollInv'
  BY <1>1 DEF Inv, PollInv, Whole
<1>11. ClosedInv'
  BY <1>1, <1>7 DEF Inv, ClosedInv
<1> QED
  BY <1>6, <1>8, <1>9, <1>10, <1>11 DEF Inv

\* A connection that is closed has done all.
LEMMA CloseFine ==
  ASSUME TypeOK, NEW c \in Conns, Fine(c, conn[c], inflight[c], received[c]),
         Finished(conn[c]), Whole(conn[c]) => conn[c].close_immediately
  PROVE  /\ Closed(c, conn[c]) \in Connections
         /\ AllDone(c, Closed(c, conn[c]), received[c])
<1> DEFINE k == conn[c]
           l == Closed(c, k)
           got == received[c]
           nr == k.recv_mbuf[1].nr
           n == Len(k.handled)
<1>1. k \in Connections /\ got \in Seq(Items) /\ inflight[c] \in Seq(Halves)
  BY DEF TypeOK
<1>2. Counted(c, k, inflight[c]) /\ NothingLeft(c, k) /\ Intact(c, k, got)
  BY DEF Fine
<1>3. n \in Nat /\ k.handled = [i \in 1 .. n |-> i] /\ sent[c] \in Nat
  BY <1>1, <1>2, CountedFacts DEF Counted
<1>4. k.send_and_close \/ k.close_immediately
  BY DEF Finished
<1>5. ASSUME ~k.broken, NEW i \in 1 .. sent[c]
      PROVE  i \in ToSet(k.handled) \/ Kind(c, i) \in {"bad", "close"}
  <2>1. i <= n \/ Kind(c, i) \in {"bad", "close"}
    BY <1>2, <1>4, <1>5 DEF NothingLeft
  <2>2. i <= n => i \in 1 .. n
    BY <1>3
  <2>3. i \in 1 .. n => i \in ToSet(k.handled)
    <3> HIDE DEF n
    <3>1. ASSUME i \in 1 .. n PROVE i \in DOMAIN k.handled /\ k.handled[i] = i
      BY <1>3, <3>1
    <3> QED
      BY <3>1 DEF ToSet
  <2> QED
    BY <2>1, <2>2, <2>3
<1>6. CASE l = k
  <2>1. ASSUME ~k.crossed, ~k.broken, ~shut[c], ~k.close_immediately
        PROVE  Sensible(c, k, got)
    <3>1. k.send_mbuf = <<>> /\ k.file.left = 0
      BY <1>2, <2>1 DEF Finished, NothingLeft
    <3>2. Pending(k) = <<>>
      BY <1>1, <3>1, PendingPieces
    <3>3. got \o k.send_mbuf \o Pending(k) = got
      BY <1>1, <3>1, <3>2, ConcatEmptySeq
    <3> QED
      BY <1>2, <2>1, <3>3 DEF Intact
  <2> QED
    BY <1>1, <1>5, <1>6, <2>1 DEF AllDone
<1>7. CASE l # k
  <2>1. Whole(k) /\ l = HandleRequest(c, k, nr)
    BY <1>7 DEF Closed
  <2>2. nr \in Nat
    <3>1. Len(k.recv_mbuf) \in Nat /\ Len(k.recv_mbuf) >= 2
      BY <1>1, <2>1, LenProperties DEF Whole, Connections
    <3>2. 1 \in 1 .. Len(k.recv_mbuf)
      BY <3>1
    <3>3. k.recv_mbuf[1] \in Halves
      BY <1>1, <3>2, ElementOfSeq DEF Connections
    <3> QED
      BY <3>3 DEF Halves
  <2> HIDE DEF l, nr, k, n
  <2>3. AfterRequest(c, k, nr, l)
    BY <1>1, <2>1, <2>2, RequestFields
  <2>4. l \in Connections /\ l.broken = k.broken /\ l.close_immediately = k.close_immediately
        /\ l.handled = Append(k.handled, nr)
    BY <2>3 DEF AfterRequest
  <2>5. k.close_immediately
    BY <2>1 DEF k
  <2>6. \A i : i \in ToSet(k.handled) => i \in ToSet(l.handled)
    <3>1. k.handled \in Seq(Nat)
      BY <1>1 DEF Connections
    <3>2. /\ Len(l.handled) = Len(k.handled) + 1 /\ Len(k.handled) \in Nat
          /\ \A i \in 1 .. Len(k.handled) : l.handled[i] = k.handled[i]
          /\ l.handled \in Seq(Nat)
      BY <2>2, <2>4, <3>1, AppendProperties, LenProperties
    <3>3. /\ DOMAIN k.handled = 1 .. Len(k.handled) /\ DOMAIN l.handled = 1 .. Len(l.handled)
          /\ \A i \in 1 .. Len(k.handled) : i \in 1 .. Len(l.handled)
      BY <3>1, <3>2
    <3> QED
      BY <3>2, <3>3 DEF ToSet
  <2> QED
    BY <1>5, <2>4, <2>5, <2>6 DEF AllDone, l, k
<1> QED
  BY <1>6, <1>7

LEMMA AcceptAndCloseKeeps ==
  ASSUME TypeOK, Inv, AcceptAndClose
  PROVE  TypeOK' /\ Inv'
<1> DEFINE list == active_connections
           n == Len(list)
           over == {c \in ToSet(list) : Finished(conn[c])}
           rest == Others(list, over)
<1>1. /\ spc = "handle" /\ todo = <<>> /\ spc' = "update" /\ todo' = todo
      /\ script' = script /\ sent' = sent /\ shut' = shut
      /\ conn' = [c \in Conns |-> IF c \in over THEN Closed(c, conn[c]) ELSE conn[c]]
      /\ UNCHANGED <<inflight, received, updates>>
  BY DEF AcceptAndClose, browserVars
<1>2. PICK new \in Accepted :
        /\ active_connections' = new \o rest
        /\ life' = [c \in Conns |-> IF c \in over THEN "closed"
                                    ELSE IF c \in ToSet(new) THEN "open" ELSE life[c]]
  BY DEF AcceptAndClose
<1>3. list \in Seq(Conns) /\ n \in Nat /\ DOMAIN list = 1 .. n
  BY LenProperties DEF TypeOK
<1>4. /\ \A c \in Conns : life[c] = "open" <=> \E i \in 1 .. n : list[i] = c
      /\ Once(list)
  BY DEF Inv, ListInv, Once
<1>5. \A c \in Conns : c \in over <=> life[c] = "open" /\ Finished(conn[c])
  BY <1>3, <1>4 DEF ToSet
<1>6. IsOthers(rest, list, over, n)
  BY <1>3, <1>4, OthersFacts
<1> HIDE DEF over, rest
<1>7. /\ rest \in Seq(Conns) /\ Once(rest)
      /\ \A c \in Conns : (\E j \in 1 .. Len(rest) : rest[j] = c) <=>
                            life[c] = "open" /\ c \notin over
  BY <1>4, <1>6 DEF IsOthers
<1> HIDE DEF list, n
<1>8. \/ new = <<>>
      \/ \E c \in Conns : life[c] = "backlog" /\ new = <<c>>
  BY DEF Accepted
<1> DEFINE Listed ==
             /\ active_connections' \in Seq(Conns) /\ Once(active_connections)'
             /\ \A c \in Conns : life'[c] = "open" <=>
                  \E i \in 1 .. Len(active_connections') : active_connections'[i] = c
             /\ \A c \in Conns : life'[c] = IF c \in over THEN "closed"
                                            ELSE IF life'[c] = "open" THEN "open" ELSE life[c]
             /\ \A c \in Conns : life'[c] = "open" /\ life[c] # "open" => life[c] = "backlog"
             /\ life' \in [Conns -> {"new", "backlog", "open", "closed"}]
<1>8a. Listed
  <2>1. CASE new = <<>>
    <3>1. active_connections' = rest
      BY <1>2, <1>7, <2>1, ConcatEmptySeq
    <3>2. \A c \in Conns : life'[c] = IF c \in over THEN "closed" ELSE life[c]
      BY <1>2, <2>1 DEF ToSet
    <3>3. life' \in [Conns -> {"new", "backlog", "open", "closed"}]
      BY <1>2, <3>2 DEF TypeOK
    <3> QED
      BY <1>7, <3>1, <3>2, <3>3 DEF Once
  <2>2. ASSUME NEW e \in Conns, life[e] = "backlog", new = <<e>>
        PROVE  Listed
    <3> DEFINE m == Len(rest)
               x == new \o rest
    <3>1. \A c : c \in ToSet(new) <=> c = e
      BY <2>2 DEF ToSet
    <3>2. e \notin over
      BY <1>5, <2>2
    <3>3. \A c \in Conns : life'[c] = IF c \in over THEN "closed"
                                      ELSE IF c = e THEN "open" ELSE life[c]
      BY <1>2, <3>1
    <3>4. life' \in [Conns -> {"new", "backlog", "open", "closed"}]
      BY <1>2, <3>3 DEF TypeOK
    <3>5. new \in Seq(Conns) /\ Len(new) = 1 /\ new[1] = e
      BY <2>2
    <3>6. m \in Nat
      BY <1>7, LenProperties
    <3>7. /\ x \in Seq(Conns) /\ Len(x) = 1 + m
          /\ \A i \in 1 .. 1 + m : x[i] = IF i <= 1 THEN e ELSE rest[i - 1]
      <4>1. rest \in Seq(Conns)
        BY <1>7
      <4> HIDE DEF m
      <4>2. /\ new \o rest \in Seq(Conns) /\ Len(new \o rest) = Len(new) + Len(rest)
            /\ \A i \in 1 .. Len(new) + Len(rest) :
                 (new \o rest)[i] = IF i <= Len(new) THEN new[i] ELSE rest[i - Len(new)]
        BY <3>5, <4>1, ConcatProperties
      <4>3. \A i \in 1 .. 1 + m : i <= 1 => i = 1
        BY <3>6
      <4> QED
        BY <3>5, <4>2, <4>3 DEF m
    <3>8. active_connections' = x
      BY <1>2
    <3> HIDE DEF x
    <3>9. \A j \in 1 .. m : rest[j] # e
      <4>1. ~\E j \in 1 .. m : rest[j] = e
        BY <1>7, <2>2
      <4> QED
        BY <4>1
    <3> HIDE DEF m
    <3>10. \A i \in 1 .. 1 + m : (i = 1 /\ x[i] = e) \/ (i - 1 \in 1 .. m /\ x[i] = rest[i - 1])
      BY <3>6, <3>7
    <3>11. x[1] = e /\ 1 \in 1 .. 1 + m
      BY <3>6, <3>7
    <3>12. \A j \in 1 .. m : j + 1 \in 1 .. 1 + m /\ x[j + 1] = rest[j]
      <4> SUFFICES ASSUME NEW j \in 1 .. m PROVE j + 1 \in 1 .. 1 + m /\ x[j + 1] = rest[j]
        OBVIOUS
      <4>1. j + 1 \in 1 .. 1 + m /\ ~(j + 1 <= 1) /\ j + 1 - 1 = j
        BY <3>6
      <4> QED
        BY <3>7, <4>1
    <3>13. ASSUME NEW i \in 1 .. 1 + m, NEW j \in 1 .. 1 + m, x[i] = x[j]
           PROVE  i = j
      <4>1. CASE i = 1
        <5>1. j = 1
          BY <3>9, <3>10, <3>11, <3>13, <4>1
        <5> QED
          BY <4>1, <5>1
      <4>2. CASE i # 1
        <5>1. j # 1
          BY <3>9, <3>10, <3>11, <3>13, <4>2
        <5>2. i - 1 = j - 1
          BY <1>7, <3>10, <3>13, <4>2, <5>1 DEF Once, m
        <5> QED
          BY <5>2
      <4> QED
        BY <4>1, <4>2
    <3>14. ASSUME NEW c \in Conns
           PROVE  (\E i \in 1 .. 1 + m : x[i] = c) <=> c = e \/ \E j \in 1 .. m : rest[j] = c
      <4>1. ASSUME NEW i \in 1 .. 1 + m, x[i] = c
            PROVE  c = e \/ \E j \in 1 .. m : rest[j] = c
        BY <3>10, <4>1
      <4>2. c = e => \E i \in 1 .. 1 + m : x[i] = c
        BY <3>11
      <4>3. ASSUME NEW j \in 1 .. m, rest[j] = c
            PROVE  \E i \in 1 .. 1 + m : x[i] = c
        BY <3>12, <4>3
      <4> QED
        BY <4>1, <4>2, <4>3
    <3>15. Once(active_connections)'
      BY <3>7, <3>8, <3>13 DEF Once
    <3>16. ASSUME NEW c \in Conns
           PROVE  life'[c] = "open" <=> \E i \in 1 .. 1 + m : x[i] = c
      <4>1. (\E j \in 1 .. m : rest[j] = c) <=> life[c] = "open" /\ c \notin over
        BY <1>7 DEF m
      <4> QED
        BY <3>2, <3>3, <3>14, <4>1
    <3> QED
      BY <2>2, <3>2, <3>3, <3>4, <3>7, <3>8, <3>15, <3>16
  <2> HIDE DEF Listed
  <2> QED
    BY <1>8, <2>1, <2>2
<1>9. /\ active_connections' \in Seq(Conns) /\ Once(active_connections)'
      /\ \A c \in Conns : life'[c] = "open" <=>
           \E i \in 1 .. Len(active_connections') : active_connections'[i] = c
      /\ \A c \in Conns : life'[c] = IF c \in over THEN "closed"
                                     ELSE IF life'[c] = "open" THEN "open" ELSE life[c]
      /\ \A c \in Conns : life'[c] = "open" /\ life[c] # "open" => life[c] = "backlog"
      /\ life' \in [Conns -> {"new", "backlog", "open", "closed"}]
  BY <1>8a
<1>10. ASSUME NEW c \in Conns, c \in over
       PROVE  Closed(c, conn[c]) \in Connections /\ AllDone(c, Closed(c, conn[c]), received[c])
  <2>1. life[c] = "open" /\ Finished(conn[c])
    BY <1>5, <1>10
  <2>2. Fine(c, conn[c], inflight[c], received[c]) /\ (Whole(conn[c]) => conn[c].close_immediately)
    BY <2>1 DEF Inv, ConnInv, PollInv
  <2> QED
    BY <2>1, <2>2, CloseFine
<1>11. /\ conn' \in [Conns -> Connections]
       /\ \A c \in Conns : c \in over => conn'[c] = Closed(c, conn[c])
       /\ \A c \in Conns : c \notin over => conn'[c] = conn[c]
  BY <1>1, <1>10 DEF TypeOK
<1>12. TypeOK'
  BY <1>1, <1>9, <1>11 DEF TypeOK
<1>13. ASSUME NEW c \in Conns, c \notin over
       PROVE  /\ Fine(c, conn[c], inflight[c], received[c]) =>
                   Fine(c, conn[c], inflight[c], received[c])'
              /\ AllDone(c, conn[c], received[c]) => AllDone(c, conn[c], received[c])'
  BY <1>1, <1>11, <1>13, Untouched
<1>14. ConnInv'
  <2> SUFFICES ASSUME NEW c \in Conns
               PROVE  /\ life'[c] # "closed" => Fine(c, conn[c], inflight[c], received[c])'
                      /\ life'[c] \in {"new", "backlog"} =>
                           conn'[c] = NewConnection' /\ received'[c] = <<>>
                      /\ life'[c] = "new" => sent'[c] = 0
    BY DEF ConnInv
  <2>1. CASE c \in over
    BY <1>9, <2>1
  <2>2. CASE c \notin over
    <3>1. life'[c] # "closed" => life[c] # "closed"
      BY <1>9, <2>2
    <3>2. life'[c] \in {"new", "backlog"} => life[c] = life'[c]
      BY <1>9, <2>2
    <3> QED
      BY <1>1, <1>11, <1>13, <2>2, <3>1, <3>2 DEF Inv, ConnInv, NewConnection, NoFile
  <2> QED
    BY <2>1, <2>2
<1>15. ListInv'
  <2>1. Len(todo') = 0 /\ spc' = "update" /\ todo' = <<>>
    BY <1>1
  <2>2. \A i, j \in 1 .. Len(active_connections') :
          active_connections'[i] = active_connections'[j] => i = j
    BY <1>9 DEF Once
  <2> QED
    BY <1>9, <2>1, <2>2 DEF ListInv
<1>16. PollInv'
  <2> SUFFICES ASSUME NEW c \in Conns, life'[c] = "open"
               PROVE  ~Whole(conn[c])' /\ ~conn'[c].close_immediately
    BY DEF PollInv
  <2>1. c \notin over
    BY <1>9
  <2>2. conn'[c] = conn[c]
    BY <1>11, <2>1
  <2>3. ~Whole(conn[c]) /\ ~conn[c].close_immediately
    <3>1. CASE life[c] = "open"
      <4>1. ~Finished(conn[c])
        BY <1>5, <2>1, <3>1
      <4> QED
        BY <3>1, <4>1 DEF Finished, Inv, PollInv
    <3>2. CASE life[c] # "open"
      <4>1. conn[c] = NewConnection
        BY <1>9, <3>2 DEF Inv, ConnInv
      <4> QED
        BY <4>1, NewFacts
    <3> QED
      BY <3>1, <3>2
  <2> QED
    BY <2>2, <2>3 DEF Whole
<1>17. ClosedInv'
  <2> SUFFICES ASSUME NEW c \in Conns, life'[c] = "closed"
               PROVE  AllDone(c, conn[c], received[c])'
    BY DEF ClosedInv
  <2>1. CASE c \in over
    <3>1. AllDone(c, conn'[c], received'[c])
      BY <1>1, <1>10, <1>11, <2>1
    <3> QED
      BY <1>1, <3>1, DoneLater
  <2>2. CASE c \notin over
    <3>1. life[c] = "closed"
      BY <1>9, <2>2
    <3> QED
      BY <1>13, <2>2, <3>1 DEF Inv, ClosedInv
  <2> QED
    BY <2>1, <2>2
<1> QED
  BY <1>12, <1>14, <1>15, <1>16, <1>17 DEF Inv

LEMMA BroadcastFine ==
  ASSUME TypeOK, Inv, NEW c \in Conns, life[c] = "open",
         NEW l, l = [Send(conn[c], Frame) EXCEPT !.crossed = @ \/ ~conn[c].websocket]
  PROVE  /\ l \in Connections /\ Fine(c, l, inflight[c], received[c])
         /\ l.recv_mbuf = conn[c].recv_mbuf
         /\ l.close_immediately = conn[c].close_immediately
<1> DEFINE k == conn[c]
           s == Send(k, Frame)
<1>1. k \in Connections /\ inflight[c] \in Seq(Halves) /\ received[c] \in Seq(Items)
  BY DEF TypeOK
<1>2. Fine(c, k, inflight[c], received[c])
  BY DEF Inv, ConnInv
<1>3. /\ s \in Connections /\ SameReceiving(k, s) /\ s.file = k.file
      /\ s.send_mbuf = Append(k.send_mbuf, Frame) /\ s.send_and_close = k.send_and_close
  BY <1>1, FrameType, SendFields
<1>4. l = [s EXCEPT !.crossed = @ \/ ~k.websocket]
  OBVIOUS
<1> HIDE DEF s, k
<1>5. l \in Connections /\ AfterPush(k, l)
  BY <1>1, <1>3, <1>4 DEF Connections, SameReceiving, AfterPush
<1>6. Still(c, l, inflight[c], received[c])
  BY <1>1, <1>2, <1>5, PushFine
<1> QED
  BY <1>5, <1>6 DEF Still, AfterPush, k

LEMMA UpdateKeeps ==
  ASSUME TypeOK, Inv, Update
  PROVE  TypeOK' /\ Inv'
<1>1. /\ spc = "update" /\ spc' \in {"select", "gone"}
      /\ script' = script /\ sent' = sent /\ shut' = shut
      /\ UNCHANGED <<life, inflight, received, active_connections, todo>>
  BY DEF Update, browserVars
<1>2. updates' \in 0 .. MaxUpdates
  BY WebConnectionsAssumption DEF Update, TypeOK
<1>3. \A c \in Conns : c \in ToSet(active_connections) <=> life[c] = "open"
  <2>1. DOMAIN active_connections = 1 .. Len(active_connections)
    BY LenProperties DEF TypeOK
  <2>2. \A c \in Conns : life[c] = "open" <=>
          \E i \in 1 .. Len(active_connections) : active_connections[i] = c
    BY DEF Inv, ListInv
  <2> QED
    BY <2>1, <2>2 DEF ToSet
<1>4. /\ DOMAIN conn' = Conns /\ conn' = [c \in Conns |-> conn'[c]]
      /\ \A c \in Conns :
           \/ conn'[c] = conn[c]
           \/ /\ life[c] = "open"
              /\ conn'[c] = [Send(conn[c], Frame) EXCEPT !.crossed = @ \/ ~conn[c].websocket]
  <2>1. CASE conn' = conn
    BY <2>1 DEF TypeOK
  <2>2. CASE conn' = Broadcast
    BY <1>3, <2>2 DEF Broadcast
  <2> QED
    BY <2>1, <2>2 DEF Update
<1>5. ASSUME NEW c \in Conns
      PROVE  /\ conn'[c] \in Connections
             /\ life[c] # "closed" => Fine(c, conn[c], inflight[c], received[c])'
             /\ AllDone(c, conn[c], received[c]) /\ life[c] = "closed" =>
                  AllDone(c, conn[c], received[c])'
             /\ life[c] # "open" => conn'[c] = conn[c]
             /\ conn'[c].recv_mbuf = conn[c].recv_mbuf
             /\ conn'[c].close_immediately = conn[c].close_immediately
  <2>1. CASE conn'[c] = conn[c]
    <3>1. conn[c] \in Connections
      BY DEF TypeOK
    <3>2. life[c] # "closed" => Fine(c, conn[c], inflight[c], received[c])
      BY DEF Inv, ConnInv
    <3> QED
      BY <1>1, <2>1, <3>1, <3>2, Untouched
  <2>2. CASE /\ life[c] = "open"
             /\ conn'[c] = [Send(conn[c], Frame) EXCEPT !.crossed = @ \/ ~conn[c].websocket]
    <3> DEFINE l == conn'[c]
    <3>1. /\ l \in Connections /\ Fine(c, l, inflight[c], received[c])
          /\ l.recv_mbuf = conn[c].recv_mbuf
          /\ l.close_immediately = conn[c].close_immediately
      <4> HIDE DEF l
      <4> QED
        BY <2>2, BroadcastFine DEF l
    <3>2. Fine(c, conn'[c], inflight'[c], received'[c])
      BY <1>1, <3>1
    <3>3. Fine(c, conn[c], inflight[c], received[c])'
      BY <1>1, <3>2, FineLater
    <3> QED
      BY <2>2, <3>1, <3>3
  <2> QED
    BY <1>4, <2>1, <2>2
<1>6. conn' \in [Conns -> Connections]
  BY <1>4, <1>5
<1>7. TypeOK'
  BY <1>1, <1>2, <1>6 DEF TypeOK
<1>8. ConnInv'
  BY <1>1, <1>5 DEF Inv, ConnInv, NewConnection, NoFile
<1>9. ListInv'
  BY <1>1 DEF Inv, ListInv
<1>10. PollInv'
  <2>1. \A c \in Conns : life[c] = "open" => ~conn[c].close_immediately /\ ~Whole(conn[c])
    BY <1>1 DEF Inv, PollInv
  <2> QED
    BY <1>1, <1>5, <2>1 DEF PollInv, Whole
<1>11. ClosedInv'
  BY <1>1, <1>5 DEF Inv, ClosedInv
<1> QED
  BY <1>7, <1>8, <1>9, <1>10, <1>11 DEF Inv

LEMMA StutterKeeps ==
  ASSUME TypeOK, Inv, UNCHANGED vars
  PROVE  TypeOK' /\ Inv'
<1>1. /\ script' = script /\ sent' = sent /\ shut' = shut
      /\ UNCHANGED <<life, inflight, received, conn, spc, active_connections, todo, updates>>
  BY DEF vars, browserVars
<1>2. TypeOK'
  BY <1>1 DEF TypeOK
<1>3. ASSUME NEW c \in Conns
      PROVE  /\ Fine(c, conn[c], inflight[c], received[c]) =>
                  Fine(c, conn[c], inflight[c], received[c])'
             /\ AllDone(c, conn[c], received[c]) => AllDone(c, conn[c], received[c])'
  BY <1>1, Untouched
<1>4. ConnInv'
  BY <1>1, <1>3 DEF Inv, ConnInv, NewConnection, NoFile
<1>5. ListInv'
  BY <1>1 DEF Inv, ListInv
<1>6. PollInv'
  BY <1>1 DEF Inv, PollInv, Whole
<1>7. ClosedInv'
  BY <1>1, <1>3 DEF Inv, ClosedInv
<1> QED
  BY <1>2, <1>4, <1>5, <1>6, <1>7 DEF Inv

LEMMA NextKeeps ==
  ASSUME TypeOK, Inv, [Next]_vars
  PROVE  TypeOK' /\ Inv'
<1>1. ASSUME NEW c \in Conns, Connect(c) PROVE TypeOK' /\ Inv'
  BY <1>1, ConnectKeeps
<1>2. ASSUME NEW c \in Conns, SendMessage(c) PROVE TypeOK' /\ Inv'
  BY <1>2, SendMessageKeeps
<1>3. ASSUME NEW c \in Conns, Shut(c) PROVE TypeOK' /\ Inv'
  BY <1>3, ShutKeeps
<1>4. CASE Bind
  BY <1>4, BindKeeps
<1>5. CASE Select
  BY <1>5, SelectKeeps
<1>6. CASE Handle \/ HandleReset
  BY <1>6, HandleKeeps, HandleResetKeeps
<1>7. CASE AcceptAndClose
  BY <1>7, AcceptAndCloseKeeps
<1>8. CASE Update
  BY <1>8, UpdateKeeps
<1>9. CASE Gone \/ UNCHANGED vars
  BY <1>9, StutterKeeps DEF Gone
<1> QED
  BY <1>1, <1>2, <1>3, <1>4, <1>5, <1>6, <1>7, <1>8, <1>9 DEF Next, Server

\* The invariant, for the theorems that follow.
LEMMA Inductive == Spec => [](TypeOK /\ Inv)
<1>1. Init => TypeOK /\ Inv
  BY InitKeeps
<1>2. TypeOK /\ Inv /\ [Next]_vars => TypeOK' /\ Inv'
  BY NextKeeps
<1> QED
  BY <1>1, <1>2, PTL DEF Spec

\* For scripts that go on as pages do, all that the server and the browsers
\* keep has its type: mg_server, ev_handler and mongoose, whatever the order of
\* browsers, network and select.
THEOREM TypeCorrect == Spec => []TypeOK
  BY Inductive, PTL

\* No message of a browser is lost, handled twice or out of order: what
\* mg_mgr_poll leaves in a connection's memory is less than a message, and
\* mg_close_conn comes when all is handled.
THEOREM MessagesCarriedOut == Spec => []CarriedOut
<1>1. TypeOK /\ Inv => CarriedOut
  <2> SUFFICES ASSUME TypeOK, Inv, NEW c \in Conns
               PROVE  /\ life[c] # "closed" =>
                           /\ conn[c].handled = [i \in DOMAIN conn[c].handled |-> i]
                           /\ 2 * Len(conn[c].handled) + Len(conn[c].recv_mbuf)
                                + Len(inflight[c]) = 2 * sent[c]
                      /\ life[c] = "open" /\ spc = "select" => ~Whole(conn[c])
                      /\ life[c] = "closed" =>
                           \/ conn[c].broken
                           \/ \A nr \in 1 .. sent[c] :
                                \/ nr \in ToSet(conn[c].handled)
                                \/ Kind(c, nr) \in {"bad", "close"}
    BY DEF CarriedOut
  <2>1. ASSUME life[c] # "closed"
        PROVE  /\ conn[c].handled = [i \in DOMAIN conn[c].handled |-> i]
               /\ 2 * Len(conn[c].handled) + Len(conn[c].recv_mbuf)
                    + Len(inflight[c]) = 2 * sent[c]
    <3>1. Counted(c, conn[c], inflight[c])
      BY <2>1 DEF Inv, ConnInv, Fine
    <3>2. conn[c].handled \in Seq(Nat)
      BY DEF TypeOK, Connections
    <3>3. DOMAIN conn[c].handled = 1 .. Len(conn[c].handled)
      BY <3>2, LenProperties
    <3> QED
      BY <3>1, <3>3 DEF Counted
  <2>2. life[c] = "open" /\ spc = "select" => ~Whole(conn[c])
    BY DEF Inv, PollInv
  <2>3. life[c] = "closed" =>
          \/ conn[c].broken
          \/ \A nr \in 1 .. sent[c] :
               nr \in ToSet(conn[c].handled) \/ Kind(c, nr) \in {"bad", "close"}
    BY DEF Inv, ClosedInv, AllDone
  <2> QED
    BY <2>1, <2>2, <2>3
<1> QED
  BY <1>1, Inductive, PTL

\* What a browser receives makes sense to it: however select, partial writes
\* and mg_http_transfer_file_data interleave, no answer is cut, repeated or
\* mixed with another, and nothing comes before a websocket's handshake.
THEOREM AnswersWhole == Spec => []AnswersIntact
<1>1. TypeOK /\ Inv => AnswersIntact
  <2> SUFFICES ASSUME TypeOK, Inv, NEW c \in Conns,
                      ~conn[c].crossed, ~conn[c].broken, ~shut[c]
               PROVE  /\ life[c] = "open" =>
                           Sensible(c, conn[c], received[c] \o conn[c].send_mbuf \o Pending(conn[c]))
                      /\ life[c] = "closed" /\ ~conn[c].close_immediately =>
                           Sensible(c, conn[c], received[c])
    BY DEF AnswersIntact
  <2>1. life[c] = "open" =>
          Sensible(c, conn[c], received[c] \o conn[c].send_mbuf \o Pending(conn[c]))
    BY DEF Inv, ConnInv, Fine, Intact
  <2>2. life[c] = "closed" /\ ~conn[c].close_immediately => Sensible(c, conn[c], received[c])
    BY DEF Inv, ClosedInv, AllDone
  <2> QED
    BY <2>1, <2>2
<1> QED
  BY <1>1, Inductive, PTL

===========================================================================
