------------------------- MODULE RealtimeHub_proof -------------------------
(***************************************************************************)
(* Events never cross account boundaries, those of a publisher arrive in   *)
(* order and once, no handler is left blocked in a Read that nobody ends,  *)
(* and the hub implements the abstract EventFeed, for every number of      *)
(* accounts, connections and publishers and every channel capacity.        *)
(*                                                                         *)
(* TypeOK and Isolation are inductive together: a publisher copies         *)
(* connections of its account only, what it sends carries that account,    *)
(* and an event then moves from the channel to the writer and to the       *)
(* socket of one connection, whose account never changes.                  *)
(***************************************************************************)
EXTENDS RealtimeHub, TLAPS

\* Appending an event of an account keeps a sequence within the account (PublishSend).
LEMMA AppendOfAccount ==
    ASSUME NEW s \in Seq(Event), NEW e \in Event, NEW a, OfAccount(s, a), e.account = a
    PROVE  OfAccount(Append(s, e), a)
  BY DEF OfAccount

\* So does taking the first event, which is of the account itself (WriterTake).
LEMMA HeadTailOfAccount ==
    ASSUME NEW s \in Seq(Event), s # <<>>, NEW a, OfAccount(s, a)
    PROVE  OfAccount(<<Head(s)>>, a) /\ OfAccount(Tail(s), a)
  BY DEF OfAccount

\* And writing the event in hand after those written before (WriterWrite).
LEMMA ConcatOfAccount ==
    ASSUME NEW s \in Seq(Event), NEW t \in Seq(Event), NEW a, OfAccount(s, a), OfAccount(t, a)
    PROVE  OfAccount(s \o t, a)
  BY DEF OfAccount

\* No event, no account.
LEMMA EmptyOfAccount == \A a : OfAccount(<<>>, a)
  BY DEF OfAccount

\* The inductive invariant.
Inv == TypeOK /\ Isolation

\* The empty hub has it (NewInMemoryHub).
LEMMA InitEstablishes == Init => Inv
  <1> SUFFICES ASSUME Init PROVE Inv
    OBVIOUS
  <1>1. NothingPublished \in [n : Nat, to : Accounts, targets : SUBSET Conns]
    BY SomeAccount DEF NothingPublished
  <1>2. "new" \in ReaderStage /\ "none" \in WriterStage /\ "none" \in HeartbeatStage
    BY DEF ReaderStage, WriterStage, HeartbeatStage
  <1>3. NoSweep \in [pc : SweepStage, todo : SUBSET Conns]
    BY DEF NoSweep, SweepStage
  <1>4. <<>> \in Seq(Event)
    OBVIOUS
  <1>5. TypeOK
    BY <1>1, <1>2, <1>3, <1>4 DEF Init, TypeOK
  <1>6. Isolation
    BY EmptyOfAccount DEF Init, Isolation, NothingPublished
  <1> QED
    BY <1>5, <1>6 DEF Inv

\* Every step of the hub preserves the types and the isolation.
LEMMA StepPreserves == Inv /\ [Next]_vars => Inv'
  <1> SUFFICES ASSUME Inv, [Next]_vars PROVE Inv'
    OBVIOUS
  <1> USE DEF Inv
  <1> HIDE DEF Event
  <1>1. ASSUME NEW c \in Conns, Register(c) PROVE Inv'
    <2>1. TypeOK'
      BY <1>1 DEF Register, TypeOK, ReaderStage, WriterStage, HeartbeatStage, SweepStage
    <2>2. Isolation'
      BY <1>1 DEF Register, Isolation
    <2> QED
      BY <2>1, <2>2
  <1>2. ASSUME NEW c \in Conns, CheckDone(c) PROVE Inv'
    <2>1. TypeOK'
      BY <1>2 DEF CheckDone, TypeOK, ReaderStage, WriterStage, HeartbeatStage, SweepStage
    <2>2. Isolation'
      BY <1>2 DEF CheckDone, Isolation
    <2> QED
      BY <2>1, <2>2
  <1>3. ASSUME NEW c \in Conns, Read(c) PROVE Inv'
    <2>1. reader' \in [Conns -> ReaderStage]
      BY <1>3 DEF Read, TypeOK, ReaderStage
    <2>2. TypeOK'
      BY <1>3, <2>1 DEF Read, TypeOK
    <2>3. Isolation'
      BY <1>3 DEF Read, Isolation
    <2> QED
      BY <2>2, <2>3
  <1>4. ASSUME NEW c \in Conns, Deregister(c) PROVE Inv'
    <2>1. TypeOK'
      BY <1>4 DEF Deregister, TypeOK, ReaderStage, WriterStage, HeartbeatStage, SweepStage
    <2>2. Isolation'
      BY <1>4 DEF Deregister, Isolation
    <2> QED
      BY <2>1, <2>2
  <1>4a. ASSUME NEW c \in Conns, EndConn(c) PROVE Inv'
    <2>1. TypeOK'
      BY <1>4a DEF EndConn, TypeOK, ReaderStage, WriterStage, HeartbeatStage, SweepStage
    <2>2. Isolation'
      BY <1>4a DEF EndConn, Isolation
    <2> QED
      BY <2>1, <2>2
  <1>5. ASSUME NEW c \in Conns, WriterTake(c) PROVE Inv'
    <2> DEFINE q == queue[c]
    <2>1. q \in Seq(Event) /\ q # <<>> /\ OfAccount(q, AccountOf[c])
      BY <1>5 DEF WriterTake, TypeOK, Isolation
    <2>2. Tail(q) \in Seq(Event) /\ <<Head(q)>> \in Seq(Event)
      BY <2>1
    <2>3. OfAccount(<<Head(q)>>, AccountOf[c]) /\ OfAccount(Tail(q), AccountOf[c])
      BY <2>1, HeadTailOfAccount
    <2>4. TypeOK'
      BY <1>5, <2>2 DEF WriterTake, TypeOK, ReaderStage, WriterStage, HeartbeatStage, SweepStage
    <2>5. Isolation'
      BY <1>5, <2>3 DEF WriterTake, TypeOK, Isolation
    <2> QED
      BY <2>4, <2>5
  <1>6. ASSUME NEW c \in Conns, WriterWrite(c) PROVE Inv'
    <2>1. sent[c] \in Seq(Event) /\ inHand[c] \in Seq(Event)
      BY DEF TypeOK
    <2>2. sent[c] \o inHand[c] \in Seq(Event)
      BY <2>1
    <2>3. OfAccount(sent[c] \o inHand[c], AccountOf[c]) /\ OfAccount(<<>>, AccountOf[c])
      BY <2>1, ConcatOfAccount, EmptyOfAccount DEF Isolation
    <2>4. sent' \in [Conns -> Seq(Event)] /\ inHand' \in [Conns -> Seq(Event)]
      <3>1. CASE sent' = sent
        BY <1>6, <3>1 DEF WriterWrite, TypeOK
      <3>2. CASE sent' = [sent EXCEPT ![c] = @ \o inHand[c]]
        BY <1>6, <2>2, <3>2 DEF WriterWrite, TypeOK
      <3> QED
        BY <1>6, <3>1, <3>2 DEF WriterWrite
    <2>5. writer' \in [Conns -> WriterStage]
      BY <1>6 DEF WriterWrite, TypeOK, WriterStage
    <2>6. sock' \in [Conns -> {"open", "stalled", "closed"}]
      BY <1>6 DEF WriterWrite, TypeOK
    <2>7. TypeOK'
      BY <1>6, <2>4, <2>5, <2>6 DEF WriterWrite, TypeOK
    <2>8. Isolation'
      BY <1>6, <2>3 DEF WriterWrite, TypeOK, Isolation
    <2> QED
      BY <2>7, <2>8
  <1>7. ASSUME NEW c \in Conns, WriterExit(c) PROVE Inv'
    <2>1. TypeOK'
      BY <1>7 DEF WriterExit, TypeOK, ReaderStage, WriterStage, HeartbeatStage, SweepStage
    <2>2. Isolation'
      BY <1>7 DEF WriterExit, Isolation
    <2> QED
      BY <2>1, <2>2
  <1>8. ASSUME NEW c \in Conns, PingFails(c) PROVE Inv'
    <2>1. TypeOK'
      BY <1>8 DEF PingFails, TypeOK, ReaderStage, WriterStage, HeartbeatStage, SweepStage
    <2>2. Isolation'
      BY <1>8 DEF PingFails, Isolation
    <2> QED
      BY <2>1, <2>2
  <1>9. ASSUME NEW c \in Conns, HeartbeatExit(c) PROVE Inv'
    <2>1. TypeOK'
      BY <1>9 DEF HeartbeatExit, TypeOK, ReaderStage, WriterStage, HeartbeatStage, SweepStage
    <2>2. Isolation'
      BY <1>9 DEF HeartbeatExit, Isolation
    <2> QED
      BY <2>1, <2>2
  <1>10. ASSUME NEW c \in Conns, Peer(c) PROVE Inv'
    <2>1. sock' \in [Conns -> {"open", "stalled", "closed"}]
      BY <1>10 DEF Peer, TypeOK
    <2>2. TypeOK'
      BY <1>10, <2>1 DEF Peer, TypeOK
    <2>3. Isolation'
      BY <1>10 DEF Peer, Isolation
    <2> QED
      BY <2>2, <2>3
  <1>11. ASSUME NEW c \in Conns, BroadcastClose(c) PROVE Inv'
    <2>1. TypeOK'
      BY <1>11 DEF BroadcastClose, TypeOK, ReaderStage, WriterStage, HeartbeatStage, SweepStage
    <2>2. Isolation'
      BY <1>11 DEF BroadcastClose, Isolation
    <2> QED
      BY <2>1, <2>2
  <1>12. ASSUME NEW c \in Conns, CloseSocket(c) PROVE Inv'
    <2>1. TypeOK'
      BY <1>12 DEF CloseSocket, TypeOK, ReaderStage, WriterStage, HeartbeatStage, SweepStage
    <2>2. Isolation'
      BY <1>12 DEF CloseSocket, Isolation
    <2> QED
      BY <2>1, <2>2
  <1>13. ASSUME NEW p \in Publishers, NEW a \in Accounts, PublishBegin(p, a) PROVE Inv'
    <2>1. Targets(a) \subseteq Conns /\ \A c \in Targets(a) : AccountOf[c] = a
      BY DEF Targets, TypeOK
    <2>2. TypeOK'
      BY <1>13, <2>1 DEF PublishBegin, connVars, TypeOK, ReaderStage, WriterStage, HeartbeatStage, SweepStage
    <2>3. Isolation'
      BY <1>13, <2>1 DEF PublishBegin, connVars, TypeOK, Isolation
    <2> QED
      BY <2>2, <2>3
  <1>14. ASSUME NEW p \in Publishers, NEW c \in Conns, PublishSend(p, c) PROVE Inv'
    <2> DEFINE e == Published(p)
    <2>1. e \in Event /\ e.account = AccountOf[c]
      BY <1>14 DEF PublishSend, Published, Event, TypeOK, Isolation
    <2>2. queue[c] \in Seq(Event) /\ OfAccount(queue[c], AccountOf[c])
      BY DEF TypeOK, Isolation
    <2>3. Append(queue[c], e) \in Seq(Event) /\ OfAccount(Append(queue[c], e), AccountOf[c])
      BY <2>1, <2>2, AppendOfAccount
    <2>4. queue' \in [Conns -> Seq(Event)] /\ OfAccount(queue'[c], AccountOf[c])
      BY <1>14, <2>2, <2>3 DEF PublishSend, TypeOK
    <2>5. \A d \in Conns \ {c} : queue'[d] = queue[d]
      BY <1>14 DEF PublishSend, TypeOK
    <2>6. /\ pub' \in [Publishers -> [n : Nat, to : Accounts, targets : SUBSET Conns]]
          /\ \A o \in Publishers : pub'[o].to = pub[o].to /\ pub'[o].targets \subseteq pub[o].targets
      BY <1>14 DEF PublishSend, TypeOK
    <2>7. TypeOK'
      BY <1>14, <2>4, <2>6 DEF PublishSend, TypeOK, ReaderStage, WriterStage, HeartbeatStage, SweepStage
    <2>8. Isolation'
      BY <1>14, <2>4, <2>5, <2>6 DEF PublishSend, Isolation
    <2> QED
      BY <2>7, <2>8
  <1>15. CASE BroadcastBegin
    <2>1. TypeOK'
      BY <1>15 DEF BroadcastBegin, connVars, TypeOK, ReaderStage, WriterStage, HeartbeatStage, SweepStage
    <2>2. Isolation'
      BY <1>15 DEF BroadcastBegin, connVars, Isolation
    <2> QED
      BY <2>1, <2>2
  <1>16. CASE CloseBegin
    <2>1. TypeOK'
      BY <1>16 DEF CloseBegin, connVars, TypeOK, ReaderStage, WriterStage, HeartbeatStage, SweepStage
    <2>2. Isolation'
      BY <1>16 DEF CloseBegin, connVars, Isolation
    <2> QED
      BY <2>1, <2>2
  <1>17. CASE CloseSnapshot
    <2>1. TypeOK'
      BY <1>17 DEF CloseSnapshot, connVars, TypeOK, ReaderStage, WriterStage, HeartbeatStage, SweepStage
    <2>2. Isolation'
      BY <1>17 DEF CloseSnapshot, connVars, Isolation
    <2> QED
      BY <2>1, <2>2
  <1>18. CASE UNCHANGED vars
    BY <1>18 DEF vars, TypeOK, ReaderStage, WriterStage, HeartbeatStage, SweepStage, Isolation
  <1> QED
    BY <1>1, <1>2, <1>3, <1>4, <1>4a, <1>5, <1>6, <1>7, <1>8, <1>9, <1>10, <1>11, <1>12, <1>13, <1>14, <1>15, <1>16, <1>17, <1>18
    DEF Next, Handler, Writer, Heartbeat, Sending, Closing

\* The two facts together: the strengthened invariant of the hub.
THEOREM Invariance == Spec => []Inv
  <1>1. QED
    BY InitEstablishes, StepPreserves, PTL DEF Spec

\* The state of the hub keeps its types (Register, Publish, writer, heartbeat, Close).
THEOREM TypeCorrect == Spec => []TypeOK
  <1>1. Inv => TypeOK
    BY DEF Inv
  <1> QED
    BY <1>1, Invariance, PTL

\* No event reaches a connection of another account (Publish, writer).
THEOREM AccountsIsolated == Spec => []Isolation
  <1>1. Inv => Isolation
    BY DEF Inv
  <1> QED
    BY <1>1, Invariance, PTL

----------------------------------------------------------------------------
(***************************************************************************)
(* The order of events.  The events of a connection are in three places:   *)
(* written, in the writer's hand, queued.  Each is ordered, and whatever   *)
(* is in an earlier place precedes whatever is in a later one.  An event   *)
(* is sent once to a copied target, and a publisher finishes an event      *)
(* before it publishes the next: what a connection has of a publisher is   *)
(* at most as new as the event under way, and older while the connection   *)
(* waits for it.                                                           *)
(***************************************************************************)

\* Whatever s has of a publisher precedes whatever t has of it.
Before(s, t) ==
    \A i \in 1 .. Len(s), j \in 1 .. Len(t) : s[i].by = t[j].by => s[i].n < t[j].n

\* Whatever s has of publisher p is at most its n-th event.
UpTo(s, p, n) == \A i \in 1 .. Len(s) : s[i].by = p => s[i].n <= n

\* Two ordered sequences, one before the other, make an ordered one.
LEMMA ConcatOrdered ==
    ASSUME NEW s \in Seq(Event), NEW t \in Seq(Event), Ordered(s), Ordered(t), Before(s, t)
    PROVE  Ordered(s \o t)
  <1>1. ASSUME NEW i \in 1 .. Len(s \o t), NEW j \in 1 .. Len(s \o t), i < j,
               (s \o t)[i].by = (s \o t)[j].by
        PROVE  (s \o t)[i].n < (s \o t)[j].n
    <2>1. CASE j <= Len(s)
      BY <1>1, <2>1 DEF Ordered
    <2>2. CASE i > Len(s)
      <3>1. /\ i - Len(s) \in 1 .. Len(t) /\ j - Len(s) \in 1 .. Len(t)
            /\ (s \o t)[i] = t[i - Len(s)] /\ (s \o t)[j] = t[j - Len(s)]
        BY <1>1, <2>2
      <3> QED
        BY <1>1, <3>1 DEF Ordered
    <2>3. CASE i <= Len(s) /\ j > Len(s)
      <3>1. /\ i \in 1 .. Len(s) /\ j - Len(s) \in 1 .. Len(t)
            /\ (s \o t)[i] = s[i] /\ (s \o t)[j] = t[j - Len(s)]
        BY <1>1, <2>3
      <3> QED
        BY <1>1, <3>1 DEF Before
    <2> QED
      BY <2>1, <2>2, <2>3
  <1> QED
    BY <1>1 DEF Ordered

\* What holds before t of two sequences holds of their concatenation.
LEMMA ConcatBefore ==
    ASSUME NEW s \in Seq(Event), NEW t \in Seq(Event), NEW u \in Seq(Event),
           Before(s, u), Before(t, u)
    PROVE  Before(s \o t, u)
  <1>1. ASSUME NEW i \in 1 .. Len(s \o t) PROVE
          \/ i \in 1 .. Len(s) /\ (s \o t)[i] = s[i]
          \/ i - Len(s) \in 1 .. Len(t) /\ (s \o t)[i] = t[i - Len(s)]
    OBVIOUS
  <1> QED
    BY <1>1 DEF Before

\* And the bound on both is a bound on the concatenation.
LEMMA ConcatUpTo ==
    ASSUME NEW s \in Seq(Event), NEW t \in Seq(Event), NEW p, NEW n \in Nat,
           UpTo(s, p, n), UpTo(t, p, n)
    PROVE  UpTo(s \o t, p, n)
  <1>1. ASSUME NEW i \in 1 .. Len(s \o t) PROVE
          \/ i \in 1 .. Len(s) /\ (s \o t)[i] = s[i]
          \/ i - Len(s) \in 1 .. Len(t) /\ (s \o t)[i] = t[i - Len(s)]
    OBVIOUS
  <1> QED
    BY <1>1 DEF UpTo

\* Taking the first event of a sequence (WriterTake).
LEMMA TakeFirst ==
    ASSUME NEW s \in Seq(Event), s # <<>>, Ordered(s)
    PROVE  /\ Ordered(<<Head(s)>>) /\ Ordered(Tail(s)) /\ Before(<<Head(s)>>, Tail(s))
           /\ \A u \in Seq(Event) : Before(u, s) => Before(u, <<Head(s)>>) /\ Before(u, Tail(s))
           /\ \A p, n : UpTo(s, p, n) => UpTo(<<Head(s)>>, p, n) /\ UpTo(Tail(s), p, n)
  <1>1. /\ 1 \in 1 .. Len(s) /\ Len(<<Head(s)>>) = 1 /\ <<Head(s)>>[1] = s[1]
        /\ \A i \in 1 .. Len(Tail(s)) : i + 1 \in 1 .. Len(s) /\ Tail(s)[i] = s[i + 1]
    OBVIOUS
  <1>2. Ordered(<<Head(s)>>)
    BY <1>1 DEF Ordered
  <1>3. Ordered(Tail(s))
    <2>1. ASSUME NEW i \in 1 .. Len(Tail(s)), NEW j \in 1 .. Len(Tail(s)), i < j,
                 Tail(s)[i].by = Tail(s)[j].by
          PROVE  Tail(s)[i].n < Tail(s)[j].n
      <3>1. i + 1 \in 1 .. Len(s) /\ j + 1 \in 1 .. Len(s) /\ i + 1 < j + 1
        BY <1>1, <2>1
      <3> QED
        BY <1>1, <2>1, <3>1 DEF Ordered
    <2> QED
      BY <2>1 DEF Ordered
  <1>4. Before(<<Head(s)>>, Tail(s))
    <2>1. ASSUME NEW j \in 1 .. Len(Tail(s)), s[1].by = Tail(s)[j].by
          PROVE  s[1].n < Tail(s)[j].n
      <3>1. 1 \in 1 .. Len(s) /\ j + 1 \in 1 .. Len(s) /\ 1 < j + 1
        BY <1>1
      <3> QED
        BY <1>1, <2>1, <3>1 DEF Ordered
    <2> QED
      BY <1>1, <2>1 DEF Before
  <1>5. ASSUME NEW u \in Seq(Event), Before(u, s)
        PROVE  Before(u, <<Head(s)>>) /\ Before(u, Tail(s))
    BY <1>1, <1>5 DEF Before
  <1>6. ASSUME NEW p, NEW n, UpTo(s, p, n)
        PROVE  UpTo(<<Head(s)>>, p, n) /\ UpTo(Tail(s), p, n)
    BY <1>1, <1>6 DEF UpTo
  <1> QED
    BY <1>2, <1>3, <1>4, <1>5, <1>6

\* Appending an event that is newer than all of its publisher (PublishSend).
LEMMA AppendNewest ==
    ASSUME NEW s \in Seq(Event), NEW e \in Event, Ordered(s), UpTo(s, e.by, e.n - 1)
    PROVE  /\ Ordered(Append(s, e))
           /\ \A u \in Seq(Event) :
                 Before(u, s) /\ UpTo(u, e.by, e.n - 1) => Before(u, Append(s, e))
           /\ \A p, n : UpTo(s, p, n) /\ (e.by = p => e.n <= n) => UpTo(Append(s, e), p, n)
  <1> DEFINE t == Append(s, e)
  <1>1. /\ Len(t) = Len(s) + 1 /\ t[Len(s) + 1] = e
        /\ \A i \in 1 .. Len(t) : i # Len(s) + 1 => i \in 1 .. Len(s) /\ t[i] = s[i]
    OBVIOUS
  <1>2. e.n \in Nat /\ (\A i \in 1 .. Len(s) : s[i].n \in Nat)
    <2>1. \A i \in 1 .. Len(s) : s[i] \in Event
      OBVIOUS
    <2> QED
      BY <2>1 DEF Event
  <1>3. Ordered(t)
    <2>1. ASSUME NEW i \in 1 .. Len(t), NEW j \in 1 .. Len(t), i < j, t[i].by = t[j].by
          PROVE  t[i].n < t[j].n
      <3>1. i \in 1 .. Len(s) /\ t[i] = s[i]
        BY <1>1, <2>1
      <3>2. CASE j = Len(s) + 1
        BY <1>1, <1>2, <2>1, <3>1, <3>2 DEF UpTo
      <3>3. CASE j # Len(s) + 1
        BY <1>1, <2>1, <3>1, <3>3 DEF Ordered
      <3> QED
        BY <3>2, <3>3
    <2> QED
      BY <2>1 DEF Ordered
  <1>4. ASSUME NEW u \in Seq(Event), Before(u, s), UpTo(u, e.by, e.n - 1)
        PROVE  Before(u, t)
    <2>1. ASSUME NEW i \in 1 .. Len(u), NEW j \in 1 .. Len(t), u[i].by = t[j].by
          PROVE  u[i].n < t[j].n
      <3>1. u[i].n \in Nat
        <4>1. u[i] \in Event
          OBVIOUS
        <4> QED
          BY <4>1 DEF Event
      <3>2. CASE j = Len(s) + 1
        BY <1>1, <1>2, <1>4, <2>1, <3>1, <3>2 DEF UpTo
      <3>3. CASE j # Len(s) + 1
        BY <1>1, <1>4, <2>1, <3>3 DEF Before
      <3> QED
        BY <3>2, <3>3
    <2> QED
      BY <2>1 DEF Before
  <1>5. ASSUME NEW p, NEW n, UpTo(s, p, n), e.by = p => e.n <= n
        PROVE  UpTo(t, p, n)
    BY <1>1, <1>5 DEF UpTo
  <1> QED
    BY <1>3, <1>4, <1>5

\* What the order of the stream of c rests on: the order within and between the
\* three places, and no event of p newer than m.
Places(c) ==
    /\ Ordered(sent[c]) /\ Ordered(inHand[c]) /\ Ordered(queue[c])
    /\ Before(sent[c], inHand[c]) /\ Before(sent[c], queue[c]) /\ Before(inHand[c], queue[c])

AtMost(c, p, m) == UpTo(sent[c], p, m) /\ UpTo(inHand[c], p, m) /\ UpTo(queue[c], p, m)

\* The number of the newest event of p that c may have.
Newest(c, p) == IF c \in pub[p].targets THEN pub[p].n - 1 ELSE pub[p].n

OrderInv ==
    /\ \A c \in Conns : Places(c)
    /\ \A c \in Conns, p \in Publishers : AtMost(c, p, Newest(c, p))
    /\ \A p \in Publishers : pub[p].targets # {} => pub[p].n > 0

\* A target waits for the event under way, so there is one.
LEMMA NewestBounds ==
    ASSUME TypeOK, OrderInv, NEW c \in Conns, NEW p \in Publishers
    PROVE  Newest(c, p) \in Nat /\ AtMost(c, p, Newest(c, p))
  <1>1. pub[p].n \in Nat /\ pub[p].targets \subseteq Conns
    BY DEF TypeOK
  <1>2. c \in pub[p].targets => pub[p].n > 0
    BY DEF OrderInv
  <1>3. Newest(c, p) \in Nat
    BY <1>1, <1>2 DEF Newest
  <1> QED
    BY <1>3 DEF OrderInv

\* The empty hub: no event yet (NewInMemoryHub).
LEMMA InitOrder == Init => OrderInv
  <1> SUFFICES ASSUME Init PROVE OrderInv
    OBVIOUS
  <1>1. Ordered(<<>>) /\ Before(<<>>, <<>>) /\ (\A p, n : UpTo(<<>>, p, n))
    BY DEF Ordered, Before, UpTo
  <1>2. \A c \in Conns : Places(c) /\ \A p, n : AtMost(c, p, n)
    BY <1>1 DEF Init, Places, AtMost
  <1>3. \A p \in Publishers : pub[p].targets = {}
    BY DEF Init, NothingPublished
  <1> QED
    BY <1>2, <1>3 DEF OrderInv

\* A bound on the events of a connection may be raised.
LEMMA RaiseBound ==
    ASSUME TypeOK, NEW c \in Conns, NEW p, NEW m \in Int, NEW n \in Int, m <= n, AtMost(c, p, m)
    PROVE  AtMost(c, p, n)
  <1>1. ASSUME NEW s \in Seq(Event), UpTo(s, p, m) PROVE UpTo(s, p, n)
    <2>1. \A i \in 1 .. Len(s) : s[i].n \in Nat
      <3>1. \A i \in 1 .. Len(s) : s[i] \in Event
        OBVIOUS
      <3> QED
        BY <3>1 DEF Event
    <2> QED
      BY <1>1, <2>1 DEF UpTo
  <1> QED
    BY <1>1 DEF AtMost, TypeOK

\* Steps that move no event.
LEMMA StreamsUnchanged ==
    ASSUME OrderInv, UNCHANGED <<sent, inHand, queue, pub>>
    PROVE  OrderInv'
  BY DEF OrderInv, Places, AtMost, Newest

\* The writer takes the first event of the channel.
LEMMA WriterTakeOrder ==
    ASSUME TypeOK, OrderInv, NEW c \in Conns, WriterTake(c)
    PROVE  OrderInv'
  <1> DEFINE q == queue[c]
  <1>1. q \in Seq(Event) /\ q # <<>> /\ sent[c] \in Seq(Event)
    BY DEF WriterTake, TypeOK
  <1>2. Ordered(sent[c]) /\ Ordered(q) /\ Before(sent[c], q)
    BY DEF OrderInv, Places
  <1>3. /\ inHand'[c] = <<Head(q)>> /\ queue'[c] = Tail(q) /\ sent' = sent /\ pub' = pub
        /\ \A d \in Conns \ {c} : inHand'[d] = inHand[d] /\ queue'[d] = queue[d]
    BY DEF WriterTake, TypeOK
  <1>4. Places(c)'
    BY <1>1, <1>2, <1>3, TakeFirst DEF Places
  <1>5. \A p, n : AtMost(c, p, n) => AtMost(c, p, n)'
    BY <1>1, <1>2, <1>3, TakeFirst DEF AtMost
  <1>6. \A d \in Conns \ {c} : /\ Places(d) => Places(d)'
                              /\ \A p, n : AtMost(d, p, n) => AtMost(d, p, n)'
    BY <1>3 DEF Places, AtMost
  <1>7. \A d \in Conns : Places(d)'
    BY <1>4, <1>6 DEF OrderInv
  <1>8. \A d \in Conns, p \in Publishers : AtMost(d, p, Newest(d, p))'
    <2>1. ASSUME NEW d \in Conns, NEW p \in Publishers PROVE AtMost(d, p, Newest(d, p))'
      <3>1. AtMost(d, p, Newest(d, p))
        BY DEF OrderInv
      <3> QED
        BY <3>1, <1>3, <1>5, <1>6 DEF AtMost, Newest
    <2> QED
      BY <2>1
  <1> QED
    BY <1>3, <1>7, <1>8 DEF OrderInv

\* The write moves the event in hand behind those written before, or loses it.
LEMMA WriterWriteOrder ==
    ASSUME TypeOK, OrderInv, NEW c \in Conns, WriterWrite(c)
    PROVE  OrderInv'
  <1>1. sent[c] \in Seq(Event) /\ inHand[c] \in Seq(Event) /\ queue[c] \in Seq(Event)
    BY DEF TypeOK
  <1>2. Places(c)
    BY DEF OrderInv
  <1>3. /\ sent'[c] = sent[c] \o inHand[c] \/ sent'[c] = sent[c]
        /\ inHand'[c] = <<>> /\ queue' = queue /\ pub' = pub
        /\ \A d \in Conns \ {c} : sent'[d] = sent[d] /\ inHand'[d] = inHand[d]
    <2>1. CASE sent' = sent
      BY <2>1 DEF WriterWrite, TypeOK
    <2>2. CASE sent' = [sent EXCEPT ![c] = @ \o inHand[c]]
      BY <2>2 DEF WriterWrite, TypeOK
    <2> QED
      BY <2>1, <2>2 DEF WriterWrite
  <1>4. /\ Ordered(<<>>) /\ (\A u : Before(u, <<>>) /\ Before(<<>>, u))
        /\ \A p, n : UpTo(<<>>, p, n)
    BY DEF Ordered, Before, UpTo
  <1>5. Ordered(sent'[c]) /\ Before(sent'[c], queue[c])
    BY <1>1, <1>2, <1>3, ConcatOrdered, ConcatBefore DEF Places
  <1>6. Places(c)'
    BY <1>2, <1>3, <1>4, <1>5 DEF Places
  <1>7. ASSUME NEW p, NEW n \in Nat, AtMost(c, p, n) PROVE AtMost(c, p, n)'
    BY <1>1, <1>3, <1>4, <1>7, ConcatUpTo DEF AtMost
  <1>8. \A d \in Conns \ {c} : /\ Places(d) => Places(d)'
                              /\ \A p, n : AtMost(d, p, n) => AtMost(d, p, n)'
    BY <1>3 DEF Places, AtMost
  <1>9. \A d \in Conns : Places(d)'
    BY <1>6, <1>8 DEF OrderInv
  <1>10. ASSUME NEW d \in Conns, NEW p \in Publishers PROVE AtMost(d, p, Newest(d, p))'
    <2>1. AtMost(d, p, Newest(d, p)) /\ Newest(d, p) \in Nat
      BY NewestBounds
    <2>2. Newest(d, p)' = Newest(d, p)
      BY <1>3 DEF Newest
    <2>3. AtMost(d, p, Newest(d, p)) => AtMost(d, p, Newest(d, p))'
      BY <2>1, <2>2, <1>7, <1>8 DEF AtMost
    <2> QED
      BY <2>1, <2>3
  <1> QED
    BY <1>3, <1>9, <1>10 DEF OrderInv

\* A publisher begins its next event when the previous one is sent everywhere.
LEMMA PublishBeginOrder ==
    ASSUME TypeOK, OrderInv, NEW p \in Publishers, NEW a \in Accounts, PublishBegin(p, a)
    PROVE  OrderInv'
  <1>1. /\ pub[p].targets = {} /\ pub[p].n \in Nat /\ pub'[p].n = pub[p].n + 1
        /\ \A o \in Publishers \ {p} : pub'[o] = pub[o]
        /\ sent' = sent /\ inHand' = inHand /\ queue' = queue
    BY DEF PublishBegin, connVars, TypeOK
  <1>2. \A d \in Conns : Places(d)'
    BY <1>1 DEF OrderInv, Places
  <1>3. ASSUME NEW d \in Conns, NEW o \in Publishers PROVE AtMost(d, o, Newest(d, o))'
    <2>1. AtMost(d, o, Newest(d, o)) /\ Newest(d, o) \in Int
      BY NewestBounds
    <2>2. Newest(d, o)' \in Int /\ Newest(d, o) <= Newest(d, o)'
      <3>1. CASE o = p
        BY <1>1, <3>1 DEF Newest
      <3>2. CASE o # p
        BY <1>1, <2>1, <3>2 DEF Newest
      <3> QED
        BY <3>1, <3>2
    <2> DEFINE m == Newest(d, o)'
    <2>3. AtMost(d, o, m)
      <3> HIDE DEF m
      <3> QED
        BY <2>1, <2>2, RaiseBound DEF m
    <2> QED
      BY <2>3, <1>1 DEF AtMost
  <1>4. \A o \in Publishers : pub'[o].targets # {} => pub'[o].n > 0
    BY <1>1 DEF OrderInv
  <1> QED
    BY <1>2, <1>3, <1>4 DEF OrderInv

\* The event sent to a target is newer than all it has of the publisher.
LEMMA PublishSendOrder ==
    ASSUME TypeOK, OrderInv, NEW p \in Publishers, NEW c \in Conns, PublishSend(p, c)
    PROVE  OrderInv'
  <1> DEFINE e == Published(p)
  <1>1. /\ e \in Event /\ e.by = p /\ e.n = pub[p].n /\ e.n - 1 = Newest(c, p)
        /\ pub[p].n \in Nat /\ c \in pub[p].targets
    BY DEF PublishSend, Published, Event, Newest, TypeOK
  <1>2. sent[c] \in Seq(Event) /\ inHand[c] \in Seq(Event) /\ queue[c] \in Seq(Event)
    BY DEF TypeOK
  <1>3. /\ queue'[c] = Append(queue[c], e) \/ queue'[c] = queue[c]
        /\ sent' = sent /\ inHand' = inHand
        /\ \A d \in Conns \ {c} : queue'[d] = queue[d]
    <2> HIDE DEF e
    <2>1. queue' = [queue EXCEPT ![c] = IF Len(@) < SendBuffer THEN Append(@, e) ELSE @]
      BY DEF PublishSend, e
    <2> QED
      BY <2>1 DEF PublishSend, TypeOK
  <1>4. /\ \A o \in Publishers : pub'[o].n = pub[o].n
        /\ \A o \in Publishers \ {p} : pub'[o].targets = pub[o].targets
        /\ pub'[p].targets = pub[p].targets \ {c}
    BY DEF PublishSend, TypeOK
  <1>5. Places(c) /\ AtMost(c, p, e.n - 1)
    BY <1>1 DEF OrderInv
  <1> HIDE DEF e
  <1>6. Places(c)'
    BY <1>1, <1>2, <1>3, <1>5, AppendNewest DEF Places, AtMost
  <1>7. ASSUME NEW o, NEW n, AtMost(c, o, n), o = p => e.n <= n
        PROVE  UpTo(sent'[c], o, n) /\ UpTo(inHand'[c], o, n) /\ UpTo(queue'[c], o, n)
    BY <1>1, <1>2, <1>3, <1>5, <1>7, AppendNewest DEF Places, AtMost
  <1>8. \A d \in Conns \ {c} : /\ Places(d) => Places(d)'
                              /\ \A o, n : AtMost(d, o, n) => AtMost(d, o, n)'
    BY <1>3 DEF Places, AtMost
  <1>9. \A d \in Conns : Places(d)'
    BY <1>6, <1>8 DEF OrderInv
  <1>10. ASSUME NEW d \in Conns, NEW o \in Publishers PROVE AtMost(d, o, Newest(d, o))'
    <2>1. AtMost(d, o, Newest(d, o))
      BY DEF OrderInv
    <2>2. CASE d = c /\ o = p
      <3>1. Newest(d, o)' = e.n
        BY <1>1, <1>4, <2>2 DEF Newest
      <3>2. AtMost(c, p, e.n)
        BY <1>1, <1>5, RaiseBound
      <3>3. UpTo(sent'[c], p, e.n) /\ UpTo(inHand'[c], p, e.n) /\ UpTo(queue'[c], p, e.n)
        BY <1>1, <1>7, <3>2
      <3> QED
        BY <2>2, <3>1, <3>3 DEF AtMost
    <2>3. CASE ~ (d = c /\ o = p)
      <3>1. Newest(d, o)' = Newest(d, o)
        BY <1>4, <2>3 DEF Newest
      <3>2. \A n : AtMost(d, o, n) => AtMost(d, o, n)'
        BY <1>7, <1>8, <2>3 DEF AtMost
      <3> QED
        BY <2>1, <3>1, <3>2 DEF AtMost
    <2> QED
      BY <2>2, <2>3
  <1>11. \A o \in Publishers : pub'[o].targets # {} => pub'[o].n > 0
    BY <1>1, <1>4 DEF OrderInv
  <1> QED
    BY <1>9, <1>10, <1>11 DEF OrderInv

\* Every step preserves the order.
LEMMA StepKeepsOrder == TypeOK /\ OrderInv /\ [Next]_vars => OrderInv'
  <1> SUFFICES ASSUME TypeOK, OrderInv, [Next]_vars PROVE OrderInv'
    OBVIOUS
  <1>1. ASSUME NEW c \in Conns, WriterTake(c) PROVE OrderInv'
    BY <1>1, WriterTakeOrder
  <1>2. ASSUME NEW c \in Conns, WriterWrite(c) PROVE OrderInv'
    BY <1>2, WriterWriteOrder
  <1>3. ASSUME NEW p \in Publishers, NEW a \in Accounts, PublishBegin(p, a) PROVE OrderInv'
    BY <1>3, PublishBeginOrder
  <1>4. ASSUME NEW p \in Publishers, NEW c \in Conns, PublishSend(p, c) PROVE OrderInv'
    BY <1>4, PublishSendOrder
  <1>5. ASSUME NEW c \in Conns,
               \/ Register(c) \/ CheckDone(c) \/ Read(c) \/ Deregister(c) \/ EndConn(c)
               \/ WriterExit(c) \/ PingFails(c) \/ HeartbeatExit(c) \/ Peer(c)
               \/ BroadcastClose(c) \/ CloseSocket(c)
        PROVE  OrderInv'
    BY <1>5, StreamsUnchanged
    DEF Register, CheckDone, Read, Deregister, EndConn, WriterExit, PingFails, HeartbeatExit,
        Peer, BroadcastClose, CloseSocket
  <1>6. CASE BroadcastBegin \/ CloseBegin \/ CloseSnapshot \/ UNCHANGED vars
    BY <1>6, StreamsUnchanged DEF BroadcastBegin, CloseBegin, CloseSnapshot, connVars, vars
  <1> QED
    BY <1>1, <1>2, <1>3, <1>4, <1>5, <1>6
    DEF Next, Handler, Writer, Heartbeat, Sending, Closing

\* Ordered places make an ordered stream.
LEMMA PlacesMakeOrder == TypeOK /\ OrderInv => PerPublisherOrder
  <1> SUFFICES ASSUME TypeOK, OrderInv, NEW c \in Conns PROVE Ordered(Stream(c))
    BY DEF PerPublisherOrder
  <1>1. sent[c] \in Seq(Event) /\ inHand[c] \in Seq(Event) /\ queue[c] \in Seq(Event)
    BY DEF TypeOK
  <1>2. Places(c)
    BY DEF OrderInv
  <1>3. Ordered(sent[c] \o inHand[c]) /\ Before(sent[c] \o inHand[c], queue[c])
    BY <1>1, <1>2, ConcatOrdered, ConcatBefore DEF Places
  <1>4. sent[c] \o inHand[c] \in Seq(Event)
    BY <1>1
  <1> QED
    BY <1>1, <1>2, <1>3, <1>4, ConcatOrdered DEF Places, Stream

\* A connection sees each publisher's events in order and none twice, however the
\* goroutines interleave and whatever is dropped (Publish, writer).
THEOREM EventsInPublicationOrder == Spec => []PerPublisherOrder
  <1>1. Spec => []OrderInv
    BY InitOrder, StepKeepsOrder, TypeCorrect, PTL DEF Spec
  <1> QED
    BY <1>1, TypeCorrect, PlacesMakeOrder, PTL

----------------------------------------------------------------------------
(***************************************************************************)
(* The life of a connection.  A handler blocked in Read is woken by its    *)
(* socket only, so that whoever ends must close it: the writer and the     *)
(* heartbeat do when they fail, and otherwise end because the handler is   *)
(* gone or the hub is done; Close does for every connection it copied, and *)
(* one that it did not copy sees the closed hub before it reads.           *)
(***************************************************************************)

\* The writer and the heartbeat end for a reason.
EndsForAReason(c) ==
    writer[c] = "exited" \/ heartbeat[c] = "exited" => connDone[c] \/ hubDone \/ sock[c] = "closed"

\* A handler tells the others when it leaves, and not before.
GoneIsDone(c) == reader[c] = "gone" <=> connDone[c]

\* The registry has the connections whose handler runs.
RegisteredIsServed(c) == c \in registry <=> reader[c] \in {"loop", "reading", "leaving"}

\* A handler that reads while the hub closes is woken, or is about to be.
ReadsEnd(c) == hubDone /\ reader[c] = "reading" => sock[c] = "closed" \/ ToBeClosed(c)

LifeInv ==
    /\ \A c \in Conns :
          EndsForAReason(c) /\ GoneIsDone(c) /\ RegisteredIsServed(c) /\ ReadsEnd(c)
    /\ hubDone <=> closer.pc # "idle"

\* No connection, no life (NewInMemoryHub).
LEMMA InitLife == Init => LifeInv
  BY DEF Init, LifeInv, EndsForAReason, GoneIsDone, RegisteredIsServed, ReadsEnd, NoSweep

\* Every step preserves what is known of lives.
LEMMA StepKeepsLife == TypeOK /\ LifeInv /\ [Next]_vars => LifeInv'
  <1> SUFFICES ASSUME TypeOK, LifeInv, [Next]_vars PROVE LifeInv'
    OBVIOUS
  <1> USE DEF LifeInv, EndsForAReason, GoneIsDone, RegisteredIsServed, ReadsEnd, ToBeClosed
  <1>1. ASSUME NEW c \in Conns, Register(c) PROVE LifeInv'
    BY <1>1 DEF Register, TypeOK
  <1>2. ASSUME NEW c \in Conns, CheckDone(c) PROVE LifeInv'
    BY <1>2 DEF CheckDone, TypeOK
  <1>3. ASSUME NEW c \in Conns, Read(c) PROVE LifeInv'
    BY <1>3 DEF Read, TypeOK
  <1>4. ASSUME NEW c \in Conns, Deregister(c) PROVE LifeInv'
    BY <1>4 DEF Deregister, TypeOK
  <1>4a. ASSUME NEW c \in Conns, EndConn(c) PROVE LifeInv'
    BY <1>4a DEF EndConn, TypeOK
  <1>5. ASSUME NEW c \in Conns, WriterTake(c) PROVE LifeInv'
    BY <1>5 DEF WriterTake, TypeOK
  <1>6. ASSUME NEW c \in Conns, WriterWrite(c) PROVE LifeInv'
    BY <1>6 DEF WriterWrite, TypeOK
  <1>7. ASSUME NEW c \in Conns, WriterExit(c) PROVE LifeInv'
    BY <1>7 DEF WriterExit, TypeOK
  <1>8. ASSUME NEW c \in Conns, PingFails(c) PROVE LifeInv'
    BY <1>8 DEF PingFails, TypeOK
  <1>9. ASSUME NEW c \in Conns, HeartbeatExit(c) PROVE LifeInv'
    BY <1>9 DEF HeartbeatExit, TypeOK
  <1>10. ASSUME NEW c \in Conns, Peer(c) PROVE LifeInv'
    BY <1>10 DEF Peer, TypeOK
  <1>11. ASSUME NEW c \in Conns, BroadcastClose(c) PROVE LifeInv'
    BY <1>11 DEF BroadcastClose, TypeOK
  <1>12. ASSUME NEW c \in Conns, CloseSocket(c) PROVE LifeInv'
    BY <1>12 DEF CloseSocket, TypeOK
  <1>13. ASSUME NEW p \in Publishers,
               (\E a \in Accounts : PublishBegin(p, a)) \/ \E c \in Conns : PublishSend(p, c)
         PROVE  LifeInv'
    BY <1>13 DEF PublishBegin, PublishSend, connVars
  <1>14. CASE BroadcastBegin \/ UNCHANGED vars
    BY <1>14 DEF BroadcastBegin, connVars, vars
  <1>15. CASE CloseBegin
    BY <1>15 DEF CloseBegin, connVars, TypeOK
  <1>16. CASE CloseSnapshot
    BY <1>16 DEF CloseSnapshot, connVars, TypeOK
  <1> QED
    BY <1>1, <1>2, <1>3, <1>4, <1>4a, <1>5, <1>6, <1>7, <1>8, <1>9, <1>10, <1>11, <1>12, <1>13, <1>14, <1>15, <1>16
    DEF Next, Handler, Writer, Heartbeat, Sending, Closing

\* The lives of all connections, in every behaviour.
LEMMA LivesAreKept == Spec => []LifeInv
  BY InitLife, StepKeepsLife, TypeCorrect, PTL DEF Spec

\* What is known of lives leaves no handler waiting.
LEMMA LivesLeaveNobody == TypeOK /\ LifeInv => NobodyLeftBehind
  BY DEF TypeOK, LifeInv, EndsForAReason, GoneIsDone, RegisteredIsServed, ReadsEnd,
     NobodyLeftBehind, MustEnd

\* No handler stays blocked in Read once its writer or its heartbeat has ended or the hub
\* is closing, and one that is gone took its connection with it (Register, writer,
\* heartbeat, Close, deregister).
THEOREM NobodyIsLeftBehind == Spec => []NobodyLeftBehind
  BY LivesAreKept, LivesLeaveNobody, TypeCorrect, PTL

----------------------------------------------------------------------------
(***************************************************************************)
(* The promise of EventFeed.  An event is pending for a connection while   *)
(* the publisher holds the connection as a target, while it is queued and  *)
(* while it is in the writer's hand; the moves between the three are not   *)
(* seen, and the order of events says that a pending event is in one of    *)
(* them only, so that it is no longer pending once written or dropped.     *)
(***************************************************************************)

\* The writer has one event in hand while it writes, and none otherwise; there is no
\* writer before the connection is registered.
HandInv ==
    \A c \in Conns :
        /\ IF writer[c] = "writing" THEN Len(inHand[c]) = 1 ELSE inHand[c] = <<>>
        /\ reader[c] = "new" => writer[c] = "none"

\* No writer runs in an empty hub (NewInMemoryHub).
LEMMA InitHand == Init => HandInv
  BY DEF Init, HandInv

\* The writer takes an event when it has none, and is rid of it when it has written.
LEMMA StepKeepsHand == TypeOK /\ HandInv /\ [Next]_vars => HandInv'
  <1> SUFFICES ASSUME TypeOK, HandInv, [Next]_vars PROVE HandInv'
    OBVIOUS
  <1>1. ASSUME NEW c \in Conns, WriterTake(c) PROVE HandInv'
    <2>1. /\ writer[c] = "select" /\ reader' = reader
          /\ writer' = [writer EXCEPT ![c] = "writing"]
          /\ inHand' = [inHand EXCEPT ![c] = <<Head(queue[c])>>]
      BY <1>1 DEF WriterTake
    <2>2. writer'[c] = "writing" /\ Len(inHand'[c]) = 1
      <3>1. inHand'[c] = <<Head(queue[c])>> /\ writer'[c] = "writing"
        BY <2>1 DEF TypeOK
      <3> QED
        BY <3>1
    <2>3. \A d \in Conns \ {c} : writer'[d] = writer[d] /\ inHand'[d] = inHand[d]
      BY <2>1 DEF TypeOK
    <2> QED
      BY <2>1, <2>2, <2>3 DEF HandInv
  <1>2. ASSUME NEW c \in Conns, WriterWrite(c) PROVE HandInv'
    BY <1>2 DEF WriterWrite, TypeOK, HandInv
  <1>3. ASSUME NEW c \in Conns, WriterExit(c) PROVE HandInv'
    BY <1>3 DEF WriterExit, TypeOK, HandInv
  <1>4. ASSUME UNCHANGED <<writer, inHand>>, \A c \in Conns : reader'[c] = "new" => reader[c] = "new"
        PROVE  HandInv'
    BY <1>4 DEF HandInv
  <1>5. ASSUME NEW c \in Conns, CheckDone(c) \/ Read(c) \/ Deregister(c) \/ EndConn(c)
        PROVE  HandInv'
    <2>1. UNCHANGED <<writer, inHand>>
      BY <1>5 DEF CheckDone, Read, Deregister, EndConn
    <2>2. \A d \in Conns : reader'[d] = "new" => reader[d] = "new"
      BY <1>5 DEF CheckDone, Read, Deregister, EndConn, TypeOK
    <2> QED
      BY <2>1, <2>2, <1>4
  <1>6. ASSUME NEW c \in Conns, Register(c) PROVE HandInv'
    BY <1>6 DEF Register, TypeOK, HandInv
  <1>7. ASSUME NEW c \in Conns,
               \/ PingFails(c) \/ HeartbeatExit(c)
               \/ Peer(c) \/ BroadcastClose(c) \/ CloseSocket(c)
               \/ \E p \in Publishers : PublishSend(p, c)
        PROVE  HandInv'
    BY <1>4, <1>7
    DEF PingFails, HeartbeatExit, Peer, BroadcastClose, CloseSocket, PublishSend
  <1>8. ASSUME \/ \E p \in Publishers, a \in Accounts : PublishBegin(p, a)
               \/ BroadcastBegin \/ CloseBegin \/ CloseSnapshot \/ UNCHANGED vars
        PROVE  HandInv'
    BY <1>4, <1>8
    DEF PublishBegin, BroadcastBegin, CloseBegin, CloseSnapshot, connVars, vars
  <1> QED
    BY <1>1, <1>2, <1>3, <1>5, <1>6, <1>7, <1>8 DEF Next, Handler, Writer, Heartbeat, Sending, Closing

\* What the refinement rests on.
FeedInv == TypeOK /\ OrderInv /\ LifeInv /\ HandInv

\* It holds in every behaviour.
LEMMA FeedInvariance == Spec => []FeedInv
  <1>1. Init => OrderInv /\ LifeInv /\ HandInv
    BY InitOrder, InitLife, InitHand
  <1>2. TypeOK /\ (OrderInv /\ LifeInv /\ HandInv) /\ [Next]_vars
          => (OrderInv /\ LifeInv /\ HandInv)'
    BY StepKeepsOrder, StepKeepsLife, StepKeepsHand
  <1>3. TypeOK /\ (OrderInv /\ LifeInv /\ HandInv) => FeedInv
    BY DEF FeedInv
  <1> QED
    BY <1>1, <1>2, <1>3, TypeCorrect, PTL DEF Spec

\* The events of a sequence after each of the operations of the hub on sequences.
LEMMA EventsOfParts ==
    ASSUME NEW s \in Seq(Event)
    PROVE  /\ EventsOf(<<>>) = {}
           /\ s # <<>> => EventsOf(<<Head(s)>>) \cup EventsOf(Tail(s)) = EventsOf(s)
           /\ \A e \in Event : EventsOf(Append(s, e)) = EventsOf(s) \cup {e}
  <1>1. EventsOf(<<>>) = {}
    BY DEF EventsOf
  <1>2. ASSUME s # <<>> PROVE EventsOf(<<Head(s)>>) \cup EventsOf(Tail(s)) = EventsOf(s)
    <2>1. EventsOf(<<Head(s)>>) = {s[1]}
      <3>1. Len(<<Head(s)>>) = 1 /\ <<Head(s)>>[1] = s[1]
        BY <1>2
      <3> QED
        BY <3>1 DEF EventsOf
    <2>2. /\ \A i \in 1 .. Len(Tail(s)) : i + 1 \in 1 .. Len(s) /\ Tail(s)[i] = s[i + 1]
          /\ \A i \in 1 .. Len(s) : i = 1 \/ (i - 1 \in 1 .. Len(Tail(s)) /\ s[i] = Tail(s)[i - 1])
          /\ 1 \in 1 .. Len(s)
      BY <1>2
    <2>3. EventsOf(Tail(s)) \subseteq EventsOf(s) /\ s[1] \in EventsOf(s)
      BY <2>2 DEF EventsOf
    <2>4. EventsOf(s) \subseteq {s[1]} \cup EventsOf(Tail(s))
      BY <2>2 DEF EventsOf
    <2> QED
      BY <2>1, <2>3, <2>4
  <1>3. ASSUME NEW e \in Event PROVE EventsOf(Append(s, e)) = EventsOf(s) \cup {e}
    <2> DEFINE t == Append(s, e)
    <2>1. /\ Len(t) = Len(s) + 1 /\ t[Len(s) + 1] = e /\ Len(s) + 1 \in 1 .. Len(t)
          /\ \A i \in 1 .. Len(s) : i \in 1 .. Len(t) /\ t[i] = s[i]
          /\ \A i \in 1 .. Len(t) : i # Len(s) + 1 => i \in 1 .. Len(s) /\ t[i] = s[i]
      OBVIOUS
    <2> HIDE DEF t
    <2>2. EventsOf(t) = EventsOf(s) \cup {e}
      BY <2>1 DEF EventsOf
    <2> QED
      BY <2>2 DEF t
  <1> QED
    BY <1>1, <1>2, <1>3

\* An ordered sequence has different events at different places.
LEMMA OrderedHasDistinctEvents ==
    ASSUME NEW s \in Seq(Event), Ordered(s), NEW i \in 1 .. Len(s), NEW j \in 1 .. Len(s), i # j
    PROVE  s[i] # s[j]
  <1>1. ASSUME NEW k \in 1 .. Len(s), NEW l \in 1 .. Len(s), k < l PROVE s[k] # s[l]
    <2>1. s[k].by = s[l].by => s[k].n < s[l].n
      BY <1>1 DEF Ordered
    <2>2. s[k] \in Event
      OBVIOUS
    <2>3. s[k].n \in Nat
      BY <2>2 DEF Event
    <2> QED
      BY <2>1, <2>3
  <1> QED
    BY <1>1

\* The mapped state is a function of few variables.
LEMMA FeedReads ==
    /\ (\A c \in Conns : StageOf(c)' = StageOf(c)) => Stage' = Stage
    /\ UNCHANGED reader => Stage' = Stage
    /\ UNCHANGED writer => Intact' = Intact
    /\ UNCHANGED pub => Announced' = Announced
    /\ UNCHANGED <<inHand, queue, pub>> => Pending' = Pending
  BY DEF Stage, StageOf, Intact, Announced, Pending, Underway, YetToSend, Published

\* Nobody and nothing at the start (NewInMemoryHub).
LEMMA InitFeed == Init => Feed!Init
  <1> SUFFICES ASSUME Init PROVE Feed!Init
    OBVIOUS
  <1>1. Stage = [c \in Conns |-> "new"] /\ Intact = [c \in Conns |-> TRUE]
    BY DEF Init, Stage, StageOf, Intact
  <1>2. \A p \in Publishers : pub[p].targets = {} /\ pub[p].n = 0
    BY DEF Init, NothingPublished
  <1>3. Announced = [p \in Publishers |-> 0]
    BY <1>2 DEF Announced
  <1>4. \A c \in Conns : Underway(c) = {}
    <2>1. EventsOf(<<>>) = {}
      BY DEF EventsOf
    <2>2. \A c \in Conns : YetToSend(c) = {}
      BY <1>2 DEF YetToSend
    <2> QED
      BY <2>1, <2>2 DEF Init, Underway
  <1>5. Pending = [c \in Conns |-> {}]
    BY <1>4 DEF Pending
  <1> QED
    BY <1>1, <1>3, <1>5 DEF Init, Feed!Init

\* Registration joins.
LEMMA RegisterJoins ==
    ASSUME TypeOK, HandInv, NEW c \in Conns, Register(c)
    PROVE  Feed!Join(c)
  <1>1. StageOf(c) = "new" /\ StageOf(c)' = "member"
    BY DEF Register, TypeOK, StageOf
  <1>2. \A d \in Conns \ {c} : StageOf(d)' = StageOf(d)
    BY DEF Register, TypeOK, StageOf
  <1>3. Stage[c] = "new" /\ Stage' = [Stage EXCEPT ![c] = "member"]
    BY <1>1, <1>2 DEF Stage
  <1>4. Intact' = Intact
    BY DEF Register, TypeOK, HandInv, Intact
  <1>5. Announced' = Announced /\ Pending' = Pending /\ sent' = sent
    BY FeedReads DEF Register
  <1> QED
    BY <1>3, <1>4, <1>5 DEF Feed!Join

\* Deregistration leaves.
LEMMA DeregisterLeaves ==
    ASSUME TypeOK, NEW c \in Conns, Deregister(c)
    PROVE  Feed!Leave(c)
  <1>1. StageOf(c) = "member" /\ StageOf(c)' = "left"
    BY DEF Deregister, TypeOK, StageOf
  <1>2. \A d \in Conns \ {c} : StageOf(d)' = StageOf(d)
    BY DEF Deregister, TypeOK, StageOf
  <1>3. Stage[c] = "member" /\ Stage' = [Stage EXCEPT ![c] = "left"]
    BY <1>1, <1>2 DEF Stage
  <1>4. Intact' = Intact /\ Announced' = Announced /\ Pending' = Pending /\ sent' = sent
    BY FeedReads DEF Deregister
  <1> QED
    BY <1>3, <1>4 DEF Feed!Leave

\* The copy of the targets announces the event to the members of its account.
LEMMA PublishBeginAnnounces ==
    ASSUME TypeOK, LifeInv, NEW p \in Publishers, NEW a \in Accounts, PublishBegin(p, a)
    PROVE  Feed!Announce(p, a)
  <1> DEFINE e == [by |-> p, n |-> Announced[p] + 1, account |-> a]
             member(c) == Stage[c] = "member" /\ AccountOf[c] = a
  <1>1. /\ pub[p].targets = {} /\ pub'[p].n = pub[p].n + 1 /\ pub'[p].to = a
        /\ pub'[p].targets = Targets(a)
        /\ \A q \in Publishers \ {p} : pub'[q] = pub[q]
        /\ UNCHANGED <<reader, writer, inHand, queue, sent>>
    BY DEF PublishBegin, connVars, TypeOK
  <1>2. Stage' = Stage /\ Intact' = Intact
    BY <1>1, FeedReads
  <1>3. Announced' = [Announced EXCEPT ![p] = @ + 1]
    BY <1>1 DEF Announced
  <1>4. \A c \in Conns : c \in Targets(a) <=> member(c)
    <2>1. ASSUME NEW c \in Conns PROVE c \in registry <=> Stage[c] = "member"
      <3>1. reader[c] \in ReaderStage
        BY DEF TypeOK
      <3>2. c \in registry <=> reader[c] \in {"loop", "reading", "leaving"}
        BY DEF LifeInv, RegisteredIsServed
      <3>3. Stage[c] = "member" <=> reader[c] \in {"loop", "reading", "leaving"}
        BY <3>1 DEF Stage, StageOf, ReaderStage
      <3> QED
        BY <3>2, <3>3
    <2> QED
      BY <2>1 DEF Targets
  <1>5. e = Published(p)'
    BY <1>1 DEF Published, Announced
  <1>6. \A q \in Publishers \ {p} : Published(q)' = Published(q)
    BY <1>1 DEF Published
  <1> HIDE DEF e, member
  <1>7. ASSUME NEW c \in Conns
        PROVE  YetToSend(c)' = IF member(c) THEN YetToSend(c) \cup {e} ELSE YetToSend(c)
    <2>1. \A q \in Publishers \ {p} : c \in pub'[q].targets <=> c \in pub[q].targets
      BY <1>1
    <2>2. c \notin pub[p].targets /\ (c \in pub'[p].targets <=> member(c))
      BY <1>1, <1>4
    <2> QED
      BY <1>5, <1>6, <2>1, <2>2 DEF YetToSend
  <1>8. ASSUME NEW c \in Conns
        PROVE  Underway(c)' = IF member(c) THEN Underway(c) \cup {e} ELSE Underway(c)
    <2>1. EventsOf(inHand[c])' = EventsOf(inHand[c]) /\ EventsOf(queue[c])' = EventsOf(queue[c])
      BY <1>1
    <2> QED
      BY <1>7, <2>1 DEF Underway
  <1>9. Pending' = [c \in Conns |-> IF member(c) THEN Pending[c] \cup {e} ELSE Pending[c]]
    BY <1>8 DEF Pending
  <1> QED
    BY <1>1, <1>2, <1>3, <1>9 DEF Feed!Announce, e, member

\* An event that a publisher has yet to send to a connection is in none of the other
\* places, and another publisher's is another event.
LEMMA YetToSendIsElsewhere ==
    ASSUME TypeOK, OrderInv, NEW c \in Conns, NEW p \in Publishers, c \in pub[p].targets
    PROVE  /\ Published(p) \in YetToSend(c)
           /\ Published(p) \notin EventsOf(inHand[c]) /\ Published(p) \notin EventsOf(queue[c])
           /\ \A q \in Publishers : Published(q) = Published(p) => q = p
  <1>1. UpTo(inHand[c], p, pub[p].n - 1) /\ UpTo(queue[c], p, pub[p].n - 1) /\ pub[p].n \in Nat
    BY DEF OrderInv, AtMost, Newest, TypeOK
  <1>2. Published(p).by = p /\ Published(p).n = pub[p].n
    BY DEF Published
  <1>3. ASSUME NEW s, UpTo(s, p, pub[p].n - 1) PROVE Published(p) \notin EventsOf(s)
    BY <1>1, <1>2, <1>3 DEF UpTo, EventsOf
  <1> QED
    BY <1>1, <1>3 DEF YetToSend, Published

\* The send to a full channel loses the event; the other sends are not seen.
LEMMA PublishSendLoses ==
    ASSUME TypeOK, OrderInv, NEW p \in Publishers, NEW c \in Conns, PublishSend(p, c)
    PROVE  (\E e \in Pending[c] : Feed!Lose(c, e)) \/ UNCHANGED Feed!vars
  <1> DEFINE e == Published(p)
  <1>1. /\ c \in pub[p].targets /\ pub'[p].targets = pub[p].targets \ {c}
        /\ \A q \in Publishers : pub'[q].n = pub[q].n /\ pub'[q].to = pub[q].to
        /\ \A q \in Publishers \ {p} : pub'[q].targets = pub[q].targets
        /\ UNCHANGED <<reader, writer, inHand, sent>>
    BY DEF PublishSend, TypeOK
  <1>2. queue[c] \in Seq(Event) /\ e \in Event
    BY DEF PublishSend, Published, Event, TypeOK
  <1>3. /\ queue'[c] = IF Len(queue[c]) < SendBuffer THEN Append(queue[c], e) ELSE queue[c]
        /\ \A d \in Conns \ {c} : queue'[d] = queue[d]
    <2> HIDE DEF e
    <2>1. queue' = [queue EXCEPT ![c] = IF Len(@) < SendBuffer THEN Append(@, e) ELSE @]
      BY DEF PublishSend, e
    <2> QED
      BY <2>1 DEF PublishSend, TypeOK
  <1>4. \A q \in Publishers : Published(q)' = Published(q)
    BY <1>1 DEF Published
  <1>5. Stage' = Stage /\ Intact' = Intact /\ Announced' = Announced /\ sent' = sent
    BY <1>1, FeedReads DEF Announced
  <1>6. /\ e \in YetToSend(c) /\ e \notin EventsOf(inHand[c]) /\ e \notin EventsOf(queue[c])
        /\ \A q \in Publishers : Published(q) = e => q = p
    BY <1>1, YetToSendIsElsewhere
  <1>7. YetToSend(c)' = YetToSend(c) \ {e}
    <2>1. \A q \in Publishers \ {p} : Published(q) # e
      BY <1>6
    <2>2. \A q \in Publishers : c \in pub'[q].targets <=> c \in pub[q].targets /\ q # p
      BY <1>1
    <2> QED
      BY <1>4, <2>1, <2>2 DEF YetToSend
  <1>8. ASSUME NEW d \in Conns \ {c} PROVE Underway(d)' = Underway(d)
    <2>1. \A q \in Publishers : d \in pub'[q].targets <=> d \in pub[q].targets
      BY <1>1
    <2>2. YetToSend(d)' = YetToSend(d)
      BY <1>4, <2>1 DEF YetToSend
    <2> QED
      BY <1>1, <1>3, <2>2 DEF Underway
  <1> HIDE DEF e
  <1>9. CASE Len(queue[c]) < SendBuffer
    <2>1. EventsOf(queue[c])' = EventsOf(queue[c]) \cup {e}
      <3>1. queue'[c] = Append(queue[c], e)
        BY <1>3, <1>9
      <3>2. EventsOf(Append(queue[c], e)) = EventsOf(queue[c]) \cup {e}
        BY <1>2, EventsOfParts
      <3> QED
        BY <3>1, <3>2
    <2>2. Underway(c)' = Underway(c)
      BY <1>1, <1>6, <1>7, <2>1 DEF Underway
    <2>3. Pending' = Pending
      BY <1>8, <2>2 DEF Pending
    <2> QED
      BY <1>5, <2>3 DEF Feed!vars
  <1>10. CASE ~ (Len(queue[c]) < SendBuffer)
    <2>1. EventsOf(queue[c])' = EventsOf(queue[c])
      BY <1>3, <1>10
    <2>2. Underway(c)' = Underway(c) \ {e}
      BY <1>1, <1>6, <1>7, <2>1 DEF Underway
    <2>3. e \in Pending[c] /\ Pending' = [Pending EXCEPT ![c] = @ \ {e}]
      BY <1>6, <1>8, <2>2 DEF Pending, Underway
    <2>4. EventsOf(queue[c]) \subseteq Pending[c] \ {e}
      BY <1>6 DEF Pending, Underway
    <2> DEFINE w == [i \in 1 .. SendBuffer |-> queue[c][i]]
    <2>5. 1 .. SendBuffer \subseteq 1 .. Len(queue[c])
      BY <1>2, <1>10, BufferHoldsOne
    <2>6. w \in [1 .. SendBuffer -> Pending[c] \ {e}]
      BY <2>4, <2>5 DEF EventsOf
    <2>7. \A i, j \in 1 .. SendBuffer : w[i] = w[j] => i = j
      BY <1>2, <2>5, OrderedHasDistinctEvents DEF OrderInv, Places
    <2>8. Feed!ExistsInjection(1 .. SendBuffer, Pending[c] \ {e})
      BY <2>6, <2>7 DEF Feed!ExistsInjection, Feed!Injection, Feed!IsInjective
    <2> QED
      BY <1>5, <2>3, <2>8 DEF Feed!Lose
  <1> QED
    BY <1>9, <1>10

\* The event moves from the channel to the hand of the writer, which is not seen.
LEMMA WriterTakeIsUnseen ==
    ASSUME TypeOK, HandInv, NEW c \in Conns, WriterTake(c)
    PROVE  UNCHANGED Feed!vars
  <1>1. /\ queue[c] \in Seq(Event) /\ queue[c] # <<>> /\ inHand[c] = <<>>
        /\ inHand'[c] = <<Head(queue[c])>> /\ queue'[c] = Tail(queue[c])
        /\ writer[c] = "select" /\ writer' = [writer EXCEPT ![c] = "writing"]
        /\ \A d \in Conns \ {c} : inHand'[d] = inHand[d] /\ queue'[d] = queue[d]
        /\ UNCHANGED <<reader, sent, pub>>
    BY DEF WriterTake, TypeOK, HandInv
  <1>2. Stage' = Stage /\ Announced' = Announced
    BY <1>1, FeedReads
  <1>3. Intact' = Intact
    BY <1>1 DEF Intact, TypeOK
  <1>4. \A d \in Conns : YetToSend(d)' = YetToSend(d)
    BY <1>1 DEF YetToSend, Published
  <1>5. /\ EventsOf(<<Head(queue[c])>>) \cup EventsOf(Tail(queue[c])) = EventsOf(queue[c])
        /\ EventsOf(<<>>) = {}
    BY <1>1, EventsOfParts
  <1>6. Underway(c)' = Underway(c)
    <2>1. EventsOf(inHand[c])' \cup EventsOf(queue[c])' = EventsOf(inHand[c]) \cup EventsOf(queue[c])
      BY <1>1, <1>5
    <2> QED
      BY <1>4, <2>1 DEF Underway
  <1>7. \A d \in Conns \ {c} : Underway(d)' = Underway(d)
    BY <1>1, <1>4 DEF Underway
  <1>8. Pending' = Pending
    BY <1>6, <1>7 DEF Pending
  <1> QED
    BY <1>1, <1>2, <1>3, <1>8 DEF Feed!vars

\* The event in hand is the oldest that is under way from its publisher, and is in no
\* other place.
LEMMA InHandIsOldest ==
    ASSUME TypeOK, OrderInv, HandInv, NEW c \in Conns, writer[c] = "writing"
    PROVE  \E e \in Event :
              /\ inHand[c] = <<e>> /\ EventsOf(inHand[c]) = {e}
              /\ e \notin EventsOf(queue[c]) /\ e \notin YetToSend(c)
              /\ \A f \in Underway(c) : f.by = e.by => e.n <= f.n
  <1>1. inHand[c] \in Seq(Event) /\ Len(inHand[c]) = 1
    BY DEF TypeOK, HandInv
  <1> DEFINE e == inHand[c][1]
  <1>2. inHand[c] = <<e>> /\ e \in Event /\ 1 \in 1 .. Len(inHand[c])
    BY <1>1
  <1>3. e.by \in Publishers /\ e.n \in Nat
    BY <1>2 DEF Event
  <1>4. EventsOf(inHand[c]) = {e}
    BY <1>1 DEF EventsOf
  <1>5. \A f \in EventsOf(queue[c]) : f.by = e.by => e.n < f.n
    BY <1>2 DEF OrderInv, Places, Before, EventsOf
  <1>6. ASSUME NEW p \in Publishers, c \in pub[p].targets, e.by = p
        PROVE  e.n < pub[p].n
    <2>1. UpTo(inHand[c], p, pub[p].n - 1) /\ pub[p].n \in Nat
      BY <1>6 DEF OrderInv, AtMost, Newest, TypeOK
    <2> QED
      BY <1>2, <1>3, <1>6, <2>1 DEF UpTo
  <1> HIDE DEF e
  <1>7. \A f \in YetToSend(c) : f.by = e.by => e.n < f.n
    BY <1>6 DEF YetToSend, Published
  <1>8. e \notin EventsOf(queue[c]) /\ e \notin YetToSend(c)
    BY <1>3, <1>5, <1>7
  <1>9. ASSUME NEW f \in Underway(c), f.by = e.by PROVE e.n <= f.n
    <2>1. CASE f = e
      BY <1>3, <2>1
    <2>2. CASE f \in EventsOf(queue[c])
      <3>1. f \in Event
        BY <2>2 DEF TypeOK, EventsOf
      <3>2. e.n < f.n /\ f.n \in Nat
        BY <1>5, <1>9, <2>2, <3>1 DEF Event
      <3> QED
        BY <1>3, <3>2
    <2>3. CASE f \in YetToSend(c)
      <3>1. f.n \in Nat
        BY <2>3 DEF YetToSend, Published, TypeOK
      <3>2. e.n < f.n
        BY <1>7, <1>9, <2>3
      <3> QED
        BY <1>3, <3>1, <3>2
    <2> QED
      BY <1>4, <1>9, <2>1, <2>2, <2>3 DEF Underway
  <1> QED
    BY <1>2, <1>4, <1>8, <1>9

\* A write delivers the event in hand, or breaks the feed with it.
LEMMA WriterWriteDelivers ==
    ASSUME TypeOK, OrderInv, HandInv, NEW c \in Conns, WriterWrite(c)
    PROVE  (\E e \in Pending[c] : Feed!Deliver(c, e)) \/ Feed!Break(c)
  <1>1. writer[c] = "writing"
    BY DEF WriterWrite
  <1>2. PICK e \in Event :
              /\ inHand[c] = <<e>> /\ EventsOf(inHand[c]) = {e}
              /\ e \notin EventsOf(queue[c]) /\ e \notin YetToSend(c)
              /\ \A f \in Underway(c) : f.by = e.by => e.n <= f.n
    BY <1>1, InHandIsOldest
  <1>3. /\ inHand'[c] = <<>> /\ \A d \in Conns \ {c} : inHand'[d] = inHand[d]
        /\ UNCHANGED <<reader, queue, pub>>
    BY DEF WriterWrite, TypeOK
  <1>4. Stage' = Stage /\ Announced' = Announced /\ Intact[c]
    BY <1>1, <1>3, FeedReads DEF Intact
  <1>5. \A d \in Conns : YetToSend(d)' = YetToSend(d)
    BY <1>3 DEF YetToSend, Published
  <1>6. Underway(c)' = Underway(c) \ {e}
    <2>1. EventsOf(inHand[c])' = {} /\ EventsOf(queue[c])' = EventsOf(queue[c])
      BY <1>3 DEF EventsOf
    <2> QED
      BY <1>2, <1>5, <2>1 DEF Underway
  <1>7. \A d \in Conns \ {c} : Underway(d)' = Underway(d)
    BY <1>3, <1>5 DEF Underway
  <1>8. e \in Pending[c] /\ Pending' = [Pending EXCEPT ![c] = @ \ {e}]
    BY <1>2, <1>6, <1>7 DEF Pending, Underway
  <1>9. CASE sent' = [sent EXCEPT ![c] = @ \o inHand[c]] /\ writer' = [writer EXCEPT ![c] = "select"]
    <2>1. Intact' = Intact
      BY <1>1, <1>9 DEF Intact, TypeOK
    <2>2. sent[c] \in Seq(Event)
      BY DEF TypeOK
    <2>3. sent[c] \o inHand[c] = Append(sent[c], e)
      BY <1>2, <2>2
    <2>4. sent' = [sent EXCEPT ![c] = Append(@, e)]
      BY <1>9, <2>3
    <2>5. \A f \in Pending[c] : f.by = e.by => e.n <= f.n
      BY <1>2 DEF Pending
    <2>6. Feed!Deliver(c, e)
      BY <1>4, <1>8, <2>1, <2>4, <2>5 DEF Feed!Deliver
    <2> QED
      BY <1>8, <2>6
  <1>10. CASE sent' = sent /\ writer' = [writer EXCEPT ![c] = "exited"]
    <2>1. Intact' = [Intact EXCEPT ![c] = FALSE]
      BY <1>10 DEF Intact, TypeOK
    <2>2. {e} \in SUBSET Pending[c] /\ \A f, g \in {e} : f = g
      BY <1>8
    <2> QED
      BY <1>4, <1>8, <1>10, <2>1, <2>2 DEF Feed!Break
  <1> QED
    BY <1>9, <1>10 DEF WriterWrite

\* A writer that sees a closed done channel breaks the feed, with nothing in hand.
LEMMA WriterExitBreaks ==
    ASSUME TypeOK, NEW c \in Conns, WriterExit(c)
    PROVE  Feed!Break(c)
  <1>1. Stage' = Stage /\ Announced' = Announced /\ Pending' = Pending /\ sent' = sent
    BY FeedReads DEF WriterExit
  <1>2. Intact[c] /\ Intact' = [Intact EXCEPT ![c] = FALSE]
    BY DEF WriterExit, Intact, TypeOK
  <1>3. Pending' = [Pending EXCEPT ![c] = @ \ {}]
    BY <1>1 DEF Pending
  <1> QED
    BY <1>1, <1>2, <1>3 DEF Feed!Break

\* What handlers, heartbeats, peers and the two sweeps do else is not seen.
LEMMA UnseenSteps ==
    ASSUME TypeOK, NEW c \in Conns,
           \/ CheckDone(c) \/ Read(c) \/ EndConn(c) \/ PingFails(c) \/ HeartbeatExit(c)
           \/ Peer(c) \/ BroadcastClose(c) \/ CloseSocket(c)
    PROVE  UNCHANGED Feed!vars
  <1>1. UNCHANGED <<writer, inHand, queue, sent, pub>>
    BY DEF CheckDone, Read, EndConn, PingFails, HeartbeatExit, Peer, BroadcastClose, CloseSocket
  <1>2. \A d \in Conns : StageOf(d)' = StageOf(d)
    <2>1. CASE CheckDone(c)
      BY <2>1 DEF CheckDone, TypeOK, StageOf
    <2>2. CASE Read(c)
      BY <2>2 DEF Read, TypeOK, StageOf
    <2>3. CASE EndConn(c)
      BY <2>3 DEF EndConn, TypeOK, StageOf
    <2>4. CASE UNCHANGED reader
      BY <2>4 DEF StageOf
    <2> QED
      BY <2>1, <2>2, <2>3, <2>4 DEF PingFails, HeartbeatExit, Peer, BroadcastClose, CloseSocket
  <1> QED
    BY <1>1, <1>2, FeedReads DEF Feed!vars

\* Every step of the hub is one of the feed, or is not seen.
LEMMA StepFeeds == FeedInv /\ [Next]_vars => [Feed!Next]_(Feed!vars)
  <1> SUFFICES ASSUME FeedInv, [Next]_vars PROVE Feed!Next \/ UNCHANGED Feed!vars
    OBVIOUS
  <1> USE DEF FeedInv
  <1>1. ASSUME NEW c \in Conns, Register(c) PROVE Feed!Next
    BY <1>1, RegisterJoins DEF Feed!Next
  <1>2. ASSUME NEW c \in Conns, Deregister(c) PROVE Feed!Next
    BY <1>2, DeregisterLeaves DEF Feed!Next
  <1>3. ASSUME NEW p \in Publishers, NEW a \in Accounts, PublishBegin(p, a) PROVE Feed!Next
    BY <1>3, PublishBeginAnnounces DEF Feed!Next
  <1>4. ASSUME NEW p \in Publishers, NEW c \in Conns, PublishSend(p, c)
        PROVE  Feed!Next \/ UNCHANGED Feed!vars
    BY <1>4, PublishSendLoses DEF Feed!Next
  <1>5. ASSUME NEW c \in Conns, WriterTake(c) PROVE UNCHANGED Feed!vars
    BY <1>5, WriterTakeIsUnseen
  <1>6. ASSUME NEW c \in Conns, WriterWrite(c) PROVE Feed!Next
    BY <1>6, WriterWriteDelivers DEF Feed!Next
  <1>7. ASSUME NEW c \in Conns, WriterExit(c) PROVE Feed!Next
    BY <1>7, WriterExitBreaks DEF Feed!Next
  <1>8. ASSUME NEW c \in Conns,
               \/ CheckDone(c) \/ Read(c) \/ EndConn(c) \/ PingFails(c) \/ HeartbeatExit(c)
               \/ Peer(c) \/ BroadcastClose(c) \/ CloseSocket(c)
        PROVE  UNCHANGED Feed!vars
    BY <1>8, UnseenSteps
  <1>9. CASE BroadcastBegin \/ CloseBegin \/ CloseSnapshot \/ UNCHANGED vars
    BY <1>9, FeedReads
    DEF BroadcastBegin, CloseBegin, CloseSnapshot, connVars, vars, Feed!vars
  <1> QED
    BY <1>1, <1>2, <1>3, <1>4, <1>5, <1>6, <1>7, <1>8, <1>9
    DEF Next, Handler, Writer, Heartbeat, Sending, Closing

\* The hub delivers as promised: every behaviour of the hub, with any number of accounts,
\* connections, publishers and events and any channel capacity, is one of EventFeed
\* (Register, Publish, writer, deregister, Close).
THEOREM DeliveryKeepsPromise == Spec => DeliversAsPromised
  BY InitFeed, FeedInvariance, StepFeeds, PTL DEF Spec, DeliversAsPromised, Feed!Spec
=============================================================================
