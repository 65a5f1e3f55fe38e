---------------------------- MODULE RealtimeHub ----------------------------
(***************************************************************************)
(* The in-memory WebSocket hub.  Every connection has three goroutines:    *)
(* the handler, which registers the connection, blocks in Read and         *)
(* deregisters it; the writer, which moves events from the connection's    *)
(* bounded channel to the socket; and the heartbeat, which pings.  Domain  *)
(* handlers publish: they copy the targets under the mutex and send to     *)
(* their channels after releasing it, so that connections come and go      *)
(* between the copy and the send.  On shutdown one goroutine tells the     *)
(* clients to reconnect while main closes the hub.                         *)
(*                                                                         *)
(* What is done under the mutex is one step.  The request context of a     *)
(* hijacked connection is not cancelled before its handler returns.        *)
(***************************************************************************)
EXTENDS Integers, Sequences

CONSTANTS
    Accounts,
    Conns,       \* WebSocket connections that may be accepted
    AccountOf,   \* AccountOf[c]: the account of the session that opened c
    Publishers,  \* handler goroutines that publish, one event after another
    SendBuffer,  \* capacity of a connection's channel
    MaxEvents    \* bound: events published by one publisher

VARIABLES
    registry,  \* connections in h.conns
    hubDone,   \* h.done is closed
    reader,    \* reader[c]: where the handler of c is
    writer,    \* writer[c]: where the writer of c is
    heartbeat, \* heartbeat[c]: where the heartbeat of c is
    queue,     \* queue[c]: contents of c.ch
    inHand,    \* inHand[c]: <<>> or <<e>>, the event the writer took
    connDone,  \* connDone[c]: c.done is closed
    sock,      \* sock[c]: "open", "stalled" (peer does not answer) or "closed"
    sent,  \* sent[c]: events written to the socket of c, in order
    pub,       \* pub[p]: progress of publisher p
    bcast,     \* progress of BroadcastReconnect
    closer     \* progress of Close

connVars == <<registry, reader, writer, heartbeat, queue, inHand, connDone, sock, sent>>
vars == <<registry, hubDone, reader, writer, heartbeat, queue, inHand, connDone, sock,
          sent, pub, bcast, closer>>

Event == [by: Publishers, n: Nat, account: Accounts]
ReaderStage == {"new", "loop", "reading", "leaving", "removed", "gone"}
WriterStage == {"none", "select", "writing", "exited"}
HeartbeatStage == {"none", "waiting", "exited"}
SweepStage == {"idle", "snapshot", "sweep"}

ASSUME SomeAccount == Accounts # {}
ASSUME AccountsOfConns == AccountOf \in [Conns -> Accounts]
ASSUME BufferHoldsOne == SendBuffer \in Nat \ {0}
ASSUME EventsAreBounded == MaxEvents \in Nat

NothingPublished == [n |-> 0, to |-> CHOOSE a \in Accounts : TRUE, targets |-> {}]
NoSweep == [pc |-> "idle", todo |-> {}]

Init ==
    /\ registry = {}
    /\ hubDone = FALSE
    /\ reader = [c \in Conns |-> "new"]
    /\ writer = [c \in Conns |-> "none"]
    /\ heartbeat = [c \in Conns |-> "none"]
    /\ queue = [c \in Conns |-> <<>>]
    /\ inHand = [c \in Conns |-> <<>>]
    /\ connDone = [c \in Conns |-> FALSE]
    /\ sock = [c \in Conns |-> "open"]
    /\ sent = [c \in Conns |-> <<>>]
    /\ pub = [p \in Publishers |-> NothingPublished]
    /\ bcast = NoSweep
    /\ closer = NoSweep

----------------------------------------------------------------------------
(* Register: the handler goroutine of a connection *)

Register(c) ==
    /\ reader[c] = "new"
    /\ registry' = registry \cup {c}
    /\ reader' = [reader EXCEPT ![c] = "loop"]
    /\ writer' = [writer EXCEPT ![c] = "select"]
    /\ heartbeat' = [heartbeat EXCEPT ![c] = "waiting"]
    /\ UNCHANGED <<hubDone, queue, inHand, connDone, sock, sent, pub, bcast, closer>>

\* The select before a Read sees a closed hub, and nothing else.
CheckDone(c) ==
    /\ reader[c] = "loop"
    /\ reader' = [reader EXCEPT ![c] = IF hubDone THEN "leaving" ELSE "reading"]
    /\ UNCHANGED <<registry, hubDone, writer, heartbeat, queue, inHand, connDone, sock,
                   sent, pub, bcast, closer>>

\* Read returns: a message of the client, which is ignored, or an error once
\* the socket is closed by the peer or by another goroutine.
Read(c) ==
    /\ reader[c] = "reading"
    /\ \/ sock[c] = "open" /\ reader' = [reader EXCEPT ![c] = "loop"]
       \/ sock[c] = "closed" /\ reader' = [reader EXCEPT ![c] = "leaving"]
    /\ UNCHANGED <<registry, hubDone, writer, heartbeat, queue, inHand, connDone, sock,
                   sent, pub, bcast, closer>>

\* deregister, under the mutex.
Deregister(c) ==
    /\ reader[c] = "leaving"
    /\ registry' = registry \ {c}
    /\ reader' = [reader EXCEPT ![c] = "removed"]
    /\ UNCHANGED <<hubDone, writer, heartbeat, queue, inHand, connDone, sock, sent, pub, bcast,
                   closer>>

\* deregister, after the unlock: the other goroutines of the connection are told.
EndConn(c) ==
    /\ reader[c] = "removed"
    /\ connDone' = [connDone EXCEPT ![c] = TRUE]
    /\ reader' = [reader EXCEPT ![c] = "gone"]
    /\ UNCHANGED <<registry, hubDone, writer, heartbeat, queue, inHand, sock, sent, pub, bcast,
                   closer>>

----------------------------------------------------------------------------
(* Publish *)

\* Broken variant of Targets: every connection of the hub.
EveryTarget(a) == registry

\* The connections of an account, copied under the mutex.
Targets(a) == {c \in registry : AccountOf[c] = a}

PublishBegin(p, a) ==
    /\ pub[p].targets = {}
    /\ pub[p].n < MaxEvents
    /\ pub' = [pub EXCEPT ![p] = [n |-> @.n + 1, to |-> a, targets |-> Targets(a)]]
    /\ UNCHANGED <<connVars, hubDone, bcast, closer>>

\* Broken variant of Published: the event does not say whose it is.
Unaddressed(p) == [by |-> p, n |-> pub[p].n]

Published(p) == [by |-> p, n |-> pub[p].n, account |-> pub[p].to]

\* Broken variant of PublishSend: the send waits for room in the channel.
PublishWait(p, c) ==
    /\ c \in pub[p].targets
    /\ Len(queue[c]) < SendBuffer
    /\ queue' = [queue EXCEPT ![c] = Append(@, Published(p))]
    /\ pub' = [pub EXCEPT ![p].targets = @ \ {c}]
    /\ UNCHANGED <<registry, hubDone, reader, writer, heartbeat, inHand, connDone, sock,
                   sent, bcast, closer>>

\* Send to a copied target without blocking; a full channel drops the event.
\* The target may be gone by now: its channel stays, nobody empties it.
PublishSend(p, c) ==
    /\ c \in pub[p].targets
    /\ queue' = [queue EXCEPT ![c] =
           IF Len(@) < SendBuffer THEN Append(@, Published(p)) ELSE @]
    /\ pub' = [pub EXCEPT ![p].targets = @ \ {c}]
    /\ UNCHANGED <<registry, hubDone, reader, writer, heartbeat, inHand, connDone, sock,
                   sent, bcast, closer>>

----------------------------------------------------------------------------
(* The writer of a connection *)

\* Broken variant of WriterTake: the newest event is taken first.
WriterTakeLast(c) ==
    /\ writer[c] = "select"
    /\ queue[c] # <<>>
    /\ inHand' = [inHand EXCEPT ![c] = <<queue[c][Len(queue[c])]>>]
    /\ queue' = [queue EXCEPT ![c] = SubSeq(@, 1, Len(@) - 1)]
    /\ writer' = [writer EXCEPT ![c] = "writing"]
    /\ UNCHANGED <<registry, hubDone, reader, heartbeat, connDone, sock, sent, pub, bcast,
                   closer>>

WriterTake(c) ==
    /\ writer[c] = "select"
    /\ queue[c] # <<>>
    /\ inHand' = [inHand EXCEPT ![c] = <<Head(queue[c])>>]
    /\ queue' = [queue EXCEPT ![c] = Tail(@)]
    /\ writer' = [writer EXCEPT ![c] = "writing"]
    /\ UNCHANGED <<registry, hubDone, reader, heartbeat, connDone, sock, sent, pub, bcast,
                   closer>>

\* Broken variant of WriterWrite: a failed write leaves the socket open.
WriterWriteGivesUp(c) ==
    /\ writer[c] = "writing"
    /\ inHand' = [inHand EXCEPT ![c] = <<>>]
    /\ \/ /\ sock[c] # "closed"
          /\ sent' = [sent EXCEPT ![c] = @ \o inHand[c]]
          /\ writer' = [writer EXCEPT ![c] = "select"]
       \/ /\ sock[c] # "open"
          /\ writer' = [writer EXCEPT ![c] = "exited"]
          /\ UNCHANGED sent
    /\ UNCHANGED <<registry, hubDone, reader, heartbeat, queue, connDone, sock, pub, bcast,
                   closer>>

\* The write succeeds, into the buffers of a peer that does not answer too, or
\* fails: the socket is closed, or the peer did not take it within five seconds.
\* A failed write closes the socket and ends the writer.
WriterWrite(c) ==
    /\ writer[c] = "writing"
    /\ inHand' = [inHand EXCEPT ![c] = <<>>]
    /\ \/ /\ sock[c] # "closed"
          /\ sent' = [sent EXCEPT ![c] = @ \o inHand[c]]
          /\ writer' = [writer EXCEPT ![c] = "select"]
          /\ UNCHANGED sock
       \/ /\ sock[c] # "open"
          /\ sock' = [sock EXCEPT ![c] = "closed"]
          /\ writer' = [writer EXCEPT ![c] = "exited"]
          /\ UNCHANGED sent
    /\ UNCHANGED <<registry, hubDone, reader, heartbeat, queue, connDone, pub, bcast, closer>>

\* The select may choose a closed done channel although events are queued.
WriterExit(c) ==
    /\ writer[c] = "select"
    /\ connDone[c] \/ hubDone
    /\ writer' = [writer EXCEPT ![c] = "exited"]
    /\ UNCHANGED <<registry, hubDone, reader, heartbeat, queue, inHand, connDone, sock,
                   sent, pub, bcast, closer>>

----------------------------------------------------------------------------
(* The heartbeat of a connection *)

\* Broken variant of PingFails: the heartbeat gives up and leaves the socket.
PingGivesUp(c) ==
    /\ heartbeat[c] = "waiting"
    /\ sock[c] # "open"
    /\ heartbeat' = [heartbeat EXCEPT ![c] = "exited"]
    /\ UNCHANGED <<registry, hubDone, reader, writer, queue, inHand, connDone, sock, sent,
                   pub, bcast, closer>>

\* No pong in time, or a closed socket.  A ping that is answered has no effect.
PingFails(c) ==
    /\ heartbeat[c] = "waiting"
    /\ sock[c] # "open"
    /\ sock' = [sock EXCEPT ![c] = "closed"]
    /\ heartbeat' = [heartbeat EXCEPT ![c] = "exited"]
    /\ UNCHANGED <<registry, hubDone, reader, writer, queue, inHand, connDone, sent, pub,
                   bcast, closer>>

HeartbeatExit(c) ==
    /\ heartbeat[c] = "waiting"
    /\ connDone[c] \/ hubDone
    /\ heartbeat' = [heartbeat EXCEPT ![c] = "exited"]
    /\ UNCHANGED <<registry, hubDone, reader, writer, queue, inHand, connDone, sock, sent,
                   pub, bcast, closer>>

----------------------------------------------------------------------------
(* The peer *)

\* The peer stops answering, answers again, or closes the connection.
Peer(c) ==
    /\ \/ sock[c] = "open" /\ \E s \in {"stalled", "closed"} : sock' = [sock EXCEPT ![c] = s]
       \/ sock[c] = "stalled" /\ \E s \in {"open", "closed"} : sock' = [sock EXCEPT ![c] = s]
    /\ UNCHANGED <<registry, hubDone, reader, writer, heartbeat, queue, inHand, connDone,
                   sent, pub, bcast, closer>>

----------------------------------------------------------------------------
(* Shutdown: BroadcastReconnect and Close run in goroutines of their own *)

BroadcastBegin ==
    /\ bcast.pc = "idle"
    /\ bcast' = [pc |-> "sweep", todo |-> registry]
    /\ UNCHANGED <<connVars, hubDone, pub, closer>>

\* Write "reconnect" to one connection, past its channel, and close the socket.
\* Whether the client got it is not recorded, it is not one of the events.
BroadcastClose(c) ==
    /\ bcast.pc = "sweep"
    /\ c \in bcast.todo
    /\ sock' = [sock EXCEPT ![c] = "closed"]
    /\ bcast' = [bcast EXCEPT !.todo = @ \ {c}]
    /\ UNCHANGED <<registry, hubDone, reader, writer, heartbeat, queue, inHand, connDone,
                   sent, pub, closer>>

\* Broken variant of CloseBegin: the sockets are closed, done is not.
CloseSocketsOnly ==
    /\ closer.pc = "idle"
    /\ closer' = [closer EXCEPT !.pc = "snapshot"]
    /\ UNCHANGED <<connVars, hubDone, pub, bcast>>

CloseBegin ==
    /\ closer.pc = "idle"
    /\ hubDone' = TRUE
    /\ closer' = [closer EXCEPT !.pc = "snapshot"]
    /\ UNCHANGED <<connVars, pub, bcast>>

CloseSnapshot ==
    /\ closer.pc = "snapshot"
    /\ closer' = [pc |-> "sweep", todo |-> registry]
    /\ UNCHANGED <<connVars, hubDone, pub, bcast>>

CloseSocket(c) ==
    /\ closer.pc = "sweep"
    /\ c \in closer.todo
    /\ sock' = [sock EXCEPT ![c] = "closed"]
    /\ closer' = [closer EXCEPT !.todo = @ \ {c}]
    /\ UNCHANGED <<registry, hubDone, reader, writer, heartbeat, queue, inHand, connDone,
                   sent, pub, bcast>>

----------------------------------------------------------------------------
Handler(c) == CheckDone(c) \/ Read(c) \/ Deregister(c) \/ EndConn(c)
Writer(c) == WriterTake(c) \/ WriterWrite(c) \/ WriterExit(c)
Heartbeat(c) == PingFails(c) \/ HeartbeatExit(c)
Sending(p) == \E c \in Conns : PublishSend(p, c)
Closing == CloseSnapshot \/ \E c \in Conns : CloseSocket(c)

Next ==
    \/ \E c \in Conns :
          Register(c) \/ Handler(c) \/ Writer(c) \/ Heartbeat(c) \/ Peer(c) \/ BroadcastClose(c)
    \/ \E p \in Publishers : Sending(p) \/ \E a \in Accounts : PublishBegin(p, a)
    \/ BroadcastBegin \/ CloseBegin \/ Closing

Spec == Init /\ [][Next]_vars

\* Goroutines keep running.  Whether clients connect, send, stall or leave,
\* whether anything is published and whether the hub is closed is left open.
Fairness ==
    /\ \A c \in Conns :
          /\ WF_vars(\/ CheckDone(c) \/ Deregister(c) \/ EndConn(c)
                     \/ sock[c] = "closed" /\ Read(c))
          /\ WF_vars(Writer(c))
          /\ WF_vars(Heartbeat(c))
    /\ \A p \in Publishers : WF_vars(Sending(p))
    /\ WF_vars(Closing)

FairSpec == Spec /\ Fairness

----------------------------------------------------------------------------
(* Safety *)

\* The type invariant.
TypeOK ==
    /\ registry \subseteq Conns
    /\ hubDone \in BOOLEAN
    /\ reader \in [Conns -> ReaderStage]
    /\ writer \in [Conns -> WriterStage]
    /\ heartbeat \in [Conns -> HeartbeatStage]
    /\ queue \in [Conns -> Seq(Event)]
    /\ inHand \in [Conns -> Seq(Event)]
    /\ connDone \in [Conns -> BOOLEAN]
    /\ sock \in [Conns -> {"open", "stalled", "closed"}]
    /\ sent \in [Conns -> Seq(Event)]
    /\ pub \in [Publishers -> [n : Nat, to : Accounts, targets : SUBSET Conns]]
    /\ bcast \in [pc : SweepStage, todo : SUBSET Conns]
    /\ closer \in [pc : SweepStage, todo : SUBSET Conns]

\* The events of a connection, from the first written to the last queued.
Stream(c) == sent[c] \o inHand[c] \o queue[c]

OfAccount(s, a) == \A i \in 1 .. Len(s) : s[i].account = a

\* Events never cross account boundaries: whatever is queued for, taken for or
\* written to a connection is of the account whose session opened it, and so is
\* every connection that a publisher still holds in its copy (Publish).
Isolation ==
    /\ \A c \in Conns :
          /\ OfAccount(queue[c], AccountOf[c])
          /\ OfAccount(inHand[c], AccountOf[c])
          /\ OfAccount(sent[c], AccountOf[c])
    /\ \A p \in Publishers : \A c \in pub[p].targets : AccountOf[c] = pub[p].to

\* The events of each publisher appear in the order of publication, none twice.
Ordered(s) == \A i, j \in 1 .. Len(s) : i < j /\ s[i].by = s[j].by => s[i].n < s[j].n

\* A connection sees the events of one publisher in the order of publication and
\* none twice; events may be missing, as a full channel drops them (Publish, writer).
PerPublisherOrder == \A c \in Conns : Ordered(Stream(c))

\* One of the goroutines of a connection has ended, or the hub is closing.
MustEnd(c) == hubDone \/ writer[c] = "exited" \/ heartbeat[c] = "exited"

\* Close has yet to copy the connection, or to close its socket.
ToBeClosed(c) ==
    \/ closer.pc = "snapshot" /\ c \in registry
    \/ closer.pc = "sweep" /\ c \in closer.todo

\* No handler is left blocked in a Read that nobody will end: once a goroutine of its
\* connection has ended or the hub is closing, the socket is closed or Close still has
\* it before it, whenever it registered.  And a handler that is gone took its connection
\* with it: it is out of the registry and its other goroutines are told (Register,
\* writer, heartbeat, Close, deregister).
NobodyLeftBehind ==
    \A c \in Conns :
        /\ MustEnd(c) /\ reader[c] = "reading" => sock[c] = "closed" \/ ToBeClosed(c)
        /\ reader[c] = "gone" => connDone[c] /\ c \notin registry

----------------------------------------------------------------------------
(* Liveness, under FairSpec *)

\* Publish is best-effort: no slow or dead connection keeps a publisher waiting.
PublishReturns == \A p \in Publishers : pub[p].targets # {} ~> pub[p].targets = {}

AllEnded(c) == reader[c] = "gone" /\ writer[c] = "exited" /\ heartbeat[c] = "exited"

\* One goroutine of a connection does not outlive the others: when one of the three
\* has ended the other two end and the connection is deregistered, so there is no
\* connection that is registered and never written to, and no goroutine is leaked.
EndTogether ==
    \A c \in Conns :
        (reader[c] = "gone" \/ writer[c] = "exited" \/ heartbeat[c] = "exited")
            ~> (AllEnded(c) /\ c \notin registry)

\* A peer that does not answer again is culled (heartbeat).
StaleCulled ==
    \A c \in Conns :
        (c \in registry /\ sock[c] = "stalled") ~> (c \notin registry \/ sock[c] = "open")

\* Close reaches every connection: one that was registered before it, one whose
\* registration runs beside it, and one registered after it (Close, Register).
HubDrains == \A c \in Conns : (closer.pc # "idle" /\ c \in registry) ~> c \notin registry

----------------------------------------------------------------------------
(* Refinement *)

EventsOf(s) == {s[i] : i \in 1 .. Len(s)}

YetToSend(c) == {Published(p) : p \in {q \in Publishers : c \in pub[q].targets}}

\* What was announced to a connection and is neither written nor lost: in the hand of
\* the writer, queued, or held by a publisher that has yet to send it.
Underway(c) == EventsOf(inHand[c]) \cup EventsOf(queue[c]) \cup YetToSend(c)

StageOf(c) ==
    CASE reader[c] = "new" -> "new"
      [] reader[c] \in {"removed", "gone"} -> "left"
      [] OTHER -> "member"

Stage == [c \in Conns |-> StageOf(c)]
Intact == [c \in Conns |-> writer[c] # "exited"]
Announced == [p \in Publishers |-> pub[p].n]
Pending == [c \in Conns |-> Underway(c)]

Feed == INSTANCE EventFeed WITH
    Clients <- Conns, Backlog <- SendBuffer, stage <- Stage, intact <- Intact,
    newest <- Announced, pending <- Pending, feed <- sent

\* The hub delivers as promised to its clients: what a connection is sent was announced
\* to it, while it was registered and for its account, comes once and in the order of
\* publication, and is missing only if the channel was full or the writer has ended.
DeliversAsPromised == Feed!Spec
=============================================================================
