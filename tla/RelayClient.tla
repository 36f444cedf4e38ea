----------------------------- MODULE RelayClient -----------------------------
(***************************************************************************)
(* A connection of this server to another one: CClient.  The relay thread  *)
(* connects, reads frames from the socket and queues them for the session, *)
(* sends what is queued, and connects again 3 seconds after the connection *)
(* was lost.  The world thread queues packets and adds the write event;    *)
(* when that fails it closes the connection itself.                        *)
(*                                                                         *)
(* A byte stream is a sequence of cells: a frame begins with one cell that *)
(* holds its length (ServerPktHeader) and goes on with cells that may look *)
(* like anything.  The number of a descriptor that was closed is taken to  *)
(* be free until the next socket of this client.                           *)
(***************************************************************************)
EXTENDS Integers, Sequences

CONSTANTS
  Payload,   \* contents of a cell behind the header
  MaxCells,  \* bound: cells on their way to the parser
  MaxBreaks  \* bound: connections that the other server ends or refuses

ASSUME RelayAssumption == Payload \subseteq Nat /\ MaxCells \in Nat /\ MaxBreaks \in Nat

Frames == {<<1>>} \cup {<<2, p>> : p \in Payload}

VARIABLES
  sock,      \* client_fd: "closed", "fresh" before connect, "open"
  connected, \* m_bIsConnected
  evRead,    \* mReadEvent is added
  evWrite,   \* mWriteEvent is added
  unsent,    \* m_sendQueue or m_pBufferOutput is not empty
  input,     \* cells in m_pBufferInput
  relay,     \* the relay thread: "loop", "parse", "connect", "connected", or "dead"
  world,     \* the world thread in SendPacket: "idle", "queue", "event", "close"
  live,      \* the other server has this connection
  wire,      \* cells on their way from it
  expect,    \* history: the frames it sent on this connection and were not delivered
  torn,      \* history: a connection began with cells of an older one in the input
  breaks     \* history: connections ended or refused

relayVars == <<sock, connected, evRead, evWrite, unsent, input, relay, world, live, wire,
               expect, torn, breaks>>

\* RelayClientRunnable has created the client; its first Connect is like the later ones.
RelayInit ==
  /\ sock = "closed" /\ connected = FALSE /\ evRead = FALSE /\ evWrite = FALSE
  /\ unsent = FALSE /\ input = << >> /\ relay = "loop" /\ world = "idle"
  /\ live = FALSE /\ wire = << >> /\ expect = << >> /\ torn = FALSE /\ breaks = 0


\* What CloseClient leaves in m_bIsConnected.
ClosedFlag == FALSE

CloseClient ==
  /\ sock' = "closed" /\ connected' = ClosedFlag /\ evRead' = FALSE /\ evWrite' = FALSE
  /\ live' = FALSE /\ wire' = << >>

-----------------------------------------------------------------------------
(* The other server, which sends whole frames.                             *)

ServerSend(f) ==
  /\ live /\ Len(wire) + Len(input) + Len(f) <= MaxCells
  /\ wire' = wire \o f
  /\ expect' = expect \o f
  /\ UNCHANGED <<sock, connected, evRead, evWrite, unsent, input, relay, world, live, torn,
                 breaks>>

\* It ends the connection, and the last cells may be lost.
ServerBreak(n) ==
  /\ live /\ breaks < MaxBreaks
  /\ live' = FALSE
  /\ wire' = SubSeq(wire, 1, n)
  /\ breaks' = breaks + 1
  /\ UNCHANGED <<sock, connected, evRead, evWrite, unsent, input, relay, world, expect, torn>>

-----------------------------------------------------------------------------
(* The relay thread.                                                       *)

\* OnTimer and Connect: a new socket, for which the events are set anew.
OnTimer ==
  /\ relay = "loop" /\ ~connected
  /\ relay' = "connect"
  /\ sock' = "fresh" /\ evRead' = FALSE /\ evWrite' = FALSE
  /\ UNCHANGED <<connected, unsent, input, world, live, wire, expect, torn, breaks>>

\* connect, and the read event; neither buffer is emptied.
Connect ==
  /\ relay = "connect" /\ sock = "fresh"
  /\ relay' = "connected"
  /\ sock' = "open" /\ evRead' = TRUE
  /\ live' = TRUE /\ wire' = << >> /\ expect' = << >>
  /\ torn' = (torn \/ input # << >>)
  /\ UNCHANGED <<connected, evWrite, unsent, input, world, breaks>>

\* The other server refuses, or the world thread has closed the socket.
ConnectFails ==
  /\ relay = "connect"
  /\ \/ sock = "fresh" /\ breaks < MaxBreaks /\ breaks' = breaks + 1
     \/ sock = "closed" /\ UNCHANGED breaks
  /\ CloseClient
  /\ relay' = "loop"
  /\ UNCHANGED <<unsent, input, world, expect, torn>>

\* The last statement of Connect.
SetConnected ==
  /\ relay = "connected"
  /\ connected' = TRUE
  /\ relay' = "loop"
  /\ UNCHANGED <<sock, evRead, evWrite, unsent, input, world, live, wire, expect, torn, breaks>>

\* The callback OnRead: SockRead gets some of the cells that have come.
OnRead(n) ==
  /\ relay = "loop" /\ evRead
  /\ input' = input \o SubSeq(wire, 1, n)
  /\ wire' = SubSeq(wire, n + 1, Len(wire))
  /\ relay' = "parse"
  /\ UNCHANGED <<sock, connected, evRead, evWrite, unsent, world, live, expect, torn, breaks>>

\* recv returns 0 or an error.
ReadEnd ==
  /\ relay = "loop" /\ evRead /\ ~live /\ wire = << >>
  /\ CloseClient
  /\ UNCHANGED <<unsent, input, relay, world, expect, torn, breaks>>

\* Mutant: a frame is taken when all but its last cell is there.
CompleteShort(s) == s # << >> /\ Head(s) <= Len(s) + 1

\* The loop of OnRead finds a header, and as many cells as it says.
Complete(s) == s # << >> /\ Head(s) <= Len(s)

\* What OnRead skips for a frame (wLen).
Skipped(s) == Head(s)

\* One turn of the loop.  A frame shorter than its header makes wRemaining wrap, and the
\* packet gets a size that no memory has.
Parse ==
  /\ relay = "parse" /\ Complete(input)
  /\ IF Head(input) = 0
     THEN relay' = "dead" /\ UNCHANGED <<input, expect>>
     ELSE /\ input' = SubSeq(input, Skipped(input) + 1, Len(input))
          /\ expect' = IF expect = << >> THEN << >> ELSE SubSeq(expect, Head(expect) + 1, Len(expect))
          /\ UNCHANGED relay
  /\ UNCHANGED <<sock, connected, evRead, evWrite, unsent, world, live, wire, torn, breaks>>

\* The loop ends.
ParseEnd ==
  /\ relay = "parse" /\ ~Complete(input)
  /\ relay' = "loop"
  /\ UNCHANGED <<sock, connected, evRead, evWrite, unsent, input, world, live, wire, expect,
                 torn, breaks>>

\* The callback OnWrite: the queue is emptied into the output buffer, of which all or
\* some is sent; when some is left the event is added again.
OnWrite ==
  /\ relay = "loop" /\ evWrite
  /\ \/ evWrite' = FALSE /\ unsent' = FALSE
     \/ unsent /\ UNCHANGED <<evWrite, unsent>>
  /\ UNCHANGED <<sock, connected, evRead, input, relay, world, live, wire, expect, torn, breaks>>

\* send returns an error.
WriteError ==
  /\ relay = "loop" /\ evWrite /\ unsent /\ ~live
  /\ CloseClient
  /\ UNCHANGED <<unsent, input, relay, world, expect, torn, breaks>>

-----------------------------------------------------------------------------
(* The world thread: SendPacket.                                           *)

SendPacket ==
  /\ world = "idle" /\ connected /\ relay # "dead"
  /\ world' = "queue"
  /\ UNCHANGED <<sock, connected, evRead, evWrite, unsent, input, relay, live, wire, expect,
                 torn, breaks>>

\* m_sendQueue.add, and event_del.
SendQueue ==
  /\ world = "queue"
  /\ unsent' = TRUE /\ evWrite' = FALSE
  /\ world' = "event"
  /\ UNCHANGED <<sock, connected, evRead, input, relay, live, wire, expect, torn, breaks>>

\* event_add, which fails for a descriptor that is closed.
SendEvent ==
  /\ world = "event"
  /\ IF sock = "closed" THEN world' = "close" /\ UNCHANGED evWrite
     ELSE world' = "idle" /\ evWrite' = TRUE
  /\ UNCHANGED <<sock, connected, evRead, unsent, input, relay, live, wire, expect, torn, breaks>>

\* SendPacket closes the connection that it could not add the event for; by now it may
\* be the next one.
SendClose ==
  /\ world = "close"
  /\ CloseClient
  /\ world' = "idle"
  /\ UNCHANGED <<unsent, input, relay, expect, torn, breaks>>

RelayThread ==
  \/ OnTimer \/ Connect \/ ConnectFails \/ SetConnected
  \/ \E n \in 1 .. Len(wire) : OnRead(n)
  \/ ReadEnd \/ Parse \/ ParseEnd \/ OnWrite \/ WriteError

SendGoesOn == SendQueue \/ SendEvent \/ SendClose

RelayNext ==
  \/ \E f \in Frames : ServerSend(f)
  \/ \E n \in 0 .. Len(wire) : ServerBreak(n)
  \/ RelayThread
  \/ SendPacket
  \/ SendGoesOn

RelaySpec == RelayInit /\ [][RelayNext]_relayVars

-----------------------------------------------------------------------------
(* Properties.                                                             *)

\* The variables have their types.
RelayTypeOK ==
  /\ sock \in {"closed", "fresh", "open"} /\ world \in {"idle", "queue", "event", "close"}
  /\ relay \in {"loop", "parse", "connect", "connected", "dead"}
  /\ connected \in BOOLEAN /\ evRead \in BOOLEAN /\ evWrite \in BOOLEAN /\ unsent \in BOOLEAN
  /\ live \in BOOLEAN /\ torn \in BOOLEAN /\ breaks \in 0 .. MaxBreaks
  /\ input \in Seq(Nat) /\ wire \in Seq(Nat) /\ expect \in Seq(Nat)

\* While no connection was lost inside of a frame, the parser stands at the beginning of
\* a frame of the other server whenever it stands at the beginning of one of its own: it
\* delivers the frames that were sent, in that order, however they were cut up.  (After
\* a connection was lost inside of a frame its first cells stay in the input, and nothing
\* can be said any more.)
FramesIntact ==
  ~torn => /\ relay # "dead"
           /\ Len(input \o wire) <= Len(expect)
           /\ input \o wire = SubSeq(expect, 1, Len(input \o wire))

\* The client is connected, and both events are added.
Usable == connected /\ sock = "open" /\ evRead /\ evWrite

=============================================================================
