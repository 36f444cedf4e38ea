-------------------------- MODULE NetSessionProofs --------------------------
(***************************************************************************)
(* Theorems about NetSession for every set of connections and descriptors, *)
(* every limit and every number of packets.                                *)
(*                                                                         *)
(* The argument: m_mutexClose makes one thread the closer of a connection. *)
(* Until the closer has called close(2) the descriptor is the connection's *)
(* own, because accept cannot hand out a descriptor that is still open.    *)
(* And m_pSession of a closed connection is either NULL or about to be     *)
(* cleared by the closer, so a session is deleted only when the net thread *)
(* cannot reach it any more.                                               *)
(*                                                                         *)
(* Two references hold a connection, the map's and the session's.  The map *)
(* lets go in the net thread only, after the closer is through or of a     *)
(* connection it does not work on; the session's goes with the session.    *)
(* And whoever queues a packet adds ev_write after it, behind a callback   *)
(* that may have looked at the queue before.                               *)
(***************************************************************************)
EXTENDS NetSession, TLAPS

\* A thread between the assignment to m_bIsClose and the end of CloseSocket.
Past == {"delRead", "delWrite", "closeFd", "clearSess"}

Known == {c \in Clients : obj[c] # "none"}

\* The places at which the world thread is inside one session.
Working == {"update", "process", "sendChk", "sendAdd", "sendDel", "sendEv", "delete", "release"}

\* Every connection that some piece of state refers to was accepted.
InvKnown ==
  /\ clientMap \subseteq Known
  /\ \A t \in Threads : todo[t] \subseteq Known
  /\ \A c \in Clients : obj[c] = "none" =>
       sess[c] = "none" /\ offline[c] = 0 /\ ~sessPtr[c] /\ ~isClose[c] /\ ~evRead[c] /\ ~evWrite[c]
  /\ \A t \in Threads : closing[t] # "idle" => cur[t] \in Known
  /\ pc["net"] \in {"read", "parse", "write", "send", "deref", "return", "flushed"} =>
       cur["net"] \in Known
  /\ pc["world"] \in Working => cur["world"] \in Known

\* One closer at a time, and it has set m_bIsClose.
InvCloser ==
  /\ \A c \in Clients : ~(HoldsClose("net", c) /\ HoldsClose("world", c))
  /\ \A t \in Threads : closing[t] \in Past => isClose[cur[t]]

\* Until close(2) a connection owns its descriptor.
InvOwner ==
  \A c \in Known :
    /\ fd[c] \in Fds
    /\ ~isClose[c] \/ (\E t \in Threads : HoldsClose(t, c)) => owner[fd[c]] = c

\* m_pSession leads to a session that is not deleted, unless the net thread
\* is inside CloseSocket and about to clear it.
InvSession ==
  /\ \A c \in Clients : sessPtr[c] =>
       \/ SessionHolds(c)
       \/ cur["net"] = c /\ closing["net"] \in Past
  /\ \A c \in Clients : sessPtr[c] /\ isClose[c] =>
       \E t \in Threads : cur[t] = c /\ closing[t] \in Past
  /\ pc["world"] = "release" /\ closing["world"] # "enter" => isClose[cur["world"]]

\* The world thread works on a session that is online and visits every session
\* once; a session is offline from then on, until it is deleted and after.
InvOffline ==
  /\ pc["world"] \in Working =>
       sess[cur["world"]] = "online" /\ cur["world"] \notin todo["world"]
  /\ pc["world"] \in Working \cup {"sessions", "offline"} =>
       \A c \in todo["world"] : sess[c] = "online"
  /\ \A c \in Clients :
       offline[c] = IF \/ sess[c] = "deleted"
                       \/ cur["world"] = c /\ pc["world"] \in {"delete", "release"}
                    THEN 1 ELSE 0

\* Where the threads can be: the world thread closes a socket after a failed
\* event_add or at the end of a session, and the place of the net thread tells
\* what libevent has called it for.
InvPlace ==
  /\ closing["world"] # "idle" => pc["world"] \in {"update", "release"}
  /\ pc["net"] \in {"loop", "exit"} => ev = "none"
  /\ pc["net"] \in {"read", "parse"} => ev = "read"
  /\ pc["net"] \in {"write", "send"} => ev \in {"write", "timer"}
  /\ pc["net"] \in {"timer1", "flushed", "timer2"} => ev = "timer"
  /\ pc["net"] \in {"deref", "return"} => ev # "none"

\* A closed connection is out of libevent's read set and owns no descriptor,
\* but for what its closer has still to do.
InvQuiet ==
  /\ pc["net"] = "deref" /\ closing["net"] # "enter" => isClose[cur["net"]]
  /\ \A c \in Clients : isClose[c] /\ evRead[c] =>
       \E t \in Threads : cur[t] = c /\ closing[t] = "delRead"
  /\ \A f \in Fds, c \in Clients : owner[f] = c =>
       /\ obj[c] # "none" /\ fd[c] = f
       /\ isClose[c] => \E t \in Threads : HoldsClose(t, c)

\* A connection leaves the map closed, and is freed when neither the map nor
\* the session holds it and no thread is inside CloseSocket.
InvFreed ==
  /\ \A c \in Known : c \notin clientMap => isClose[c] /\ ~HoldsClose("net", c)
  /\ \A c \in Clients : obj[c] = "freed" =>
       c \notin clientMap /\ ~SessionHolds(c) /\ ~HoldsClose("world", c)

\* What the net thread works on is in the map, except that the timer may have
\* taken out a connection the world thread waits to remove from the read set.
InvCallback ==
  /\ ev = "timer" => todo["net"] \subseteq clientMap
  /\ ev = "timer" /\ pc["net"] \in {"write", "send", "deref"} =>
       cur["net"] \in clientMap \ todo["net"]
  /\ ev = "read" /\ pc["net"] \in {"read", "parse", "deref"} =>
       \/ cur["net"] \in clientMap
       \/ cur["world"] = cur["net"] /\ closing["world"] = "delRead"

\* The world thread, or libevent, will see to what is queued for c.
Sending(c) ==
  \/ evWrite[c]
  \/ cur["world"] = c /\ (pc["world"] \in {"sendDel", "sendEv"} \/ closing["world"] # "idle")

\* Packets wait on an open connection only while somebody will send them; a
\* packet queued while the net thread sends is not left to that send.
InvWake ==
  /\ \A c \in Clients : obj[c] = "none" => sendq[c] = 0 /\ outbuf[c] = 0
  /\ \A c \in Clients : obj[c] = "live" /\ ~isClose[c] =>
       /\ sendq[c] + outbuf[c] > 0 =>
            \/ Sending(c)
            \/ cur["net"] = c /\ (pc["net"] \in {"write", "send"} \/ closing["net"] # "idle")
       /\ cur["net"] = c /\ pc["net"] = "send" /\ sendq[c] > 0 => Sending(c)

IInv ==
  /\ TypeOK /\ InvKnown /\ InvCloser /\ InvOwner /\ InvSession /\ InvOffline
  /\ InvPlace /\ InvQuiet /\ InvFreed /\ InvCallback /\ InvWake

-----------------------------------------------------------------------------
(* The initial state: nothing was accepted.                                  *)
LEMMA InitInv == Init => IInv
  <1> SUFFICES ASSUME Init PROVE IInv
    OBVIOUS
  <1> USE NetAssumption DEF Init, Threads
  <1>1. TypeOK
    BY DEF TypeOK, NetPlaces, WorldPlaces, ClosePlaces
  <1>2. InvKnown
    BY DEF InvKnown, Known, Working
  <1>3. InvCloser /\ InvOwner
    BY DEF InvCloser, InvOwner, Known, HoldsClose, Past
  <1>4. InvSession
    BY DEF InvSession
  <1>5. InvOffline
    BY DEF InvOffline, Working
  <1>6. InvPlace /\ InvQuiet
    BY DEF InvPlace, InvQuiet
  <1>7. InvFreed /\ InvCallback
    BY DEF InvFreed, InvCallback, Known
  <1>8. InvWake
    BY DEF InvWake
  <1> QED BY <1>1, <1>2, <1>3, <1>4, <1>5, <1>6, <1>7, <1>8 DEF IInv

(* Every action keeps every variable in its range.  That a queue is extended  *)
(* for a connection that exists is what InvKnown is needed for.              *)
LEMMA TypeStep == TypeOK /\ InvKnown /\ [Next]_vars => TypeOK'
  <1> SUFFICES ASSUME TypeOK, InvKnown, [Next]_vars PROVE TypeOK'
    OBVIOUS
  <1> USE NetAssumption DEF TypeOK, objVars, sessVars, ctlVars, At, Goto, CallClose, Threads,
        NetPlaces, WorldPlaces, ClosePlaces, GoOffline
  <1>1. ASSUME NEW t \in Threads, CloseSocket(t) PROVE TypeOK'
    <2>1. CASE CloseEnter(t)  BY <2>1 DEF CloseEnter
    <2>2. CASE CloseDelRead(t)  BY <2>2 DEF CloseDelRead
    <2>3. CASE CloseDelWrite(t)  BY <2>3 DEF CloseDelWrite
    <2>4. CASE CloseFd(t)  BY <2>4 DEF CloseFd
    <2>5. CASE CloseClearSess(t)  BY <2>5 DEF CloseClearSess
    <2> QED BY <1>1, <2>1, <2>2, <2>3, <2>4, <2>5 DEF CloseSocket
  <1>2. CASE NetCallback
    <2>1. CASE OnRead  BY <2>1 DEF OnRead
    <2>2. CASE OnReadPacket
      <3>1. cur["net"] \in Clients
        BY <2>2 DEF InvKnown, Known, Working, OnReadPacket
      <3> QED BY <3>1, <2>2 DEF OnReadPacket
    <2>3. CASE OnReadDone  BY <2>3 DEF OnReadDone
    <2>4. CASE OnReadEnd  BY <2>4 DEF OnReadEnd
    <2>5. CASE OnWrite
      <3>1. cur["net"] \in Clients
        BY <2>5 DEF InvKnown, Known, Working, OnWrite
      <3> QED BY <3>1, <2>5 DEF OnWrite
    <2>6. CASE OnWriteSent  BY <2>6 DEF OnWriteSent
    <2>7. CASE OnWriteAgain
      <3>1. evWrite' \in [Clients -> BOOLEAN]
        BY <2>7 DEF OnWriteAgain, AddOutcomes
      <3>2. pc' \in [Threads -> NetPlaces \cup WorldPlaces]
        BY <2>7 DEF OnWriteAgain
      <3>3. closing' \in [Threads -> ClosePlaces]
        BY <2>7 DEF OnWriteAgain
      <3> QED BY <3>1, <3>2, <3>3, <2>7 DEF OnWriteAgain
    <2>8. CASE OnWriteEnd  BY <2>8 DEF OnWriteEnd
    <2>9. CASE DeRefClient  BY <2>9 DEF DeRefClient
    <2>10. CASE Return  BY <2>10 DEF Return
    <2> QED BY <1>2, <2>1, <2>2, <2>3, <2>4, <2>5, <2>6, <2>7, <2>8, <2>9, <2>10 DEF NetCallback
  <1>3. CASE NetTimer
    <2>1. ASSUME NEW c \in Clients, CheckAsyncFlag(c) PROVE TypeOK'  BY <2>1 DEF CheckAsyncFlag
    <2>2. ASSUME NEW c \in Clients, SweepClient(c) PROVE TypeOK'  BY <2>2 DEF SweepClient
    <2>3. CASE CheckFlushed  BY <2>3 DEF CheckFlushed
    <2>4. CASE CheckSweep  BY <2>4 DEF CheckSweep
    <2>5. CASE OnTimerEnd  BY <2>5 DEF OnTimerEnd
    <2> QED BY <1>3, <2>1, <2>2, <2>3, <2>4, <2>5 DEF NetTimer
  <1>4. CASE Dispatch
    <2>1. ASSUME NEW c \in Clients, NEW f \in Fds, OnAccept(c, f) PROVE TypeOK'
      <3>1. obj' \in [Clients -> {"none", "live", "freed"}] /\ fd' \in [Clients -> Fds \cup {None}]
        BY <2>1 DEF OnAccept
      <3>2. owner' \in [Fds -> Clients \cup {None}] /\ clientMap' \subseteq Clients
        BY <2>1 DEF OnAccept
      <3>3. isClose' \in [Clients -> BOOLEAN]
        BY <2>1 DEF OnAccept
      <3>4. evRead' \in [Clients -> BOOLEAN]
        BY <2>1 DEF OnAccept
      <3>5. sessPtr' \in [Clients -> BOOLEAN]
        BY <2>1 DEF OnAccept
      <3>6. sess' \in [Clients -> {"none", "queued", "online", "deleted"}]
        BY <2>1 DEF OnAccept
      <3> QED BY <3>1, <3>2, <3>3, <3>4, <3>5, <3>6, <2>1 DEF OnAccept
    <2>2. ASSUME NEW c \in Clients, DispatchRead(c) PROVE TypeOK'  BY <2>2 DEF DispatchRead
    <2>3. ASSUME NEW c \in Clients, DispatchWrite(c) PROVE TypeOK'  BY <2>3 DEF DispatchWrite
    <2>4. CASE OnTimer  BY <2>4 DEF OnTimer
    <2> QED BY <1>4, <2>1, <2>2, <2>3, <2>4 DEF Dispatch
  <1>5. CASE WorldSession
    <2>1. CASE TakePacket
      <3>1. cur["world"] \in Clients
        BY <2>1 DEF InvKnown, Known, Working, TakePacket
      <3> QED BY <3>1, <2>1 DEF TakePacket
    <2>2. CASE Process  BY <2>2 DEF Process
    <2>3. CASE SendCheck  BY <2>3 DEF SendCheck
    <2>4. CASE SendQueue
      <3>1. cur["world"] \in Clients
        BY <2>4 DEF InvKnown, Known, Working, SendQueue
      <3> QED BY <3>1, <2>4 DEF SendQueue
    <2>5. CASE SendDelEvent  BY <2>5 DEF SendDelEvent
    <2>6. CASE SendAddEvent
      <3>1. evWrite' \in [Clients -> BOOLEAN]
        BY <2>6 DEF SendAddEvent, AddOutcomes
      <3>2. pc' \in [Threads -> NetPlaces \cup WorldPlaces]
        BY <2>6 DEF SendAddEvent
      <3>3. closing' \in [Threads -> ClosePlaces]
        BY <2>6 DEF SendAddEvent
      <3> QED BY <3>1, <3>2, <3>3, <2>6 DEF SendAddEvent
    <2>7. CASE EndUpdate  BY <2>7 DEF EndUpdate
    <2>8. CASE DeleteSession  BY <2>8 DEF DeleteSession
    <2>9. CASE ReleaseSession  BY <2>9 DEF ReleaseSession
    <2> QED BY <1>5, <2>1, <2>2, <2>3, <2>4, <2>5, <2>6, <2>7, <2>8, <2>9 DEF WorldSession
  <1>6. CASE WorldLoop
    <2>1. ASSUME NEW c \in Clients, NEW flag \in KickFlags, KickSession(c, flag) PROVE TypeOK'
      BY <2>1 DEF KickSession
    <2>2. CASE UpdateSessions  BY <2>2 DEF UpdateSessions
    <2>3. CASE EndUpdateSessions  BY <2>3 DEF EndUpdateSessions
    <2>4. CASE AllOffline  BY <2>4 DEF AllOffline
    <2>5. CASE OfflineEnd  BY <2>5 DEF OfflineEnd
    <2>6. ASSUME NEW c \in Clients, NextSession(c) PROVE TypeOK'  BY <2>6 DEF NextSession
    <2>7. ASSUME NEW c \in Clients, OfflineSession(c) PROVE TypeOK'  BY <2>7 DEF OfflineSession
    <2> QED BY <1>6, <2>1, <2>2, <2>3, <2>4, <2>5, <2>6, <2>7 DEF WorldLoop
  <1>7. CASE Signal
    BY <1>7 DEF Signal
  <1>8. CASE UNCHANGED vars
    BY <1>8 DEF vars
  <1> QED BY <1>1, <1>2, <1>3, <1>4, <1>5, <1>6, <1>7, <1>8 DEF Next

(* Whatever a thread works on, or has still to visit, was accepted.          *)
LEMMA KnownStep == TypeOK /\ InvKnown /\ [Next]_vars => InvKnown'
  <1> SUFFICES ASSUME TypeOK, InvKnown, [Next]_vars PROVE InvKnown'
    OBVIOUS
  <1> USE NetAssumption DEF TypeOK, InvKnown, Known, Working, objVars, sessVars, ctlVars, At,
        Goto, CallClose, Threads, GoOffline
  <1>1. ASSUME NEW t \in Threads, CloseSocket(t) PROVE InvKnown'
    <2>1. CASE CloseEnter(t)  BY <2>1 DEF CloseEnter
    <2>2. CASE CloseDelRead(t)  BY <2>2 DEF CloseDelRead
    <2>3. CASE CloseDelWrite(t)  BY <2>3 DEF CloseDelWrite
    <2>4. CASE CloseFd(t)  BY <2>4 DEF CloseFd
    <2>5. CASE CloseClearSess(t)  BY <2>5 DEF CloseClearSess
    <2> QED BY <1>1, <2>1, <2>2, <2>3, <2>4, <2>5 DEF CloseSocket
  <1>2. CASE NetCallback
    <2>1. CASE OnRead  BY <2>1 DEF OnRead
    <2>2. CASE OnReadPacket  BY <2>2 DEF OnReadPacket
    <2>3. CASE OnReadDone  BY <2>3 DEF OnReadDone
    <2>4. CASE OnReadEnd  BY <2>4 DEF OnReadEnd
    <2>5. CASE OnWrite  BY <2>5 DEF OnWrite
    <2>6. CASE OnWriteSent  BY <2>6 DEF OnWriteSent
    <2>7. CASE OnWriteAgain  BY <2>7 DEF OnWriteAgain
    <2>8. CASE OnWriteEnd  BY <2>8 DEF OnWriteEnd
    <2>9. CASE DeRefClient  BY <2>9 DEF DeRefClient
    <2>10. CASE Return  BY <2>10 DEF Return
    <2> QED BY <1>2, <2>1, <2>2, <2>3, <2>4, <2>5, <2>6, <2>7, <2>8, <2>9, <2>10 DEF NetCallback
  <1>3. CASE NetTimer
    <2>1. ASSUME NEW c \in Clients, CheckAsyncFlag(c) PROVE InvKnown'
      BY <2>1 DEF CheckAsyncFlag
    <2>2. ASSUME NEW c \in Clients, SweepClient(c) PROVE InvKnown'  BY <2>2 DEF SweepClient
    <2>3. CASE CheckFlushed  BY <2>3 DEF CheckFlushed
    <2>4. CASE CheckSweep  BY <2>4 DEF CheckSweep
    <2>5. CASE OnTimerEnd  BY <2>5 DEF OnTimerEnd
    <2> QED BY <1>3, <2>1, <2>2, <2>3, <2>4, <2>5 DEF NetTimer
  <1>4. CASE Dispatch
    <2>1. ASSUME NEW c \in Clients, NEW f \in Fds, OnAccept(c, f) PROVE InvKnown'
      BY <2>1 DEF OnAccept
    <2>2. ASSUME NEW c \in Clients, DispatchRead(c) PROVE InvKnown'  BY <2>2 DEF DispatchRead
    <2>3. ASSUME NEW c \in Clients, DispatchWrite(c) PROVE InvKnown'  BY <2>3 DEF DispatchWrite
    <2>4. CASE OnTimer  BY <2>4 DEF OnTimer
    <2> QED BY <1>4, <2>1, <2>2, <2>3, <2>4 DEF Dispatch
  <1>5. CASE WorldSession
    <2>1. CASE TakePacket  BY <2>1 DEF TakePacket
    <2>2. CASE Process  BY <2>2 DEF Process
    <2>3. CASE SendCheck  BY <2>3 DEF SendCheck
    <2>4. CASE SendQueue  BY <2>4 DEF SendQueue
    <2>5. CASE SendDelEvent  BY <2>5 DEF SendDelEvent
    <2>6. CASE SendAddEvent  BY <2>6 DEF SendAddEvent
    <2>7. CASE EndUpdate  BY <2>7 DEF EndUpdate
    <2>8. CASE DeleteSession  BY <2>8 DEF DeleteSession
    <2>9. CASE ReleaseSession  BY <2>9 DEF ReleaseSession
    <2> QED BY <1>5, <2>1, <2>2, <2>3, <2>4, <2>5, <2>6, <2>7, <2>8, <2>9 DEF WorldSession
  <1>6. CASE WorldLoop
    <2>1. ASSUME NEW c \in Clients, NEW flag \in KickFlags, KickSession(c, flag) PROVE InvKnown'
      BY <2>1 DEF KickSession
    <2>2. CASE UpdateSessions  BY <2>2 DEF UpdateSessions
    <2>3. CASE EndUpdateSessions  BY <2>3 DEF EndUpdateSessions
    <2>4. CASE AllOffline  BY <2>4 DEF AllOffline
    <2>5. CASE OfflineEnd  BY <2>5 DEF OfflineEnd
    <2>6. ASSUME NEW c \in Clients, NextSession(c) PROVE InvKnown'  BY <2>6 DEF NextSession
    <2>7. ASSUME NEW c \in Clients, OfflineSession(c) PROVE InvKnown'
      BY <2>7 DEF OfflineSession
    <2> QED BY <1>6, <2>1, <2>2, <2>3, <2>4, <2>5, <2>6, <2>7 DEF WorldLoop
  <1>7. CASE Signal
    BY <1>7 DEF Signal
  <1>8. CASE UNCHANGED vars
    BY <1>8 DEF vars
  <1> QED BY <1>1, <1>2, <1>3, <1>4, <1>5, <1>6, <1>7, <1>8 DEF Next

(* m_mutexClose: CloseSocket is entered when the other thread is not inside.  *)
LEMMA CloserStep == TypeOK /\ InvKnown /\ InvCloser /\ [Next]_vars => InvCloser'
  <1> SUFFICES ASSUME TypeOK, InvKnown, InvCloser, [Next]_vars PROVE InvCloser'
    OBVIOUS
  <1> USE NetAssumption DEF TypeOK, InvKnown, Known, InvCloser, HoldsClose, Past, objVars,
        sessVars, ctlVars, At, Goto, CallClose, Threads
  <1>1. ASSUME NEW t \in Threads, CloseSocket(t) PROVE InvCloser'
    <2>1. CASE CloseEnter(t)  BY <2>1 DEF CloseEnter
    <2>2. CASE CloseDelRead(t)  BY <2>2 DEF CloseDelRead
    <2>3. CASE CloseDelWrite(t)  BY <2>3 DEF CloseDelWrite
    <2>4. CASE CloseFd(t)  BY <2>4 DEF CloseFd
    <2>5. CASE CloseClearSess(t)  BY <2>5 DEF CloseClearSess
    <2> QED BY <1>1, <2>1, <2>2, <2>3, <2>4, <2>5 DEF CloseSocket
  <1>2. CASE NetCallback
    <2>1. CASE OnRead  BY <2>1 DEF OnRead
    <2>2. CASE OnReadPacket  BY <2>2 DEF OnReadPacket
    <2>3. CASE OnReadDone  BY <2>3 DEF OnReadDone
    <2>4. CASE OnReadEnd  BY <2>4 DEF OnReadEnd
    <2>5. CASE OnWrite  BY <2>5 DEF OnWrite
    <2>6. CASE OnWriteSent  BY <2>6 DEF OnWriteSent
    <2>7. CASE OnWriteAgain  BY <2>7 DEF OnWriteAgain
    <2>8. CASE OnWriteEnd  BY <2>8 DEF OnWriteEnd
    <2>9. CASE DeRefClient  BY <2>9 DEF DeRefClient
    <2>10. CASE Return  BY <2>10 DEF Return
    <2> QED BY <1>2, <2>1, <2>2, <2>3, <2>4, <2>5, <2>6, <2>7, <2>8, <2>9, <2>10 DEF NetCallback
  <1>3. CASE NetTimer
    <2>1. ASSUME NEW c \in Clients, CheckAsyncFlag(c) PROVE InvCloser'
      BY <2>1 DEF CheckAsyncFlag
    <2>2. ASSUME NEW c \in Clients, SweepClient(c) PROVE InvCloser'  BY <2>2 DEF SweepClient
    <2>3. CASE CheckFlushed  BY <2>3 DEF CheckFlushed
    <2>4. CASE CheckSweep  BY <2>4 DEF CheckSweep
    <2>5. CASE OnTimerEnd  BY <2>5 DEF OnTimerEnd
    <2> QED BY <1>3, <2>1, <2>2, <2>3, <2>4, <2>5 DEF NetTimer
  <1>4. CASE Dispatch
    <2>1. ASSUME NEW c \in Clients, NEW f \in Fds, OnAccept(c, f) PROVE InvCloser'
      BY <2>1 DEF OnAccept
    <2>2. ASSUME NEW c \in Clients, DispatchRead(c) PROVE InvCloser'  BY <2>2 DEF DispatchRead
    <2>3. ASSUME NEW c \in Clients, DispatchWrite(c) PROVE InvCloser'  BY <2>3 DEF DispatchWrite
    <2>4. CASE OnTimer  BY <2>4 DEF OnTimer
    <2> QED BY <1>4, <2>1, <2>2, <2>3, <2>4 DEF Dispatch
  <1>5. CASE WorldSession
    <2>1. CASE TakePacket  BY <2>1 DEF TakePacket
    <2>2. CASE Process  BY <2>2 DEF Process
    <2>3. CASE SendCheck  BY <2>3 DEF SendCheck
    <2>4. CASE SendQueue  BY <2>4 DEF SendQueue
    <2>5. CASE SendDelEvent  BY <2>5 DEF SendDelEvent
    <2>6. CASE SendAddEvent  BY <2>6 DEF SendAddEvent
    <2>7. CASE EndUpdate  BY <2>7 DEF EndUpdate
    <2>8. CASE DeleteSession  BY <2>8 DEF DeleteSession
    <2>9. CASE ReleaseSession  BY <2>9 DEF ReleaseSession
    <2> QED BY <1>5, <2>1, <2>2, <2>3, <2>4, <2>5, <2>6, <2>7, <2>8, <2>9 DEF WorldSession
  <1>6. CASE WorldLoop
    <2>1. ASSUME NEW c \in Clients, NEW flag \in KickFlags, KickSession(c, flag) PROVE InvCloser'
      BY <2>1 DEF KickSession
    <2>2. CASE UpdateSessions  BY <2>2 DEF UpdateSessions
    <2>3. CASE EndUpdateSessions  BY <2>3 DEF EndUpdateSessions
    <2>4. CASE AllOffline  BY <2>4 DEF AllOffline
    <2>5. CASE OfflineEnd  BY <2>5 DEF OfflineEnd
    <2>6. ASSUME NEW c \in Clients, NextSession(c) PROVE InvCloser'  BY <2>6 DEF NextSession
    <2>7. ASSUME NEW c \in Clients, OfflineSession(c) PROVE InvCloser'
      BY <2>7 DEF OfflineSession
    <2> QED BY <1>6, <2>1, <2>2, <2>3, <2>4, <2>5, <2>6, <2>7 DEF WorldLoop
  <1>7. CASE Signal
    BY <1>7 DEF Signal
  <1>8. CASE UNCHANGED vars
    BY <1>8 DEF vars
  <1> QED BY <1>1, <1>2, <1>3, <1>4, <1>5, <1>6, <1>7, <1>8 DEF Next

(* The descriptor of a connection stays its own until its closer closes it.  *)
LEMMA OwnerStep == TypeOK /\ InvKnown /\ InvCloser /\ InvOwner /\ [Next]_vars => InvOwner'
  <1> SUFFICES ASSUME TypeOK, InvKnown, InvCloser, InvOwner, [Next]_vars PROVE InvOwner'
    OBVIOUS
  <1> USE NetAssumption DEF TypeOK, InvKnown, Known, InvCloser, InvOwner, HoldsClose, Past,
        objVars, sessVars, ctlVars, At, Goto, CallClose, Threads
  <1>1. ASSUME NEW t \in Threads, CloseSocket(t) PROVE InvOwner'
    <2>1. CASE CloseEnter(t)  BY <2>1 DEF CloseEnter
    <2>2. CASE CloseDelRead(t)  BY <2>2 DEF CloseDelRead
    <2>3. CASE CloseDelWrite(t)  BY <2>3 DEF CloseDelWrite
    <2>4. CASE CloseFd(t)  BY <2>4 DEF CloseFd
    <2>5. CASE CloseClearSess(t)  BY <2>5 DEF CloseClearSess
    <2> QED BY <1>1, <2>1, <2>2, <2>3, <2>4, <2>5 DEF CloseSocket
  <1>2. CASE NetCallback
    <2>1. CASE OnRead  BY <2>1 DEF OnRead
    <2>2. CASE OnReadPacket  BY <2>2 DEF OnReadPacket
    <2>3. CASE OnReadDone  BY <2>3 DEF OnReadDone
    <2>4. CASE OnReadEnd  BY <2>4 DEF OnReadEnd
    <2>5. CASE OnWrite  BY <2>5 DEF OnWrite
    <2>6. CASE OnWriteSent  BY <2>6 DEF OnWriteSent
    <2>7. CASE OnWriteAgain  BY <2>7 DEF OnWriteAgain
    <2>8. CASE OnWriteEnd  BY <2>8 DEF OnWriteEnd
    <2>9. CASE DeRefClient  BY <2>9 DEF DeRefClient
    <2>10. CASE Return  BY <2>10 DEF Return
    <2> QED BY <1>2, <2>1, <2>2, <2>3, <2>4, <2>5, <2>6, <2>7, <2>8, <2>9, <2>10 DEF NetCallback
  <1>3. CASE NetTimer
    <2>1. ASSUME NEW c \in Clients, CheckAsyncFlag(c) PROVE InvOwner'
      BY <2>1 DEF CheckAsyncFlag
    <2>2. ASSUME NEW c \in Clients, SweepClient(c) PROVE InvOwner'  BY <2>2 DEF SweepClient
    <2>3. CASE CheckFlushed  BY <2>3 DEF CheckFlushed
    <2>4. CASE CheckSweep  BY <2>4 DEF CheckSweep
    <2>5. CASE OnTimerEnd  BY <2>5 DEF OnTimerEnd
    <2> QED BY <1>3, <2>1, <2>2, <2>3, <2>4, <2>5 DEF NetTimer
  <1>4. CASE Dispatch
    <2>1. ASSUME NEW c \in Clients, NEW f \in Fds, OnAccept(c, f) PROVE InvOwner'
      BY <2>1 DEF OnAccept
    <2>2. ASSUME NEW c \in Clients, DispatchRead(c) PROVE InvOwner'  BY <2>2 DEF DispatchRead
    <2>3. ASSUME NEW c \in Clients, DispatchWrite(c) PROVE InvOwner'  BY <2>3 DEF DispatchWrite
    <2>4. CASE OnTimer  BY <2>4 DEF OnTimer
    <2> QED BY <1>4, <2>1, <2>2, <2>3, <2>4 DEF Dispatch
  <1>5. CASE WorldSession
    <2>1. CASE TakePacket  BY <2>1 DEF TakePacket
    <2>2. CASE Process  BY <2>2 DEF Process
    <2>3. CASE SendCheck  BY <2>3 DEF SendCheck
    <2>4. CASE SendQueue  BY <2>4 DEF SendQueue
    <2>5. CASE SendDelEvent  BY <2>5 DEF SendDelEvent
    <2>6. CASE SendAddEvent  BY <2>6 DEF SendAddEvent
    <2>7. CASE EndUpdate  BY <2>7 DEF EndUpdate
    <2>8. CASE DeleteSession  BY <2>8 DEF DeleteSession
    <2>9. CASE ReleaseSession  BY <2>9 DEF ReleaseSession, Working
    <2> QED BY <1>5, <2>1, <2>2, <2>3, <2>4, <2>5, <2>6, <2>7, <2>8, <2>9 DEF WorldSession
  <1>6. CASE WorldLoop
    <2>1. ASSUME NEW c \in Clients, NEW flag \in KickFlags, KickSession(c, flag) PROVE InvOwner'
      BY <2>1 DEF KickSession
    <2>2. CASE UpdateSessions  BY <2>2 DEF UpdateSessions
    <2>3. CASE EndUpdateSessions  BY <2>3 DEF EndUpdateSessions
    <2>4. CASE AllOffline  BY <2>4 DEF AllOffline
    <2>5. CASE OfflineEnd  BY <2>5 DEF OfflineEnd
    <2>6. ASSUME NEW c \in Clients, NextSession(c) PROVE InvOwner'  BY <2>6 DEF NextSession
    <2>7. ASSUME NEW c \in Clients, OfflineSession(c) PROVE InvOwner'
      BY <2>7 DEF OfflineSession
    <2> QED BY <1>6, <2>1, <2>2, <2>3, <2>4, <2>5, <2>6, <2>7 DEF WorldLoop
  <1>7. CASE Signal
    BY <1>7 DEF Signal
  <1>8. CASE UNCHANGED vars
    BY <1>8 DEF vars
  <1> QED BY <1>1, <1>2, <1>3, <1>4, <1>5, <1>6, <1>7, <1>8 DEF Next

(* m_pSession is cleared before the session it points to is deleted.         *)
LEMMA SessionStep == TypeOK /\ InvKnown /\ InvSession /\ [Next]_vars => InvSession'
  <1> SUFFICES ASSUME TypeOK, InvKnown, InvSession, [Next]_vars PROVE InvSession'
    OBVIOUS
  <1> USE NetAssumption DEF TypeOK, InvKnown, Known, InvSession, SessionHolds, Past, objVars,
        sessVars, ctlVars, At, Goto, CallClose, Threads
  <1>1. ASSUME NEW t \in Threads, CloseSocket(t) PROVE InvSession'
    <2>1. CASE CloseEnter(t)  BY <2>1 DEF CloseEnter
    <2>2. CASE CloseDelRead(t)  BY <2>2 DEF CloseDelRead
    <2>3. CASE CloseDelWrite(t)  BY <2>3 DEF CloseDelWrite
    <2>4. CASE CloseFd(t)  BY <2>4 DEF CloseFd
    <2>5. CASE CloseClearSess(t)  BY <2>5 DEF CloseClearSess
    <2> QED BY <1>1, <2>1, <2>2, <2>3, <2>4, <2>5 DEF CloseSocket
  <1>2. CASE NetCallback
    <2>1. CASE OnRead  BY <2>1 DEF OnRead
    <2>2. CASE OnReadPacket  BY <2>2 DEF OnReadPacket
    <2>3. CASE OnReadDone  BY <2>3 DEF OnReadDone
    <2>4. CASE OnReadEnd  BY <2>4 DEF OnReadEnd
    <2>5. CASE OnWrite  BY <2>5 DEF OnWrite
    <2>6. CASE OnWriteSent  BY <2>6 DEF OnWriteSent
    <2>7. CASE OnWriteAgain  BY <2>7 DEF OnWriteAgain
    <2>8. CASE OnWriteEnd  BY <2>8 DEF OnWriteEnd
    <2>9. CASE DeRefClient  BY <2>9 DEF DeRefClient
    <2>10. CASE Return  BY <2>10 DEF Return
    <2> QED BY <1>2, <2>1, <2>2, <2>3, <2>4, <2>5, <2>6, <2>7, <2>8, <2>9, <2>10 DEF NetCallback
  <1>3. CASE NetTimer
    <2>1. ASSUME NEW c \in Clients, CheckAsyncFlag(c) PROVE InvSession'
      BY <2>1 DEF CheckAsyncFlag
    <2>2. ASSUME NEW c \in Clients, SweepClient(c) PROVE InvSession'  BY <2>2 DEF SweepClient
    <2>3. CASE CheckFlushed  BY <2>3 DEF CheckFlushed
    <2>4. CASE CheckSweep  BY <2>4 DEF CheckSweep
    <2>5. CASE OnTimerEnd  BY <2>5 DEF OnTimerEnd
    <2> QED BY <1>3, <2>1, <2>2, <2>3, <2>4, <2>5 DEF NetTimer
  <1>4. CASE Dispatch
    <2>1. ASSUME NEW c \in Clients, NEW f \in Fds, OnAccept(c, f) PROVE InvSession'
      <3>1. /\ UNCHANGED <<cur, closing, pc>>
            /\ \A d \in Clients \ {c} : /\ sessPtr'[d] = sessPtr[d] /\ isClose'[d] = isClose[d]
                                       /\ sess'[d] = sess[d]
        BY <2>1 DEF OnAccept
      <3>2. sessPtr'[c] => sess'[c] = "queued" /\ ~isClose'[c]
        BY <2>1 DEF OnAccept
      <3>3. pc["world"] = "release" => cur["world"] # c
        BY <2>1 DEF OnAccept, Working
      <3>4. pc["world"] = "release" /\ closing["world"] # "enter" => isClose'[cur["world"]]
        BY <3>1, <3>3 DEF Working
      <3>5. ASSUME NEW d \in Clients, sessPtr'[d]
            PROVE  /\ SessionHolds(d)' \/ (cur["net"] = d /\ closing["net"] \in Past)
                   /\ isClose'[d] => \E t \in Threads : cur[t] = d /\ closing[t] \in Past
        BY <3>1, <3>2, <3>5
      <3> QED BY <3>1, <3>4, <3>5
    <2>2. ASSUME NEW c \in Clients, DispatchRead(c) PROVE InvSession'  BY <2>2 DEF DispatchRead
    <2>3. ASSUME NEW c \in Clients, DispatchWrite(c) PROVE InvSession'
      BY <2>3 DEF DispatchWrite
    <2>4. CASE OnTimer  BY <2>4 DEF OnTimer
    <2> QED BY <1>4, <2>1, <2>2, <2>3, <2>4 DEF Dispatch
  <1>5. CASE WorldSession
    <2>1. CASE TakePacket  BY <2>1 DEF TakePacket
    <2>2. CASE Process  BY <2>2 DEF Process
    <2>3. CASE SendCheck  BY <2>3 DEF SendCheck
    <2>4. CASE SendQueue  BY <2>4 DEF SendQueue
    <2>5. CASE SendDelEvent  BY <2>5 DEF SendDelEvent
    <2>6. CASE SendAddEvent
      <3>1. /\ UNCHANGED <<sessPtr, sess, isClose, cur>>
            /\ closing' = closing \/ closing' = [closing EXCEPT !["world"] = "enter"]
            /\ pc' = [pc EXCEPT !["world"] = "update"]
            /\ closing["world"] = "idle"
        BY <2>6 DEF SendAddEvent
      <3> QED BY <3>1
    <2>7. CASE EndUpdate  BY <2>7 DEF EndUpdate
    <2>8. CASE DeleteSession  BY <2>8 DEF DeleteSession
    <2>9. CASE ReleaseSession  BY <2>9 DEF ReleaseSession
    <2> QED BY <1>5, <2>1, <2>2, <2>3, <2>4, <2>5, <2>6, <2>7, <2>8, <2>9 DEF WorldSession
  <1>6. CASE WorldLoop
    <2>1. ASSUME NEW c \in Clients, NEW flag \in KickFlags, KickSession(c, flag) PROVE InvSession'
      BY <2>1 DEF KickSession
    <2>2. CASE UpdateSessions  BY <2>2 DEF UpdateSessions
    <2>3. CASE EndUpdateSessions  BY <2>3 DEF EndUpdateSessions
    <2>4. CASE AllOffline  BY <2>4 DEF AllOffline
    <2>5. CASE OfflineEnd  BY <2>5 DEF OfflineEnd
    <2>6. ASSUME NEW c \in Clients, NextSession(c) PROVE InvSession'  BY <2>6 DEF NextSession
    <2>7. ASSUME NEW c \in Clients, OfflineSession(c) PROVE InvSession'
      BY <2>7 DEF OfflineSession
    <2> QED BY <1>6, <2>1, <2>2, <2>3, <2>4, <2>5, <2>6, <2>7 DEF WorldLoop
  <1>7. CASE Signal
    BY <1>7 DEF Signal
  <1>8. CASE UNCHANGED vars
    BY <1>8 DEF vars
  <1> QED BY <1>1, <1>2, <1>3, <1>4, <1>5, <1>6, <1>7, <1>8 DEF Next

(* A session goes offline when the world thread starts to delete it.         *)
LEMMA OfflineStep == TypeOK /\ InvKnown /\ InvOffline /\ [Next]_vars => InvOffline'
  <1> SUFFICES ASSUME TypeOK, InvKnown, InvOffline, [Next]_vars PROVE InvOffline'
    OBVIOUS
  <1> USE NetAssumption DEF TypeOK, InvKnown, Known, Working, InvOffline, objVars, sessVars,
        ctlVars, At, Goto, CallClose, Threads, GoOffline
  <1>1. ASSUME NEW t \in Threads, CloseSocket(t) PROVE InvOffline'
    <2>1. CASE CloseEnter(t)  BY <2>1 DEF CloseEnter
    <2>2. CASE CloseDelRead(t)  BY <2>2 DEF CloseDelRead
    <2>3. CASE CloseDelWrite(t)  BY <2>3 DEF CloseDelWrite
    <2>4. CASE CloseFd(t)  BY <2>4 DEF CloseFd
    <2>5. CASE CloseClearSess(t)  BY <2>5 DEF CloseClearSess
    <2> QED BY <1>1, <2>1, <2>2, <2>3, <2>4, <2>5 DEF CloseSocket
  <1>2. CASE NetCallback
    <2>1. CASE OnRead  BY <2>1 DEF OnRead
    <2>2. CASE OnReadPacket  BY <2>2 DEF OnReadPacket
    <2>3. CASE OnReadDone  BY <2>3 DEF OnReadDone
    <2>4. CASE OnReadEnd  BY <2>4 DEF OnReadEnd
    <2>5. CASE OnWrite  BY <2>5 DEF OnWrite
    <2>6. CASE OnWriteSent  BY <2>6 DEF OnWriteSent
    <2>7. CASE OnWriteAgain  BY <2>7 DEF OnWriteAgain
    <2>8. CASE OnWriteEnd  BY <2>8 DEF OnWriteEnd
    <2>9. CASE DeRefClient  BY <2>9 DEF DeRefClient
    <2>10. CASE Return  BY <2>10 DEF Return
    <2> QED BY <1>2, <2>1, <2>2, <2>3, <2>4, <2>5, <2>6, <2>7, <2>8, <2>9, <2>10 DEF NetCallback
  <1>3. CASE NetTimer
    <2>1. ASSUME NEW c \in Clients, CheckAsyncFlag(c) PROVE InvOffline'
      BY <2>1 DEF CheckAsyncFlag
    <2>2. ASSUME NEW c \in Clients, SweepClient(c) PROVE InvOffline'  BY <2>2 DEF SweepClient
    <2>3. CASE CheckFlushed  BY <2>3 DEF CheckFlushed
    <2>4. CASE CheckSweep  BY <2>4 DEF CheckSweep
    <2>5. CASE OnTimerEnd  BY <2>5 DEF OnTimerEnd
    <2> QED BY <1>3, <2>1, <2>2, <2>3, <2>4, <2>5 DEF NetTimer
  <1>4. CASE Dispatch
    <2>1. ASSUME NEW c \in Clients, NEW f \in Fds, OnAccept(c, f) PROVE InvOffline'
      BY <2>1 DEF OnAccept
    <2>2. ASSUME NEW c \in Clients, DispatchRead(c) PROVE InvOffline'  BY <2>2 DEF DispatchRead
    <2>3. ASSUME NEW c \in Clients, DispatchWrite(c) PROVE InvOffline'
      BY <2>3 DEF DispatchWrite
    <2>4. CASE OnTimer  BY <2>4 DEF OnTimer
    <2> QED BY <1>4, <2>1, <2>2, <2>3, <2>4 DEF Dispatch
  <1>5. CASE WorldSession
    <2>1. CASE TakePacket  BY <2>1 DEF TakePacket
    <2>2. CASE Process  BY <2>2 DEF Process
    <2>3. CASE SendCheck  BY <2>3 DEF SendCheck
    <2>4. CASE SendQueue  BY <2>4 DEF SendQueue
    <2>5. CASE SendDelEvent  BY <2>5 DEF SendDelEvent
    <2>6. CASE SendAddEvent  BY <2>6 DEF SendAddEvent
    <2>7. CASE EndUpdate  BY <2>7 DEF EndUpdate
    <2>8. CASE DeleteSession  BY <2>8 DEF DeleteSession
    <2>9. CASE ReleaseSession  BY <2>9 DEF ReleaseSession
    <2> QED BY <1>5, <2>1, <2>2, <2>3, <2>4, <2>5, <2>6, <2>7, <2>8, <2>9 DEF WorldSession
  <1>6. CASE WorldLoop
    <2>1. ASSUME NEW c \in Clients, NEW flag \in KickFlags, KickSession(c, flag) PROVE InvOffline'
      BY <2>1 DEF KickSession
    <2>2. CASE UpdateSessions  BY <2>2 DEF UpdateSessions
    <2>3. CASE EndUpdateSessions  BY <2>3 DEF EndUpdateSessions
    <2>4. CASE AllOffline  BY <2>4 DEF AllOffline
    <2>5. CASE OfflineEnd  BY <2>5 DEF OfflineEnd
    <2>6. ASSUME NEW c \in Clients, NextSession(c) PROVE InvOffline'  BY <2>6 DEF NextSession
    <2>7. ASSUME NEW c \in Clients, OfflineSession(c) PROVE InvOffline'
      BY <2>7 DEF OfflineSession
    <2> QED BY <1>6, <2>1, <2>2, <2>3, <2>4, <2>5, <2>6, <2>7 DEF WorldLoop
  <1>7. CASE Signal
    BY <1>7 DEF Signal
  <1>8. CASE UNCHANGED vars
    BY <1>8 DEF vars
  <1> QED BY <1>1, <1>2, <1>3, <1>4, <1>5, <1>6, <1>7, <1>8 DEF Next

(* The control of the two threads.                                           *)
LEMMA PlaceStep == TypeOK /\ InvPlace /\ [Next]_vars => InvPlace'
  <1> SUFFICES ASSUME TypeOK, InvPlace, [Next]_vars PROVE InvPlace'
    OBVIOUS
  <1> USE NetAssumption DEF TypeOK, InvPlace, objVars, sessVars, ctlVars, At, Goto, CallClose,
        Threads
  <1>1. ASSUME NEW t \in Threads, CloseSocket(t) PROVE InvPlace'
    <2>1. CASE CloseEnter(t)  BY <2>1 DEF CloseEnter
    <2>2. CASE CloseDelRead(t)  BY <2>2 DEF CloseDelRead
    <2>3. CASE CloseDelWrite(t)  BY <2>3 DEF CloseDelWrite
    <2>4. CASE CloseFd(t)  BY <2>4 DEF CloseFd
    <2>5. CASE CloseClearSess(t)  BY <2>5 DEF CloseClearSess
    <2> QED BY <1>1, <2>1, <2>2, <2>3, <2>4, <2>5 DEF CloseSocket
  <1>2. CASE NetCallback
    <2>1. CASE OnRead  BY <2>1 DEF OnRead
    <2>2. CASE OnReadPacket  BY <2>2 DEF OnReadPacket
    <2>3. CASE OnReadDone  BY <2>3 DEF OnReadDone
    <2>4. CASE OnReadEnd  BY <2>4 DEF OnReadEnd
    <2>5. CASE OnWrite  BY <2>5 DEF OnWrite
    <2>6. CASE OnWriteSent  BY <2>6 DEF OnWriteSent
    <2>7. CASE OnWriteAgain  BY <2>7 DEF OnWriteAgain
    <2>8. CASE OnWriteEnd  BY <2>8 DEF OnWriteEnd
    <2>9. CASE DeRefClient  BY <2>9 DEF DeRefClient
    <2>10. CASE Return  BY <2>10 DEF Return
    <2> QED BY <1>2, <2>1, <2>2, <2>3, <2>4, <2>5, <2>6, <2>7, <2>8, <2>9, <2>10 DEF NetCallback
  <1>3. CASE NetTimer
    <2>1. ASSUME NEW c \in Clients, CheckAsyncFlag(c) PROVE InvPlace'
      BY <2>1 DEF CheckAsyncFlag
    <2>2. ASSUME NEW c \in Clients, SweepClient(c) PROVE InvPlace'  BY <2>2 DEF SweepClient
    <2>3. CASE CheckFlushed  BY <2>3 DEF CheckFlushed
    <2>4. CASE CheckSweep  BY <2>4 DEF CheckSweep
    <2>5. CASE OnTimerEnd  BY <2>5 DEF OnTimerEnd
    <2> QED BY <1>3, <2>1, <2>2, <2>3, <2>4, <2>5 DEF NetTimer
  <1>4. CASE Dispatch
    <2>1. ASSUME NEW c \in Clients, NEW f \in Fds, OnAccept(c, f) PROVE InvPlace'
      BY <2>1 DEF OnAccept
    <2>2. ASSUME NEW c \in Clients, DispatchRead(c) PROVE InvPlace'  BY <2>2 DEF DispatchRead
    <2>3. ASSUME NEW c \in Clients, DispatchWrite(c) PROVE InvPlace'  BY <2>3 DEF DispatchWrite
    <2>4. CASE OnTimer  BY <2>4 DEF OnTimer
    <2> QED BY <1>4, <2>1, <2>2, <2>3, <2>4 DEF Dispatch
  <1>5. CASE WorldSession
    <2>1. CASE TakePacket  BY <2>1 DEF TakePacket
    <2>2. CASE Process  BY <2>2 DEF Process
    <2>3. CASE SendCheck  BY <2>3 DEF SendCheck
    <2>4. CASE SendQueue  BY <2>4 DEF SendQueue
    <2>5. CASE SendDelEvent  BY <2>5 DEF SendDelEvent
    <2>6. CASE SendAddEvent  BY <2>6 DEF SendAddEvent
    <2>7. CASE EndUpdate  BY <2>7 DEF EndUpdate
    <2>8. CASE DeleteSession  BY <2>8 DEF DeleteSession
    <2>9. CASE ReleaseSession  BY <2>9 DEF ReleaseSession
    <2> QED BY <1>5, <2>1, <2>2, <2>3, <2>4, <2>5, <2>6, <2>7, <2>8, <2>9 DEF WorldSession
  <1>6. CASE WorldLoop
    <2>1. ASSUME NEW c \in Clients, NEW flag \in KickFlags, KickSession(c, flag) PROVE InvPlace'
      BY <2>1 DEF KickSession
    <2>2. CASE UpdateSessions  BY <2>2 DEF UpdateSessions
    <2>3. CASE EndUpdateSessions  BY <2>3 DEF EndUpdateSessions
    <2>4. CASE AllOffline  BY <2>4 DEF AllOffline
    <2>5. CASE OfflineEnd  BY <2>5 DEF OfflineEnd
    <2>6. ASSUME NEW c \in Clients, NextSession(c) PROVE InvPlace'  BY <2>6 DEF NextSession
    <2>7. ASSUME NEW c \in Clients, OfflineSession(c) PROVE InvPlace'
      BY <2>7 DEF OfflineSession
    <2> QED BY <1>6, <2>1, <2>2, <2>3, <2>4, <2>5, <2>6, <2>7 DEF WorldLoop
  <1>7. CASE Signal
    BY <1>7 DEF Signal
  <1>8. CASE UNCHANGED vars
    BY <1>8 DEF vars
  <1> QED BY <1>1, <1>2, <1>3, <1>4, <1>5, <1>6, <1>7, <1>8 DEF Next

(* The closer takes ev_read out of libevent before it closes the descriptor. *)
LEMMA QuietStep ==
  TypeOK /\ InvKnown /\ InvCloser /\ InvOwner /\ InvQuiet /\ [Next]_vars => InvQuiet'
  <1> SUFFICES ASSUME TypeOK, InvKnown, InvCloser, InvOwner, InvQuiet, [Next]_vars
               PROVE  InvQuiet'
    OBVIOUS
  <1> USE NetAssumption DEF TypeOK, InvKnown, Known, Working, InvCloser, InvOwner, InvQuiet,
        HoldsClose, Past, objVars, sessVars, ctlVars, At, Goto, CallClose, Threads
  <1>1. ASSUME NEW t \in Threads, CloseSocket(t) PROVE InvQuiet'
    <2>1. CASE CloseEnter(t)  BY <2>1 DEF CloseEnter
    <2>2. CASE CloseDelRead(t)  BY <2>2 DEF CloseDelRead
    <2>3. CASE CloseDelWrite(t)  BY <2>3 DEF CloseDelWrite
    <2>4. CASE CloseFd(t)  BY <2>4 DEF CloseFd
    <2>5. CASE CloseClearSess(t)  BY <2>5 DEF CloseClearSess
    <2> QED BY <1>1, <2>1, <2>2, <2>3, <2>4, <2>5 DEF CloseSocket
  <1>2. CASE NetCallback
    <2>1. CASE OnRead  BY <2>1 DEF OnRead
    <2>2. CASE OnReadPacket  BY <2>2 DEF OnReadPacket
    <2>3. CASE OnReadDone  BY <2>3 DEF OnReadDone
    <2>4. CASE OnReadEnd  BY <2>4 DEF OnReadEnd
    <2>5. CASE OnWrite  BY <2>5 DEF OnWrite
    <2>6. CASE OnWriteSent  BY <2>6 DEF OnWriteSent
    <2>7. CASE OnWriteAgain  BY <2>7 DEF OnWriteAgain
    <2>8. CASE OnWriteEnd  BY <2>8 DEF OnWriteEnd
    <2>9. CASE DeRefClient  BY <2>9 DEF DeRefClient
    <2>10. CASE Return  BY <2>10 DEF Return
    <2> QED BY <1>2, <2>1, <2>2, <2>3, <2>4, <2>5, <2>6, <2>7, <2>8, <2>9, <2>10 DEF NetCallback
  <1>3. CASE NetTimer
    <2>1. ASSUME NEW c \in Clients, CheckAsyncFlag(c) PROVE InvQuiet'
      BY <2>1 DEF CheckAsyncFlag
    <2>2. ASSUME NEW c \in Clients, SweepClient(c) PROVE InvQuiet'  BY <2>2 DEF SweepClient
    <2>3. CASE CheckFlushed  BY <2>3 DEF CheckFlushed
    <2>4. CASE CheckSweep  BY <2>4 DEF CheckSweep
    <2>5. CASE OnTimerEnd  BY <2>5 DEF OnTimerEnd
    <2> QED BY <1>3, <2>1, <2>2, <2>3, <2>4, <2>5 DEF NetTimer
  <1>4. CASE Dispatch
    <2>1. ASSUME NEW c \in Clients, NEW f \in Fds, OnAccept(c, f) PROVE InvQuiet'
      <3>1. /\ UNCHANGED <<pc, closing, cur>>
            /\ \A d \in Clients \ {c} : /\ isClose'[d] = isClose[d] /\ evRead'[d] = evRead[d]
                                       /\ obj'[d] = obj[d] /\ fd'[d] = fd[d]
            /\ \A g \in Fds \ {f} : owner'[g] = owner[g]
            /\ owner'[f] \in {c, None}
        BY <2>1 DEF OnAccept
      <3>2. /\ obj'[c] = "live" /\ fd'[c] = f
            /\ isClose'[c] => ~evRead'[c] /\ owner'[f] = None
            /\ obj[c] = "none" /\ \A g \in Fds : owner[g] # c
        BY <2>1 DEF OnAccept
      <3>3. \A d \in Clients : isClose'[d] /\ evRead'[d] =>
              \E t \in Threads : cur[t] = d /\ closing[t] = "delRead"
        BY <3>1, <3>2
      <3>4. ASSUME NEW g \in Fds, NEW d \in Clients, owner'[g] = d
            PROVE  /\ obj'[d] # "none" /\ fd'[d] = g
                   /\ isClose'[d] => \E t \in Threads : HoldsClose(t, d)
        BY <3>1, <3>2, <3>4
      <3>5. pc["net"] # "deref"
        BY <2>1 DEF OnAccept
      <3> QED BY <3>1, <3>3, <3>4, <3>5
    <2>2. ASSUME NEW c \in Clients, DispatchRead(c) PROVE InvQuiet'  BY <2>2 DEF DispatchRead
    <2>3. ASSUME NEW c \in Clients, DispatchWrite(c) PROVE InvQuiet'  BY <2>3 DEF DispatchWrite
    <2>4. CASE OnTimer  BY <2>4 DEF OnTimer
    <2> QED BY <1>4, <2>1, <2>2, <2>3, <2>4 DEF Dispatch
  <1>5. CASE WorldSession
    <2>1. CASE TakePacket  BY <2>1 DEF TakePacket
    <2>2. CASE Process  BY <2>2 DEF Process
    <2>3. CASE SendCheck  BY <2>3 DEF SendCheck
    <2>4. CASE SendQueue  BY <2>4 DEF SendQueue
    <2>5. CASE SendDelEvent  BY <2>5 DEF SendDelEvent
    <2>6. CASE SendAddEvent  BY <2>6 DEF SendAddEvent
    <2>7. CASE EndUpdate  BY <2>7 DEF EndUpdate
    <2>8. CASE DeleteSession  BY <2>8 DEF DeleteSession
    <2>9. CASE ReleaseSession  BY <2>9 DEF ReleaseSession
    <2> QED BY <1>5, <2>1, <2>2, <2>3, <2>4, <2>5, <2>6, <2>7, <2>8, <2>9 DEF WorldSession
  <1>6. CASE WorldLoop
    <2>1. ASSUME NEW c \in Clients, NEW flag \in KickFlags, KickSession(c, flag) PROVE InvQuiet'
      BY <2>1 DEF KickSession
    <2>2. CASE UpdateSessions  BY <2>2 DEF UpdateSessions
    <2>3. CASE EndUpdateSessions  BY <2>3 DEF EndUpdateSessions
    <2>4. CASE AllOffline  BY <2>4 DEF AllOffline
    <2>5. CASE OfflineEnd  BY <2>5 DEF OfflineEnd
    <2>6. ASSUME NEW c \in Clients, NextSession(c) PROVE InvQuiet'  BY <2>6 DEF NextSession
    <2>7. ASSUME NEW c \in Clients, OfflineSession(c) PROVE InvQuiet'
      BY <2>7 DEF OfflineSession
    <2> QED BY <1>6, <2>1, <2>2, <2>3, <2>4, <2>5, <2>6, <2>7 DEF WorldLoop
  <1>7. CASE Signal
    BY <1>7 DEF Signal
  <1>8. CASE UNCHANGED vars
    BY <1>8 DEF vars
  <1> QED BY <1>1, <1>2, <1>3, <1>4, <1>5, <1>6, <1>7, <1>8 DEF Next

(* The last holder frees, and by then the socket has been closed.            *)
LEMMA FreedStep ==
  TypeOK /\ InvKnown /\ InvOffline /\ InvPlace /\ InvQuiet /\ InvFreed /\ [Next]_vars => InvFreed'
  <1> SUFFICES ASSUME TypeOK, InvKnown, InvOffline, InvPlace, InvQuiet, InvFreed, [Next]_vars
               PROVE  InvFreed'
    OBVIOUS
  <1> USE NetAssumption DEF TypeOK, InvKnown, Known, Working, InvOffline, InvPlace, InvQuiet,
        InvFreed, HoldsClose, SessionHolds, objVars, sessVars, ctlVars, At, Goto, CallClose,
        Threads
  <1>1. ASSUME NEW t \in Threads, CloseSocket(t) PROVE InvFreed'
    <2>1. CASE CloseEnter(t)  BY <2>1 DEF CloseEnter
    <2>2. CASE CloseDelRead(t)  BY <2>2 DEF CloseDelRead
    <2>3. CASE CloseDelWrite(t)  BY <2>3 DEF CloseDelWrite
    <2>4. CASE CloseFd(t)  BY <2>4 DEF CloseFd
    <2>5. CASE CloseClearSess(t)  BY <2>5 DEF CloseClearSess
    <2> QED BY <1>1, <2>1, <2>2, <2>3, <2>4, <2>5 DEF CloseSocket
  <1>2. CASE NetCallback
    <2>1. CASE OnRead  BY <2>1 DEF OnRead
    <2>2. CASE OnReadPacket  BY <2>2 DEF OnReadPacket
    <2>3. CASE OnReadDone  BY <2>3 DEF OnReadDone
    <2>4. CASE OnReadEnd  BY <2>4 DEF OnReadEnd
    <2>5. CASE OnWrite  BY <2>5 DEF OnWrite
    <2>6. CASE OnWriteSent  BY <2>6 DEF OnWriteSent
    <2>7. CASE OnWriteAgain  BY <2>7 DEF OnWriteAgain
    <2>8. CASE OnWriteEnd  BY <2>8 DEF OnWriteEnd
    <2>9. CASE DeRefClient  BY <2>9 DEF DeRefClient
    <2>10. CASE Return  BY <2>10 DEF Return
    <2> QED BY <1>2, <2>1, <2>2, <2>3, <2>4, <2>5, <2>6, <2>7, <2>8, <2>9, <2>10 DEF NetCallback
  <1>3. CASE NetTimer
    <2>1. ASSUME NEW c \in Clients, CheckAsyncFlag(c) PROVE InvFreed'
      BY <2>1 DEF CheckAsyncFlag
    <2>2. ASSUME NEW c \in Clients, SweepClient(c) PROVE InvFreed'  BY <2>2 DEF SweepClient
    <2>3. CASE CheckFlushed  BY <2>3 DEF CheckFlushed
    <2>4. CASE CheckSweep  BY <2>4 DEF CheckSweep
    <2>5. CASE OnTimerEnd  BY <2>5 DEF OnTimerEnd
    <2> QED BY <1>3, <2>1, <2>2, <2>3, <2>4, <2>5 DEF NetTimer
  <1>4. CASE Dispatch
    <2>1. ASSUME NEW c \in Clients, NEW f \in Fds, OnAccept(c, f) PROVE InvFreed'
      BY <2>1 DEF OnAccept
    <2>2. ASSUME NEW c \in Clients, DispatchRead(c) PROVE InvFreed'  BY <2>2 DEF DispatchRead
    <2>3. ASSUME NEW c \in Clients, DispatchWrite(c) PROVE InvFreed'  BY <2>3 DEF DispatchWrite
    <2>4. CASE OnTimer  BY <2>4 DEF OnTimer
    <2> QED BY <1>4, <2>1, <2>2, <2>3, <2>4 DEF Dispatch
  <1>5. CASE WorldSession
    <2>1. CASE TakePacket  BY <2>1 DEF TakePacket
    <2>2. CASE Process  BY <2>2 DEF Process
    <2>3. CASE SendCheck  BY <2>3 DEF SendCheck
    <2>4. CASE SendQueue  BY <2>4 DEF SendQueue
    <2>5. CASE SendDelEvent  BY <2>5 DEF SendDelEvent
    <2>6. CASE SendAddEvent  BY <2>6 DEF SendAddEvent
    <2>7. CASE EndUpdate  BY <2>7 DEF EndUpdate
    <2>8. CASE DeleteSession  BY <2>8 DEF DeleteSession
    <2>9. CASE ReleaseSession  BY <2>9 DEF ReleaseSession
    <2> QED BY <1>5, <2>1, <2>2, <2>3, <2>4, <2>5, <2>6, <2>7, <2>8, <2>9 DEF WorldSession
  <1>6. CASE WorldLoop
    <2>1. ASSUME NEW c \in Clients, NEW flag \in KickFlags, KickSession(c, flag) PROVE InvFreed'
      BY <2>1 DEF KickSession
    <2>2. CASE UpdateSessions  BY <2>2 DEF UpdateSessions
    <2>3. CASE EndUpdateSessions  BY <2>3 DEF EndUpdateSessions
    <2>4. CASE AllOffline  BY <2>4 DEF AllOffline
    <2>5. CASE OfflineEnd  BY <2>5 DEF OfflineEnd
    <2>6. ASSUME NEW c \in Clients, NextSession(c) PROVE InvFreed'  BY <2>6 DEF NextSession
    <2>7. ASSUME NEW c \in Clients, OfflineSession(c) PROVE InvFreed'
      BY <2>7 DEF OfflineSession
    <2> QED BY <1>6, <2>1, <2>2, <2>3, <2>4, <2>5, <2>6, <2>7 DEF WorldLoop
  <1>7. CASE Signal
    BY <1>7 DEF Signal
  <1>8. CASE UNCHANGED vars
    BY <1>8 DEF vars
  <1> QED BY <1>1, <1>2, <1>3, <1>4, <1>5, <1>6, <1>7, <1>8 DEF Next

(* Only the net thread takes connections out of the map.                     *)
LEMMA CallbackStep ==
  TypeOK /\ InvKnown /\ InvPlace /\ InvQuiet /\ InvFreed /\ InvCallback /\ [Next]_vars => InvCallback'
  <1> SUFFICES ASSUME TypeOK, InvKnown, InvPlace, InvQuiet, InvFreed, InvCallback, [Next]_vars
               PROVE  InvCallback'
    OBVIOUS
  <1> USE NetAssumption DEF TypeOK, InvKnown, Known, Working, InvPlace, InvQuiet, InvFreed,
        InvCallback, HoldsClose, InCallback, CanDelete, objVars, sessVars, ctlVars, At, Goto,
        CallClose, Threads
  <1>1. ASSUME NEW t \in Threads, CloseSocket(t) PROVE InvCallback'
    <2>1. CASE CloseEnter(t)  BY <2>1 DEF CloseEnter
    <2>2. CASE CloseDelRead(t)  BY <2>2 DEF CloseDelRead
    <2>3. CASE CloseDelWrite(t)  BY <2>3 DEF CloseDelWrite
    <2>4. CASE CloseFd(t)  BY <2>4 DEF CloseFd
    <2>5. CASE CloseClearSess(t)  BY <2>5 DEF CloseClearSess
    <2> QED BY <1>1, <2>1, <2>2, <2>3, <2>4, <2>5 DEF CloseSocket
  <1>2. CASE NetCallback
    <2>1. CASE OnRead  BY <2>1 DEF OnRead
    <2>2. CASE OnReadPacket  BY <2>2 DEF OnReadPacket
    <2>3. CASE OnReadDone  BY <2>3 DEF OnReadDone
    <2>4. CASE OnReadEnd  BY <2>4 DEF OnReadEnd
    <2>5. CASE OnWrite  BY <2>5 DEF OnWrite
    <2>6. CASE OnWriteSent  BY <2>6 DEF OnWriteSent
    <2>7. CASE OnWriteAgain  BY <2>7 DEF OnWriteAgain
    <2>8. CASE OnWriteEnd  BY <2>8 DEF OnWriteEnd
    <2>9. CASE DeRefClient  BY <2>9 DEF DeRefClient
    <2>10. CASE Return  BY <2>10 DEF Return
    <2> QED BY <1>2, <2>1, <2>2, <2>3, <2>4, <2>5, <2>6, <2>7, <2>8, <2>9, <2>10 DEF NetCallback
  <1>3. CASE NetTimer
    <2>1. ASSUME NEW c \in Clients, CheckAsyncFlag(c) PROVE InvCallback'
      BY <2>1 DEF CheckAsyncFlag
    <2>2. ASSUME NEW c \in Clients, SweepClient(c) PROVE InvCallback'  BY <2>2 DEF SweepClient
    <2>3. CASE CheckFlushed  BY <2>3 DEF CheckFlushed
    <2>4. CASE CheckSweep  BY <2>4 DEF CheckSweep
    <2>5. CASE OnTimerEnd  BY <2>5 DEF OnTimerEnd
    <2> QED BY <1>3, <2>1, <2>2, <2>3, <2>4, <2>5 DEF NetTimer
  <1>4. CASE Dispatch
    <2>1. ASSUME NEW c \in Clients, NEW f \in Fds, OnAccept(c, f) PROVE InvCallback'
      BY <2>1 DEF OnAccept
    <2>2. ASSUME NEW c \in Clients, DispatchRead(c) PROVE InvCallback'  BY <2>2 DEF DispatchRead
    <2>3. ASSUME NEW c \in Clients, DispatchWrite(c) PROVE InvCallback'
      BY <2>3 DEF DispatchWrite
    <2>4. CASE OnTimer  BY <2>4 DEF OnTimer
    <2> QED BY <1>4, <2>1, <2>2, <2>3, <2>4 DEF Dispatch
  <1>5. CASE WorldSession
    <2>1. CASE TakePacket  BY <2>1 DEF TakePacket
    <2>2. CASE Process  BY <2>2 DEF Process
    <2>3. CASE SendCheck  BY <2>3 DEF SendCheck
    <2>4. CASE SendQueue  BY <2>4 DEF SendQueue
    <2>5. CASE SendDelEvent  BY <2>5 DEF SendDelEvent
    <2>6. CASE SendAddEvent  BY <2>6 DEF SendAddEvent
    <2>7. CASE EndUpdate  BY <2>7 DEF EndUpdate
    <2>8. CASE DeleteSession  BY <2>8 DEF DeleteSession
    <2>9. CASE ReleaseSession  BY <2>9 DEF ReleaseSession
    <2> QED BY <1>5, <2>1, <2>2, <2>3, <2>4, <2>5, <2>6, <2>7, <2>8, <2>9 DEF WorldSession
  <1>6. CASE WorldLoop
    <2>1. ASSUME NEW c \in Clients, NEW flag \in KickFlags, KickSession(c, flag) PROVE InvCallback'
      BY <2>1 DEF KickSession
    <2>2. CASE UpdateSessions  BY <2>2 DEF UpdateSessions
    <2>3. CASE EndUpdateSessions  BY <2>3 DEF EndUpdateSessions
    <2>4. CASE AllOffline  BY <2>4 DEF AllOffline
    <2>5. CASE OfflineEnd  BY <2>5 DEF OfflineEnd
    <2>6. ASSUME NEW c \in Clients, NextSession(c) PROVE InvCallback'  BY <2>6 DEF NextSession
    <2>7. ASSUME NEW c \in Clients, OfflineSession(c) PROVE InvCallback'
      BY <2>7 DEF OfflineSession
    <2> QED BY <1>6, <2>1, <2>2, <2>3, <2>4, <2>5, <2>6, <2>7 DEF WorldLoop
  <1>7. CASE Signal
    BY <1>7 DEF Signal
  <1>8. CASE UNCHANGED vars
    BY <1>8 DEF vars
  <1> QED BY <1>1, <1>2, <1>3, <1>4, <1>5, <1>6, <1>7, <1>8 DEF Next

(* SendPacket adds the event after it has queued the packet.                 *)
LEMMA WakeStep ==
  TypeOK /\ InvKnown /\ InvCloser /\ InvPlace /\ InvWake /\ [Next]_vars => InvWake'
  <1> SUFFICES ASSUME TypeOK, InvKnown, InvCloser, InvPlace, InvWake, [Next]_vars PROVE InvWake'
    OBVIOUS
  <1> USE NetAssumption DEF TypeOK, InvKnown, Known, Working, InvCloser, Past, InvPlace,
        InvWake, Sending, InCallback, CanDelete, objVars, sessVars, ctlVars, At, Goto,
        CallClose, Threads
  <1>1. ASSUME NEW t \in Threads, CloseSocket(t) PROVE InvWake'
    <2>1. CASE CloseEnter(t)  BY <2>1 DEF CloseEnter
    <2>2. CASE CloseDelRead(t)  BY <2>2 DEF CloseDelRead
    <2>3. CASE CloseDelWrite(t)  BY <2>3 DEF CloseDelWrite
    <2>4. CASE CloseFd(t)  BY <2>4 DEF CloseFd
    <2>5. CASE CloseClearSess(t)  BY <2>5 DEF CloseClearSess
    <2> QED BY <1>1, <2>1, <2>2, <2>3, <2>4, <2>5 DEF CloseSocket
  <1>2. CASE NetCallback
    <2>1. CASE OnRead  BY <2>1 DEF OnRead
    <2>2. CASE OnReadPacket  BY <2>2 DEF OnReadPacket
    <2>3. CASE OnReadDone  BY <2>3 DEF OnReadDone
    <2>4. CASE OnReadEnd  BY <2>4 DEF OnReadEnd
    <2>5. CASE OnWrite  BY <2>5 DEF OnWrite
    <2>6. CASE OnWriteSent  BY <2>6 DEF OnWriteSent
    <2>7. CASE OnWriteAgain  BY <2>7 DEF OnWriteAgain
    <2>8. CASE OnWriteEnd  BY <2>8 DEF OnWriteEnd
    <2>9. CASE DeRefClient  BY <2>9 DEF DeRefClient
    <2>10. CASE Return  BY <2>10 DEF Return
    <2> QED BY <1>2, <2>1, <2>2, <2>3, <2>4, <2>5, <2>6, <2>7, <2>8, <2>9, <2>10 DEF NetCallback
  <1>3. CASE NetTimer
    <2>1. ASSUME NEW c \in Clients, CheckAsyncFlag(c) PROVE InvWake'  BY <2>1 DEF CheckAsyncFlag
    <2>2. ASSUME NEW c \in Clients, SweepClient(c) PROVE InvWake'  BY <2>2 DEF SweepClient
    <2>3. CASE CheckFlushed  BY <2>3 DEF CheckFlushed
    <2>4. CASE CheckSweep  BY <2>4 DEF CheckSweep
    <2>5. CASE OnTimerEnd  BY <2>5 DEF OnTimerEnd
    <2> QED BY <1>3, <2>1, <2>2, <2>3, <2>4, <2>5 DEF NetTimer
  <1>4. CASE Dispatch
    <2>1. ASSUME NEW c \in Clients, NEW f \in Fds, OnAccept(c, f) PROVE InvWake'
      BY <2>1 DEF OnAccept
    <2>2. ASSUME NEW c \in Clients, DispatchRead(c) PROVE InvWake'  BY <2>2 DEF DispatchRead
    <2>3. ASSUME NEW c \in Clients, DispatchWrite(c) PROVE InvWake'  BY <2>3 DEF DispatchWrite
    <2>4. CASE OnTimer  BY <2>4 DEF OnTimer
    <2> QED BY <1>4, <2>1, <2>2, <2>3, <2>4 DEF Dispatch
  <1>5. CASE WorldSession
    <2>1. CASE TakePacket  BY <2>1 DEF TakePacket
    <2>2. CASE Process  BY <2>2 DEF Process
    <2>3. CASE SendCheck  BY <2>3 DEF SendCheck
    <2>4. CASE SendQueue  BY <2>4 DEF SendQueue
    <2>5. CASE SendDelEvent  BY <2>5 DEF SendDelEvent
    <2>6. CASE SendAddEvent  BY <2>6 DEF SendAddEvent
    <2>7. CASE EndUpdate  BY <2>7 DEF EndUpdate
    <2>8. CASE DeleteSession  BY <2>8 DEF DeleteSession
    <2>9. CASE ReleaseSession  BY <2>9 DEF ReleaseSession
    <2> QED BY <1>5, <2>1, <2>2, <2>3, <2>4, <2>5, <2>6, <2>7, <2>8, <2>9 DEF WorldSession
  <1>6. CASE WorldLoop
    <2>1. ASSUME NEW c \in Clients, NEW flag \in KickFlags, KickSession(c, flag) PROVE InvWake'
      BY <2>1 DEF KickSession
    <2>2. CASE UpdateSessions  BY <2>2 DEF UpdateSessions
    <2>3. CASE EndUpdateSessions  BY <2>3 DEF EndUpdateSessions
    <2>4. CASE AllOffline  BY <2>4 DEF AllOffline
    <2>5. CASE OfflineEnd  BY <2>5 DEF OfflineEnd
    <2>6. ASSUME NEW c \in Clients, NextSession(c) PROVE InvWake'  BY <2>6 DEF NextSession
    <2>7. ASSUME NEW c \in Clients, OfflineSession(c) PROVE InvWake'  BY <2>7 DEF OfflineSession
    <2> QED BY <1>6, <2>1, <2>2, <2>3, <2>4, <2>5, <2>6, <2>7 DEF WorldLoop
  <1>7. CASE Signal
    BY <1>7 DEF Signal
  <1>8. CASE UNCHANGED vars
    BY <1>8 DEF vars
  <1> QED BY <1>1, <1>2, <1>3, <1>4, <1>5, <1>6, <1>7, <1>8 DEF Next

-----------------------------------------------------------------------------
(* Who holds a connection.                                                   *)

\* An object that is alive is in the map or has a session, except that OnAccept
\* forgets the one whose ev_read it could not add.
InvHeldBy ==
  \A c \in Clients : obj[c] = "live" =>
    \/ c \in clientMap
    \/ SessionHolds(c)
    \/ AddMayFail /\ sess[c] = "none" /\ isClose[c]

(* DeRefClient, the timer and ~CUserSession drop references; the last one    *)
(* that is dropped frees the object.                                         *)
LEMMA HeldByStep ==
  TypeOK /\ InvKnown /\ InvOffline /\ InvHeldBy /\ [Next]_vars => InvHeldBy'
  <1> SUFFICES ASSUME TypeOK, InvKnown, InvOffline, InvHeldBy, [Next]_vars PROVE InvHeldBy'
    OBVIOUS
  <1> USE NetAssumption DEF TypeOK, InvKnown, Known, Working, InvOffline, InvHeldBy, SessionHolds, objVars,
        sessVars, ctlVars, At, Goto, CallClose, Threads
  <1>1. ASSUME NEW t \in Threads, CloseSocket(t) PROVE InvHeldBy'
    <2>1. CASE CloseEnter(t)  BY <2>1 DEF CloseEnter
    <2>2. CASE CloseDelRead(t)  BY <2>2 DEF CloseDelRead
    <2>3. CASE CloseDelWrite(t)  BY <2>3 DEF CloseDelWrite
    <2>4. CASE CloseFd(t)  BY <2>4 DEF CloseFd
    <2>5. CASE CloseClearSess(t)  BY <2>5 DEF CloseClearSess
    <2> QED BY <1>1, <2>1, <2>2, <2>3, <2>4, <2>5 DEF CloseSocket
  <1>2. CASE NetCallback
    <2>1. CASE OnRead  BY <2>1 DEF OnRead
    <2>2. CASE OnReadPacket  BY <2>2 DEF OnReadPacket
    <2>3. CASE OnReadDone  BY <2>3 DEF OnReadDone
    <2>4. CASE OnReadEnd  BY <2>4 DEF OnReadEnd
    <2>5. CASE OnWrite  BY <2>5 DEF OnWrite
    <2>6. CASE OnWriteSent  BY <2>6 DEF OnWriteSent
    <2>7. CASE OnWriteAgain  BY <2>7 DEF OnWriteAgain
    <2>8. CASE OnWriteEnd  BY <2>8 DEF OnWriteEnd
    <2>9. CASE DeRefClient  BY <2>9 DEF DeRefClient
    <2>10. CASE Return  BY <2>10 DEF Return
    <2> QED BY <1>2, <2>1, <2>2, <2>3, <2>4, <2>5, <2>6, <2>7, <2>8, <2>9, <2>10 DEF NetCallback
  <1>3. CASE NetTimer
    <2>1. ASSUME NEW c \in Clients, CheckAsyncFlag(c) PROVE InvHeldBy'
      BY <2>1 DEF CheckAsyncFlag
    <2>2. ASSUME NEW c \in Clients, SweepClient(c) PROVE InvHeldBy'  BY <2>2 DEF SweepClient
    <2>3. CASE CheckFlushed  BY <2>3 DEF CheckFlushed
    <2>4. CASE CheckSweep  BY <2>4 DEF CheckSweep
    <2>5. CASE OnTimerEnd  BY <2>5 DEF OnTimerEnd
    <2> QED BY <1>3, <2>1, <2>2, <2>3, <2>4, <2>5 DEF NetTimer
  <1>4. CASE Dispatch
    <2>1. ASSUME NEW c \in Clients, NEW f \in Fds, OnAccept(c, f) PROVE InvHeldBy'
      BY <2>1 DEF OnAccept
    <2>2. ASSUME NEW c \in Clients, DispatchRead(c) PROVE InvHeldBy'  BY <2>2 DEF DispatchRead
    <2>3. ASSUME NEW c \in Clients, DispatchWrite(c) PROVE InvHeldBy'  BY <2>3 DEF DispatchWrite
    <2>4. CASE OnTimer  BY <2>4 DEF OnTimer
    <2> QED BY <1>4, <2>1, <2>2, <2>3, <2>4 DEF Dispatch
  <1>5. CASE WorldSession
    <2>1. CASE TakePacket  BY <2>1 DEF TakePacket
    <2>2. CASE Process  BY <2>2 DEF Process
    <2>3. CASE SendCheck  BY <2>3 DEF SendCheck
    <2>4. CASE SendQueue  BY <2>4 DEF SendQueue
    <2>5. CASE SendDelEvent  BY <2>5 DEF SendDelEvent
    <2>6. CASE SendAddEvent  BY <2>6 DEF SendAddEvent
    <2>7. CASE EndUpdate  BY <2>7 DEF EndUpdate
    <2>8. CASE DeleteSession  BY <2>8 DEF DeleteSession
    <2>9. CASE ReleaseSession  BY <2>9 DEF ReleaseSession
    <2> QED BY <1>5, <2>1, <2>2, <2>3, <2>4, <2>5, <2>6, <2>7, <2>8, <2>9 DEF WorldSession
  <1>6. CASE WorldLoop
    <2>1. ASSUME NEW c \in Clients, NEW flag \in KickFlags, KickSession(c, flag) PROVE InvHeldBy'
      BY <2>1 DEF KickSession
    <2>2. CASE UpdateSessions  BY <2>2 DEF UpdateSessions
    <2>3. CASE EndUpdateSessions  BY <2>3 DEF EndUpdateSessions
    <2>4. CASE AllOffline  BY <2>4 DEF AllOffline
    <2>5. CASE OfflineEnd  BY <2>5 DEF OfflineEnd
    <2>6. ASSUME NEW c \in Clients, NextSession(c) PROVE InvHeldBy'  BY <2>6 DEF NextSession
    <2>7. ASSUME NEW c \in Clients, OfflineSession(c) PROVE InvHeldBy'
      BY <2>7 DEF OfflineSession
    <2> QED BY <1>6, <2>1, <2>2, <2>3, <2>4, <2>5, <2>6, <2>7 DEF WorldLoop
  <1>7. CASE Signal
    BY <1>7 DEF Signal
  <1>8. CASE UNCHANGED vars
    BY <1>8 DEF vars
  <1> QED BY <1>1, <1>2, <1>3, <1>4, <1>5, <1>6, <1>7, <1>8 DEF Next


-----------------------------------------------------------------------------
(* The two threads waiting for each other.                                   *)

\* The net thread waits for m_mutexClose.
NetWaits == closing["net"] = "enter" /\ HoldsClose("world", cur["net"])

\* The world thread waits for m_mutexClose, or in event_del for a callback.
WorldWaits ==
  \/ closing["world"] = "enter" /\ HoldsClose("net", cur["world"])
  \/ closing["world"] = "delRead" /\ InCallback("read", cur["world"])
  \/ closing["world"] = "delWrite" /\ InCallback("write", cur["world"])
  \/ At("world", "sendDel") /\ InCallback("write", cur["world"])

MutualWait == NetWaits /\ WorldWaits

\* Why the world thread closes an open socket: the server ends, the session is
\* overloaded, or event_add failed in SendPacket.
WorldCloses ==
  \/ leaving
  \/ recvq[cur["world"]] >= MaxPacketOverLoad
  \/ AddMayFail /\ pc["world"] = "update"

\* The world thread goes into CloseSocket, and comes past the test of
\* m_bIsClose, for such a reason only; the net thread calls it where it returns to.
InvCloses ==
  /\ closing["world"] = "enter" \/ At("world", "delete") => isClose[cur["world"]] \/ WorldCloses
  /\ closing["world"] \in Past => WorldCloses
  /\ pc["world"] = "offline" => leaving
  /\ closing["net"] # "idle" => pc["net"] \in {"deref", "return", "timer1"}
  /\ closing["net"] # "idle" /\ ev = "read" => pc["net"] = "deref"

(* The reasons of the world thread last until it is through.                 *)
LEMMA ClosesStep ==
  TypeOK /\ InvKnown /\ InvOwner /\ InvPlace /\ InvCloses /\ [Next]_vars => InvCloses'
  <1> SUFFICES ASSUME TypeOK, InvKnown, InvOwner, InvPlace, InvCloses, [Next]_vars PROVE InvCloses'
    OBVIOUS
  <1> USE NetAssumption DEF TypeOK, InvKnown, Known, Working, InvPlace, InvCloses, WorldCloses, Past, objVars,
        sessVars, ctlVars, At, Goto, CallClose, Threads, GoOffline
  <1>1. ASSUME NEW t \in Threads, CloseSocket(t) PROVE InvCloses'
    <2>1. CASE CloseEnter(t)  BY <2>1 DEF CloseEnter
    <2>2. CASE CloseDelRead(t)  BY <2>2 DEF CloseDelRead
    <2>3. CASE CloseDelWrite(t)  BY <2>3 DEF CloseDelWrite
    <2>4. CASE CloseFd(t)  BY <2>4 DEF CloseFd
    <2>5. CASE CloseClearSess(t)  BY <2>5 DEF CloseClearSess
    <2> QED BY <1>1, <2>1, <2>2, <2>3, <2>4, <2>5 DEF CloseSocket
  <1>2. CASE NetCallback
    <2>1. CASE OnRead  BY <2>1 DEF OnRead
    <2>2. CASE OnReadPacket  BY <2>2 DEF OnReadPacket
    <2>3. CASE OnReadDone  BY <2>3 DEF OnReadDone
    <2>4. CASE OnReadEnd  BY <2>4 DEF OnReadEnd
    <2>5. CASE OnWrite  BY <2>5 DEF OnWrite
    <2>6. CASE OnWriteSent  BY <2>6 DEF OnWriteSent
    <2>7. CASE OnWriteAgain  BY <2>7 DEF OnWriteAgain
    <2>8. CASE OnWriteEnd  BY <2>8 DEF OnWriteEnd
    <2>9. CASE DeRefClient  BY <2>9 DEF DeRefClient
    <2>10. CASE Return  BY <2>10 DEF Return
    <2> QED BY <1>2, <2>1, <2>2, <2>3, <2>4, <2>5, <2>6, <2>7, <2>8, <2>9, <2>10 DEF NetCallback
  <1>3. CASE NetTimer
    <2>1. ASSUME NEW c \in Clients, CheckAsyncFlag(c) PROVE InvCloses'
      BY <2>1 DEF CheckAsyncFlag
    <2>2. ASSUME NEW c \in Clients, SweepClient(c) PROVE InvCloses'  BY <2>2 DEF SweepClient
    <2>3. CASE CheckFlushed  BY <2>3 DEF CheckFlushed
    <2>4. CASE CheckSweep  BY <2>4 DEF CheckSweep
    <2>5. CASE OnTimerEnd  BY <2>5 DEF OnTimerEnd
    <2> QED BY <1>3, <2>1, <2>2, <2>3, <2>4, <2>5 DEF NetTimer
  <1>4. CASE Dispatch
    <2>1. ASSUME NEW c \in Clients, NEW f \in Fds, OnAccept(c, f) PROVE InvCloses'
      BY <2>1 DEF OnAccept
    <2>2. ASSUME NEW c \in Clients, DispatchRead(c) PROVE InvCloses'  BY <2>2 DEF DispatchRead
    <2>3. ASSUME NEW c \in Clients, DispatchWrite(c) PROVE InvCloses'  BY <2>3 DEF DispatchWrite
    <2>4. CASE OnTimer  BY <2>4 DEF OnTimer
    <2> QED BY <1>4, <2>1, <2>2, <2>3, <2>4 DEF Dispatch
  <1>5. CASE WorldSession
    <2>1. CASE TakePacket  BY <2>1 DEF TakePacket
    <2>2. CASE Process  BY <2>2 DEF Process
    <2>3. CASE SendCheck  BY <2>3 DEF SendCheck
    <2>4. CASE SendQueue  BY <2>4 DEF SendQueue
    <2>5. CASE SendDelEvent  BY <2>5 DEF SendDelEvent
    <2>6. CASE SendAddEvent
      \* The descriptor of an open connection is open: event_add succeeds.
      <3>1. ~isClose[cur["world"]] => FdOpen(cur["world"])
        <4>1. cur["world"] \in Known
          BY <2>6 DEF SendAddEvent
        <4>2. ~isClose[cur["world"]] => owner[fd[cur["world"]]] = cur["world"] /\ fd[cur["world"]] \in Fds
          BY <4>1 DEF InvOwner
        <4>3. cur["world"] # None
          BY <4>1
        <4> QED BY <4>2, <4>3 DEF FdOpen
      <3>2. CASE closing' = closing /\ pc' = [pc EXCEPT !["world"] = "update"]
        BY <2>6, <3>2 DEF SendAddEvent
      <3>3. CASE /\ closing' = [closing EXCEPT !["world"] = "enter"]
                 /\ pc' = [pc EXCEPT !["world"] = "update"]
                 /\ ~FdOpen(cur["world"]) \/ AddMayFail
        BY <2>6, <3>1, <3>3 DEF SendAddEvent
      <3> QED BY <2>6, <3>2, <3>3 DEF SendAddEvent, AddOutcomes
    <2>7. CASE EndUpdate  BY <2>7 DEF EndUpdate
    <2>8. CASE DeleteSession  BY <2>8 DEF DeleteSession
    <2>9. CASE ReleaseSession  BY <2>9 DEF ReleaseSession
    <2> QED BY <1>5, <2>1, <2>2, <2>3, <2>4, <2>5, <2>6, <2>7, <2>8, <2>9 DEF WorldSession
  <1>6. CASE WorldLoop
    <2>1. ASSUME NEW c \in Clients, NEW flag \in KickFlags, KickSession(c, flag) PROVE InvCloses'
      BY <2>1 DEF KickSession
    <2>2. CASE UpdateSessions  BY <2>2 DEF UpdateSessions
    <2>3. CASE EndUpdateSessions  BY <2>3 DEF EndUpdateSessions
    <2>4. CASE AllOffline  BY <2>4 DEF AllOffline
    <2>5. CASE OfflineEnd  BY <2>5 DEF OfflineEnd
    <2>6. ASSUME NEW c \in Clients, NextSession(c) PROVE InvCloses'  BY <2>6 DEF NextSession
    <2>7. ASSUME NEW c \in Clients, OfflineSession(c) PROVE InvCloses'
      BY <2>7 DEF OfflineSession
    <2> QED BY <1>6, <2>1, <2>2, <2>3, <2>4, <2>5, <2>6, <2>7 DEF WorldLoop
  <1>7. CASE Signal
    BY <1>7 DEF Signal
  <1>8. CASE UNCHANGED vars
    BY <1>8 DEF vars
  <1> QED BY <1>1, <1>2, <1>3, <1>4, <1>5, <1>6, <1>7, <1>8 DEF Next


(* No step but a signal is possible while the threads wait for each other.    *)
LEMMA WaitStep ==
  TypeOK /\ InvPlace /\ MutualWait /\ [Next]_vars => MutualWait'
  <1> SUFFICES ASSUME TypeOK, InvPlace, MutualWait, [Next]_vars PROVE MutualWait'
    OBVIOUS
  <1> USE NetAssumption DEF TypeOK, InvPlace, MutualWait, NetWaits, WorldWaits, HoldsClose, InCallback, CanDelete,
        objVars, sessVars, ctlVars, At, Goto, CallClose, Threads
  <1>1. ASSUME NEW t \in Threads, CloseSocket(t) PROVE MutualWait'
    <2>1. CASE CloseEnter(t)  BY <2>1 DEF CloseEnter
    <2>2. CASE CloseDelRead(t)  BY <2>2 DEF CloseDelRead
    <2>3. CASE CloseDelWrite(t)  BY <2>3 DEF CloseDelWrite
    <2>4. CASE CloseFd(t)  BY <2>4 DEF CloseFd
    <2>5. CASE CloseClearSess(t)  BY <2>5 DEF CloseClearSess
    <2> QED BY <1>1, <2>1, <2>2, <2>3, <2>4, <2>5 DEF CloseSocket
  <1>2. CASE NetCallback
    <2>1. CASE OnRead  BY <2>1 DEF OnRead
    <2>2. CASE OnReadPacket  BY <2>2 DEF OnReadPacket
    <2>3. CASE OnReadDone  BY <2>3 DEF OnReadDone
    <2>4. CASE OnReadEnd  BY <2>4 DEF OnReadEnd
    <2>5. CASE OnWrite  BY <2>5 DEF OnWrite
    <2>6. CASE OnWriteSent  BY <2>6 DEF OnWriteSent
    <2>7. CASE OnWriteAgain  BY <2>7 DEF OnWriteAgain
    <2>8. CASE OnWriteEnd  BY <2>8 DEF OnWriteEnd
    <2>9. CASE DeRefClient  BY <2>9 DEF DeRefClient
    <2>10. CASE Return  BY <2>10 DEF Return
    <2> QED BY <1>2, <2>1, <2>2, <2>3, <2>4, <2>5, <2>6, <2>7, <2>8, <2>9, <2>10 DEF NetCallback
  <1>3. CASE NetTimer
    <2>1. ASSUME NEW c \in Clients, CheckAsyncFlag(c) PROVE MutualWait'
      BY <2>1 DEF CheckAsyncFlag
    <2>2. ASSUME NEW c \in Clients, SweepClient(c) PROVE MutualWait'  BY <2>2 DEF SweepClient
    <2>3. CASE CheckFlushed  BY <2>3 DEF CheckFlushed
    <2>4. CASE CheckSweep  BY <2>4 DEF CheckSweep
    <2>5. CASE OnTimerEnd  BY <2>5 DEF OnTimerEnd
    <2> QED BY <1>3, <2>1, <2>2, <2>3, <2>4, <2>5 DEF NetTimer
  <1>4. CASE Dispatch
    <2>1. ASSUME NEW c \in Clients, NEW f \in Fds, OnAccept(c, f) PROVE MutualWait'
      BY <2>1 DEF OnAccept
    <2>2. ASSUME NEW c \in Clients, DispatchRead(c) PROVE MutualWait'  BY <2>2 DEF DispatchRead
    <2>3. ASSUME NEW c \in Clients, DispatchWrite(c) PROVE MutualWait'  BY <2>3 DEF DispatchWrite
    <2>4. CASE OnTimer  BY <2>4 DEF OnTimer
    <2> QED BY <1>4, <2>1, <2>2, <2>3, <2>4 DEF Dispatch
  <1>5. CASE WorldSession
    <2>1. CASE TakePacket  BY <2>1 DEF TakePacket
    <2>2. CASE Process  BY <2>2 DEF Process
    <2>3. CASE SendCheck  BY <2>3 DEF SendCheck
    <2>4. CASE SendQueue  BY <2>4 DEF SendQueue
    <2>5. CASE SendDelEvent  BY <2>5 DEF SendDelEvent
    <2>6. CASE SendAddEvent  BY <2>6 DEF SendAddEvent
    <2>7. CASE EndUpdate  BY <2>7 DEF EndUpdate
    <2>8. CASE DeleteSession  BY <2>8 DEF DeleteSession
    <2>9. CASE ReleaseSession  BY <2>9 DEF ReleaseSession
    <2> QED BY <1>5, <2>1, <2>2, <2>3, <2>4, <2>5, <2>6, <2>7, <2>8, <2>9 DEF WorldSession
  <1>6. CASE WorldLoop
    <2>1. ASSUME NEW c \in Clients, NEW flag \in KickFlags, KickSession(c, flag) PROVE MutualWait'
      BY <2>1 DEF KickSession
    <2>2. CASE UpdateSessions  BY <2>2 DEF UpdateSessions
    <2>3. CASE EndUpdateSessions  BY <2>3 DEF EndUpdateSessions
    <2>4. CASE AllOffline  BY <2>4 DEF AllOffline
    <2>5. CASE OfflineEnd  BY <2>5 DEF OfflineEnd
    <2>6. ASSUME NEW c \in Clients, NextSession(c) PROVE MutualWait'  BY <2>6 DEF NextSession
    <2>7. ASSUME NEW c \in Clients, OfflineSession(c) PROVE MutualWait'
      BY <2>7 DEF OfflineSession
    <2> QED BY <1>6, <2>1, <2>2, <2>3, <2>4, <2>5, <2>6, <2>7 DEF WorldLoop
  <1>7. CASE Signal
    BY <1>7 DEF Signal
  <1>8. CASE UNCHANGED vars
    BY <1>8 DEF vars
  <1> QED BY <1>1, <1>2, <1>3, <1>4, <1>5, <1>6, <1>7, <1>8 DEF Next


-----------------------------------------------------------------------------
(* Who takes a connection out of the map.                                    *)

\* The net thread comes to DeRefClient only when the world thread is through
\* with CloseSocket, or has not begun and will find m_bIsClose set.
InvDeref ==
  At("net", "deref") \/ closing["net"] = "clearSess" => ~HoldsClose("world", cur["net"])

(* m_mutexClose orders the two threads, and m_bIsClose keeps the second out.  *)
LEMMA DerefStep ==
  TypeOK /\ InvKnown /\ InvCloser /\ InvPlace /\ InvQuiet /\ InvDeref /\ [Next]_vars => InvDeref'
  <1> SUFFICES ASSUME TypeOK, InvKnown, InvCloser, InvPlace, InvQuiet, InvDeref, [Next]_vars
               PROVE  InvDeref'
    OBVIOUS
  <1> USE NetAssumption DEF TypeOK, InvKnown, Known, Working, InvCloser, InvPlace, InvQuiet,
        InvDeref, HoldsClose, Past, objVars, sessVars, ctlVars, At, Goto, CallClose, Threads
  <1>1. ASSUME NEW t \in Threads, CloseSocket(t) PROVE InvDeref'
    <2>1. CASE CloseEnter(t)  BY <2>1 DEF CloseEnter
    <2>2. CASE CloseDelRead(t)  BY <2>2 DEF CloseDelRead
    <2>3. CASE CloseDelWrite(t)  BY <2>3 DEF CloseDelWrite
    <2>4. CASE CloseFd(t)  BY <2>4 DEF CloseFd
    <2>5. CASE CloseClearSess(t)  BY <2>5 DEF CloseClearSess
    <2> QED BY <1>1, <2>1, <2>2, <2>3, <2>4, <2>5 DEF CloseSocket
  <1>2. CASE NetCallback
    <2>1. CASE OnRead  BY <2>1 DEF OnRead
    <2>2. CASE OnReadPacket  BY <2>2 DEF OnReadPacket
    <2>3. CASE OnReadDone  BY <2>3 DEF OnReadDone
    <2>4. CASE OnReadEnd  BY <2>4 DEF OnReadEnd
    <2>5. CASE OnWrite  BY <2>5 DEF OnWrite
    <2>6. CASE OnWriteSent  BY <2>6 DEF OnWriteSent
    <2>7. CASE OnWriteAgain  BY <2>7 DEF OnWriteAgain
    <2>8. CASE OnWriteEnd  BY <2>8 DEF OnWriteEnd
    <2>9. CASE DeRefClient  BY <2>9 DEF DeRefClient
    <2>10. CASE Return  BY <2>10 DEF Return
    <2> QED BY <1>2, <2>1, <2>2, <2>3, <2>4, <2>5, <2>6, <2>7, <2>8, <2>9, <2>10 DEF NetCallback
  <1>3. CASE NetTimer
    <2>1. ASSUME NEW c \in Clients, CheckAsyncFlag(c) PROVE InvDeref'
      BY <2>1 DEF CheckAsyncFlag
    <2>2. ASSUME NEW c \in Clients, SweepClient(c) PROVE InvDeref'  BY <2>2 DEF SweepClient
    <2>3. CASE CheckFlushed  BY <2>3 DEF CheckFlushed
    <2>4. CASE CheckSweep  BY <2>4 DEF CheckSweep
    <2>5. CASE OnTimerEnd  BY <2>5 DEF OnTimerEnd
    <2> QED BY <1>3, <2>1, <2>2, <2>3, <2>4, <2>5 DEF NetTimer
  <1>4. CASE Dispatch
    <2>1. ASSUME NEW c \in Clients, NEW f \in Fds, OnAccept(c, f) PROVE InvDeref'
      BY <2>1 DEF OnAccept
    <2>2. ASSUME NEW c \in Clients, DispatchRead(c) PROVE InvDeref'  BY <2>2 DEF DispatchRead
    <2>3. ASSUME NEW c \in Clients, DispatchWrite(c) PROVE InvDeref'  BY <2>3 DEF DispatchWrite
    <2>4. CASE OnTimer  BY <2>4 DEF OnTimer
    <2> QED BY <1>4, <2>1, <2>2, <2>3, <2>4 DEF Dispatch
  <1>5. CASE WorldSession
    <2>1. CASE TakePacket  BY <2>1 DEF TakePacket
    <2>2. CASE Process  BY <2>2 DEF Process
    <2>3. CASE SendCheck  BY <2>3 DEF SendCheck
    <2>4. CASE SendQueue  BY <2>4 DEF SendQueue
    <2>5. CASE SendDelEvent  BY <2>5 DEF SendDelEvent
    <2>6. CASE SendAddEvent  BY <2>6 DEF SendAddEvent
    <2>7. CASE EndUpdate  BY <2>7 DEF EndUpdate
    <2>8. CASE DeleteSession  BY <2>8 DEF DeleteSession
    <2>9. CASE ReleaseSession  BY <2>9 DEF ReleaseSession
    <2> QED BY <1>5, <2>1, <2>2, <2>3, <2>4, <2>5, <2>6, <2>7, <2>8, <2>9 DEF WorldSession
  <1>6. CASE WorldLoop
    <2>1. ASSUME NEW c \in Clients, NEW flag \in KickFlags, KickSession(c, flag) PROVE InvDeref'
      BY <2>1 DEF KickSession
    <2>2. CASE UpdateSessions  BY <2>2 DEF UpdateSessions
    <2>3. CASE EndUpdateSessions  BY <2>3 DEF EndUpdateSessions
    <2>4. CASE AllOffline  BY <2>4 DEF AllOffline
    <2>5. CASE OfflineEnd  BY <2>5 DEF OfflineEnd
    <2>6. ASSUME NEW c \in Clients, NextSession(c) PROVE InvDeref'  BY <2>6 DEF NextSession
    <2>7. ASSUME NEW c \in Clients, OfflineSession(c) PROVE InvDeref'
      BY <2>7 DEF OfflineSession
    <2> QED BY <1>6, <2>1, <2>2, <2>3, <2>4, <2>5, <2>6, <2>7 DEF WorldLoop
  <1>7. CASE Signal
    BY <1>7 DEF Signal
  <1>8. CASE UNCHANGED vars
    BY <1>8 DEF vars
  <1> QED BY <1>1, <1>2, <1>3, <1>4, <1>5, <1>6, <1>7, <1>8 DEF Next



-----------------------------------------------------------------------------
(* IInv is inductive, so it holds in every reachable state.                  *)
THEOREM Invariance == Spec => []IInv
  <1>1. IInv /\ [Next]_vars => IInv'
    BY TypeStep, KnownStep, CloserStep, OwnerStep, SessionStep, OfflineStep, PlaceStep,
       QuietStep, FreedStep, CallbackStep, WakeStep DEF IInv
  <1> QED BY InitInv, <1>1, PTL DEF Spec

(* Type correctness of the connection and session state.                     *)
THEOREM TypeCorrect == Spec => []TypeOK
  <1>1. IInv => TypeOK
    BY DEF IInv
  <1> QED BY Invariance, <1>1, PTL

(* CNetClient::CloseSocket never closes a descriptor twice, and never one    *)
(* that accept has given to another connection meanwhile.                    *)
THEOREM CloseOwn == Spec => []CloseOwnSocket
  <1>1. IInv => CloseOwnSocket
    BY DEF IInv, InvKnown, InvOwner, CloseOwnSocket, HoldsClose
  <1> QED BY Invariance, <1>1, PTL

(* CNetClient::OnRead never queues a packet to a session that the world      *)
(* thread has deleted.                                                       *)
THEOREM SessionSafe == Spec => []SessionPointerSafe
  <1>1. IInv => SessionPointerSafe
    BY DEF IInv, InvKnown, Known, InvSession, SessionPointerSafe, At, Past, Threads
  <1> QED BY Invariance, <1>1, PTL

(* The handler of a session is told exactly once that the session ends, by   *)
(* the update, by an overload or by AllOffline, and before the deletion.     *)
THEOREM OfflineExactlyOnce == Spec => []OfflineOnce
  <1>1. IInv => OfflineOnce
    BY DEF IInv, InvOffline, OfflineOnce
  <1> QED BY Invariance, <1>1, PTL

(* CNetClient::~CNetClient: when DeRef destroys a connection its socket was  *)
(* closed, by one of the threads, and libevent no longer reads from it.      *)
THEOREM FreedQuiet == Spec => []FreedIsQuiet
  <1>1. IInv => FreedIsQuiet
    <2> SUFFICES ASSUME IInv, NEW c \in Clients, obj[c] = "freed"
                 PROVE  isClose[c] /\ ~evRead[c] /\ \A f \in Fds : owner[f] # c
      BY DEF FreedIsQuiet
    <2>1. isClose[c] /\ \A t \in Threads : ~HoldsClose(t, c)
      BY DEF IInv, InvFreed, Known, Threads
    <2> QED BY <2>1 DEF IInv, InvQuiet, HoldsClose
  <1> QED BY Invariance, <1>1, PTL

(* CServer::OnRead and CheckCloseSocket use a connection that is not freed:  *)
(* the world thread cannot drop the last reference under them.               *)
THEOREM CallbackLive == Spec => []CallbackOnLiveObject
  <1>1. IInv => CallbackOnLiveObject
    <2> SUFFICES ASSUME IInv, ev \in {"read", "timer"},
                        pc["net"] \in {"read", "parse", "write", "send", "deref"}
                 PROVE  obj[cur["net"]] = "live"
      BY DEF CallbackOnLiveObject
    <2>1. cur["net"] \in Clients /\ obj[cur["net"]] # "none"
      BY DEF IInv, InvKnown, Known
    <2>2. \/ cur["net"] \in clientMap
          \/ cur["world"] = cur["net"] /\ closing["world"] = "delRead"
      BY DEF IInv, InvPlace, InvCallback
    <2>3. obj[cur["net"]] # "freed"
      BY <2>1, <2>2 DEF IInv, InvFreed, HoldsClose
    <2> QED BY <2>1, <2>3 DEF IInv, TypeOK
  <1> QED BY Invariance, <1>1, PTL

(* CNetClient::SendPacket and CServer::OnWrite never leave a packet behind   *)
(* on an open connection without an event that will send it.                 *)
THEOREM WakeupKept == Spec => []NoLostWakeup
  <1>1. IInv => NoLostWakeup
    BY DEF IInv, InvWake, Sending, NoLostWakeup
  <1> QED BY Invariance, <1>1, PTL

(* A connection is never forgotten: while its object is alive it is in       *)
(* m_clientMap or has a session, which will drop it, except one whose ev_read *)
(* could not be added in OnAccept (Server.cpp:201).                          *)
THEOREM HeldOrFreed == Spec => []InvHeldBy
  <1>1. Init => InvHeldBy
    BY DEF Init, InvHeldBy
  <1>2. IInv /\ InvHeldBy /\ [Next]_vars => InvHeldBy'
    BY HeldByStep DEF IInv
  <1> QED BY Invariance, <1>1, <1>2, PTL DEF Spec

(* The net thread in CloseSocket and the world thread wait for each other    *)
(* only over one connection: the world thread closes it, because the server  *)
(* ends, the session is overloaded or event_add failed, holds m_mutexClose   *)
(* and waits in event_del for a callback that found the connection broken    *)
(* and waits for m_mutexClose.                                               *)
THEOREM MutualWaitOnlyInClose ==
  Spec => [](MutualWait =>
               /\ cur["net"] = cur["world"] /\ WorldCloses
               /\ \/ closing["world"] = "delRead" /\ ev = "read" /\ pc["net"] = "deref"
                  \/ closing["world"] = "delWrite" /\ ev = "write" /\ pc["net"] \in {"deref", "return"})
  <1>1. Init => InvCloses
    BY DEF Init, InvCloses, Threads, Past, At
  <1>2. IInv /\ InvCloses /\ [Next]_vars => InvCloses'
    BY ClosesStep DEF IInv
  <1>3. IInv /\ InvCloses /\ MutualWait =>
          /\ cur["net"] = cur["world"] /\ WorldCloses
          /\ \/ closing["world"] = "delRead" /\ ev = "read" /\ pc["net"] = "deref"
             \/ closing["world"] = "delWrite" /\ ev = "write" /\ pc["net"] \in {"deref", "return"}
    BY DEF IInv, TypeOK, InvPlace, InvCloses, Past, MutualWait, NetWaits, WorldWaits, HoldsClose,
           InCallback, At, Threads
  <1> QED BY Invariance, <1>1, <1>2, <1>3, PTL DEF Spec

(* And then neither moves again: the server does not end, and a session that *)
(* waits is not deleted.                                                     *)
THEOREM MutualWaitForever == Spec => [][MutualWait => MutualWait']_vars
  <1>1. IInv /\ [Next]_vars => [MutualWait => MutualWait']_vars
    BY WaitStep DEF IInv
  <1> QED BY Invariance, <1>1, PTL DEF Spec

(* CServer::OnRead and the timer find the connection in m_clientMap when     *)
(* they drop it: the assertion of DeRefClient can only fail in OnWrite.      *)
THEOREM DerefOnlyOnWrite == Spec => [](ev # "write" => DerefFindsClient)
  <1>1. Init => InvDeref
    BY DEF Init, InvDeref, At, Threads
  <1>2. IInv /\ InvDeref /\ [Next]_vars => InvDeref'
    BY DerefStep DEF IInv
  <1>3. IInv /\ InvDeref => (ev # "write" => DerefFindsClient)
    BY DEF IInv, TypeOK, InvPlace, InvCallback, InvDeref, DerefFindsClient, HoldsClose, At
  <1> QED BY Invariance, <1>1, <1>2, <1>3, PTL DEF Spec
=============================================================================
