----------------------------- MODULE NetSession -----------------------------
(***************************************************************************)
(* The client side of the server core: CServer (libevent loop of the net   *)
(* thread), CNetClient (one accepted connection), CPlayerSession (its      *)
(* logical session) and CSessCtrl (the world thread's session table).      *)
(*                                                                         *)
(* Two threads act on a connection:                                        *)
(*   "net"    runs the event callbacks and the one second timer;           *)
(*   "world"  runs CSessCtrl::Update, and CSessCtrl::AllOffline at exit.   *)
(* They share m_bIsClose, the events, the socket, m_pSession, m_sendQueue, *)
(* m_recvQueue, m_addSessQueue and the reference count of CNetClient.      *)
(*                                                                         *)
(* event_del(ev) blocks a thread while another thread is inside the        *)
(* callback of ev: the server turns this on with evthread_use_pthreads.    *)
(* Packets carry no data here: a queue is its length.                      *)
(***************************************************************************)
EXTENDS Naturals, FiniteSets

CONSTANTS
  Clients,            \* CNetClient objects that may be accepted, each once
  Fds,                \* descriptors accept() may return
  None,               \* "no connection" and "no descriptor"
  MaxPacketOverLoad,  \* CSet::MaxPacketOverLoad
  MaxIn,              \* bound: complete packets a peer sends
  MaxOut,             \* bound: packets the handlers send on a connection
  AddMayFail,         \* whether event_add can fail on an open socket
  KickFlags,          \* flags the handlers pass to KickSession
  MayStop             \* whether a termination signal can arrive

ASSUME NetAssumption ==
  /\ None \notin Clients /\ None \notin Fds
  /\ MaxPacketOverLoad \in Nat
  /\ MaxIn \in Nat /\ MaxOut \in Nat
  /\ AddMayFail \in BOOLEAN /\ MayStop \in BOOLEAN
  /\ KickFlags \subseteq {"direct", "flush"}

VARIABLES
  obj,        \* the CNetClient object: "none", "live", "freed"
  fd,         \* m_sockFd, fixed by accept
  owner,      \* descriptor table: the connection open on each descriptor
  isClose,    \* m_bIsClose
  evRead,     \* ev_read is in the event base
  evWrite,    \* ev_write is in the event base
  asyncFlag,  \* m_eCloseAsyncFlag
  sessPtr,    \* m_pSession # NULL
  clientMap,  \* CServer::m_clientMap
  sess,       \* "none", "queued" (m_addSessQueue), "online", "deleted"
  offline,    \* how often Offline() ran for the session
  recvq,      \* m_recvQueue
  sendq,      \* m_sendQueue
  outbuf,     \* m_pBufferOutput, in packets
  rcvd,       \* complete packets read from the socket so far
  sent,       \* packets given to SendPacket so far
  pc,         \* where each thread is
  closing,    \* where each thread is inside CloseSocket, "idle" outside
  cur,        \* the connection each thread works on
  todo,       \* what is left of each thread's loop over a map
  ev,         \* the kind of event the net thread is dispatching
  stop,       \* g_stopEvent
  leaving     \* the world thread is in AllOffline

objVars  == <<obj, fd, owner, isClose, evRead, evWrite, asyncFlag, sessPtr, clientMap>>
sessVars == <<sess, offline, recvq, sendq, outbuf, rcvd, sent>>
ctlVars  == <<pc, closing, cur, todo, ev, stop, leaving>>
vars     == <<objVars, sessVars, ctlVars>>

Threads == {"net", "world"}

(* The places of the two threads.  "deref", "timer1", "flushed" and so on  *)
(* are also the places a call of CloseSocket returns to.                   *)
NetPlaces   == {"loop", "read", "parse", "write", "send", "deref", "return",
                "timer1", "flushed", "timer2", "exit"}
WorldPlaces == {"idle", "sessions", "update", "process", "sendChk", "sendAdd",
                "sendDel", "sendEv", "delete", "release", "offline", "exit"}
ClosePlaces == {"idle", "enter", "delRead", "delWrite", "closeFd", "clearSess"}

Init ==
  /\ obj       = [c \in Clients |-> "none"]
  /\ fd        = [c \in Clients |-> None]
  /\ owner     = [f \in Fds |-> None]
  /\ isClose   = [c \in Clients |-> FALSE]
  /\ evRead    = [c \in Clients |-> FALSE]
  /\ evWrite   = [c \in Clients |-> FALSE]
  /\ asyncFlag = [c \in Clients |-> "null"]
  /\ sessPtr   = [c \in Clients |-> FALSE]
  /\ clientMap = {}
  /\ sess      = [c \in Clients |-> "none"]
  /\ offline   = [c \in Clients |-> 0]
  /\ recvq     = [c \in Clients |-> 0]
  /\ sendq     = [c \in Clients |-> 0]
  /\ outbuf    = [c \in Clients |-> 0]
  /\ rcvd      = [c \in Clients |-> 0]
  /\ sent      = [c \in Clients |-> 0]
  /\ pc        = [t \in Threads |-> IF t = "net" THEN "loop" ELSE "idle"]
  /\ closing   = [t \in Threads |-> "idle"]
  /\ cur       = [t \in Threads |-> None]
  /\ todo      = [t \in Threads |-> {}]
  /\ ev        = "none"
  /\ stop      = FALSE
  /\ leaving   = FALSE

-----------------------------------------------------------------------------
(* Steps of the threads' control. *)

At(t, place)   == pc[t] = place /\ closing[t] = "idle"
Goto(t, place) == pc' = [pc EXCEPT ![t] = place]

\* Call CloseSocket and continue at place when it returns.
CallClose(t, place) ==
  /\ Goto(t, place)
  /\ closing' = [closing EXCEPT ![t] = "enter"]

\* m_mutexClose of c is held by t.
HoldsClose(t, c) == cur[t] = c /\ closing[t] \in {"delRead", "delWrite", "closeFd"}

\* The net thread is inside the callback of ev_read or ev_write of c.
InCallback(kind, c) == ev = kind /\ cur["net"] = c

\* Mutant: the build without evthread_use_pthreads, where event_del never waits.
CanDeleteNoWait(t, kind, c) == TRUE

\* event_del returns at once in the thread that runs the callbacks; any other
\* thread waits for the callback of that very event to end.
CanDelete(t, kind, c) == t = "net" \/ ~InCallback(kind, c)

\* The descriptor number of c denotes an open socket: possibly, after a close
\* and an accept, the socket of another connection.
FdOpen(c) == fd[c] # None /\ owner[fd[c]] # None

\* event_add: TRUE when it succeeds.
AddOutcomes(c) == {FdOpen(c)} \cup (IF AddMayFail THEN {FALSE} ELSE {})

SessionHolds(c) == sess[c] \in {"queued", "online"}

-----------------------------------------------------------------------------
(* CNetClient::CloseSocket, run by thread t on cur[t].                     *)

\* Mutant: CloseSocket without its early return on a closed client.
CloseEnterAgain(t) ==
  LET c == cur[t] IN
  /\ closing[t] = "enter"
  /\ \A u \in Threads \ {t} : ~HoldsClose(u, c)
  /\ isClose' = [isClose EXCEPT ![c] = TRUE]
  /\ closing' = [closing EXCEPT ![t] = "delRead"]
  /\ UNCHANGED <<obj, fd, owner, evRead, evWrite, asyncFlag, sessPtr, clientMap,
                 sessVars, pc, cur, todo, ev, stop, leaving>>

CloseEnter(t) ==
  LET c == cur[t] IN
  /\ closing[t] = "enter"
  /\ \A u \in Threads \ {t} : ~HoldsClose(u, c)
  /\ isClose' = [isClose EXCEPT ![c] = TRUE]
  /\ closing' = [closing EXCEPT ![t] = IF isClose[c] THEN "idle" ELSE "delRead"]
  /\ UNCHANGED <<obj, fd, owner, evRead, evWrite, asyncFlag, sessPtr, clientMap,
                 sessVars, pc, cur, todo, ev, stop, leaving>>

\* Mutant: event_del(&ev_read) is forgotten.
CloseKeepRead(t) ==
  /\ closing[t] = "delRead"
  /\ closing' = [closing EXCEPT ![t] = "delWrite"]
  /\ UNCHANGED <<objVars, sessVars, pc, cur, todo, ev, stop, leaving>>

CloseDelRead(t) ==
  LET c == cur[t] IN
  /\ closing[t] = "delRead"
  /\ CanDelete(t, "read", c)
  /\ evRead'  = [evRead EXCEPT ![c] = FALSE]
  /\ closing' = [closing EXCEPT ![t] = "delWrite"]
  /\ UNCHANGED <<obj, fd, owner, isClose, evWrite, asyncFlag, sessPtr, clientMap,
                 sessVars, pc, cur, todo, ev, stop, leaving>>

CloseDelWrite(t) ==
  LET c == cur[t] IN
  /\ closing[t] = "delWrite"
  /\ CanDelete(t, "write", c)
  /\ evWrite' = [evWrite EXCEPT ![c] = FALSE]
  /\ closing' = [closing EXCEPT ![t] = "closeFd"]
  /\ UNCHANGED <<obj, fd, owner, isClose, evRead, asyncFlag, sessPtr, clientMap,
                 sessVars, pc, cur, todo, ev, stop, leaving>>

\* close(m_sockFd), and m_mutexClose is released.
CloseFd(t) ==
  /\ closing[t] = "closeFd"
  /\ owner'   = [owner EXCEPT ![fd[cur[t]]] = None]
  /\ closing' = [closing EXCEPT ![t] = "clearSess"]
  /\ UNCHANGED <<obj, fd, isClose, evRead, evWrite, asyncFlag, sessPtr, clientMap,
                 sessVars, pc, cur, todo, ev, stop, leaving>>

\* m_pSession = NULL under m_mutexSession.
CloseClearSess(t) ==
  /\ closing[t] = "clearSess"
  /\ sessPtr' = [sessPtr EXCEPT ![cur[t]] = FALSE]
  /\ closing' = [closing EXCEPT ![t] = "idle"]
  /\ UNCHANGED <<obj, fd, owner, isClose, evRead, evWrite, asyncFlag, clientMap,
                 sessVars, pc, cur, todo, ev, stop, leaving>>

CloseSocket(t) ==
  \/ CloseEnter(t) \/ CloseDelRead(t) \/ CloseDelWrite(t)
  \/ CloseFd(t) \/ CloseClearSess(t)

-----------------------------------------------------------------------------
(* CServer, in the net thread.                                             *)

\* A connection is accepted on a free descriptor.  When ev_read cannot be
\* added the socket is closed again and the object is nobody's.
OnAccept(c, f) ==
  /\ At("net", "loop")
  /\ obj[c] = "none"
  /\ owner[f] = None
  /\ obj' = [obj EXCEPT ![c] = "live"]
  /\ fd'  = [fd EXCEPT ![c] = f]
  /\ \/ /\ owner'     = [owner EXCEPT ![f] = c]
        /\ evRead'    = [evRead EXCEPT ![c] = TRUE]
        /\ clientMap' = clientMap \cup {c}
        /\ sessPtr'   = [sessPtr EXCEPT ![c] = TRUE]
        /\ sess'      = [sess EXCEPT ![c] = "queued"]
        /\ UNCHANGED isClose
     \/ /\ AddMayFail
        /\ isClose' = [isClose EXCEPT ![c] = TRUE]
        /\ UNCHANGED <<owner, evRead, clientMap, sessPtr, sess>>
  /\ UNCHANGED <<evWrite, asyncFlag, offline, recvq, sendq, outbuf, rcvd, sent, ctlVars>>

\* libevent starts the callback of ev_read (EV_PERSIST: it stays added).
DispatchRead(c) ==
  /\ At("net", "loop")
  /\ evRead[c] /\ FdOpen(c)
  /\ Goto("net", "read")
  /\ cur' = [cur EXCEPT !["net"] = c]
  /\ ev'  = "read"
  /\ UNCHANGED <<objVars, sessVars, closing, todo, stop, leaving>>

\* libevent starts the callback of ev_write (not persistent: it is removed).
DispatchWrite(c) ==
  /\ At("net", "loop")
  /\ evWrite[c] /\ FdOpen(c)
  /\ Goto("net", "write")
  /\ cur'     = [cur EXCEPT !["net"] = c]
  /\ ev'      = "write"
  /\ evWrite' = [evWrite EXCEPT ![c] = FALSE]
  /\ UNCHANGED <<obj, fd, owner, isClose, evRead, asyncFlag, sessPtr, clientMap,
                 sessVars, closing, todo, stop, leaving>>

\* The callback of OnRead: recv returned data, or EAGAIN.
OnRead ==
  /\ At("net", "read")
  /\ Goto("net", "parse")
  /\ UNCHANGED <<objVars, sessVars, closing, cur, todo, ev, stop, leaving>>

\* CNetClient::OnRead finds a complete packet: it is queued under
\* m_mutexSession, or dropped when m_pSession is NULL.
OnReadPacket ==
  LET c == cur["net"] IN
  /\ At("net", "parse")
  /\ rcvd[c] < MaxIn
  /\ rcvd'  = [rcvd EXCEPT ![c] = @ + 1]
  /\ recvq' = [recvq EXCEPT ![c] = IF sessPtr[c] THEN @ + 1 ELSE @]
  /\ UNCHANGED <<objVars, sess, offline, sendq, outbuf, sent, ctlVars>>

\* No further complete packet in the input buffer.
OnReadDone ==
  /\ At("net", "parse")
  /\ Goto("net", "return")
  /\ UNCHANGED <<objVars, sessVars, closing, cur, todo, ev, stop, leaving>>

\* recv returned 0 or an error.
OnReadEnd ==
  /\ At("net", "read")
  /\ CallClose("net", "deref")
  /\ UNCHANGED <<objVars, sessVars, cur, todo, ev, stop, leaving>>

\* CServer::OnWrite, as a callback or called by CheckCloseSocket: the send
\* queue is moved into the output buffer.
OnWrite ==
  LET c == cur["net"] IN
  /\ At("net", "write")
  /\ outbuf' = [outbuf EXCEPT ![c] = @ + sendq[c]]
  /\ sendq'  = [sendq EXCEPT ![c] = 0]
  /\ Goto("net", IF outbuf[c] + sendq[c] = 0 THEN "return" ELSE "send")
  /\ UNCHANGED <<objVars, sess, offline, recvq, rcvd, sent, closing, cur, todo, ev, stop, leaving>>

\* The whole buffer is accepted by the kernel.
OnWriteSent ==
  LET c == cur["net"] IN
  /\ At("net", "send")
  /\ FdOpen(c)
  /\ outbuf' = [outbuf EXCEPT ![c] = 0]
  /\ Goto("net", "return")
  /\ UNCHANGED <<objVars, sess, offline, recvq, sendq, rcvd, sent, closing, cur, todo, ev, stop, leaving>>

\* Mutant: after EAGAIN the write event is not added again.
OnWriteForget ==
  /\ At("net", "send")
  /\ FdOpen(cur["net"])
  /\ Goto("net", "return")
  /\ UNCHANGED <<objVars, sessVars, closing, cur, todo, ev, stop, leaving>>

\* EAGAIN: TryAddWriteEvent; when that fails the client is closed but stays in
\* the map until the timer.
OnWriteAgain ==
  LET c == cur["net"] IN
  /\ At("net", "send")
  /\ FdOpen(c)
  /\ \E ok \in AddOutcomes(c) :
       \/ /\ ok
          /\ evWrite' = [evWrite EXCEPT ![c] = TRUE]
          /\ Goto("net", "return")
          /\ UNCHANGED closing
       \/ /\ ~ok
          /\ CallClose("net", "return")
          /\ UNCHANGED evWrite
  /\ UNCHANGED <<obj, fd, owner, isClose, evRead, asyncFlag, sessPtr, clientMap,
                 sessVars, cur, todo, ev, stop, leaving>>

\* send failed, or the buffer is over E_MAX_BUFFER_LEN.
OnWriteEnd ==
  /\ At("net", "send")
  /\ CallClose("net", "deref")
  /\ UNCHANGED <<objVars, sessVars, cur, todo, ev, stop, leaving>>

\* DeRefClient: the map's reference goes away; the object too when the
\* session no longer holds one.
DeRefClient ==
  LET c == cur["net"] IN
  /\ At("net", "deref")
  /\ clientMap' = clientMap \ {c}
  /\ obj' = [obj EXCEPT ![c] = IF c \in clientMap /\ ~SessionHolds(c) THEN "freed" ELSE @]
  /\ Goto("net", "return")
  /\ UNCHANGED <<fd, owner, isClose, evRead, evWrite, asyncFlag, sessPtr,
                 sessVars, closing, cur, todo, ev, stop, leaving>>

\* The end of OnRead and OnWrite: back to libevent, or to CheckCloseSocket.
Return ==
  /\ At("net", "return")
  /\ IF ev = "timer"
       THEN /\ Goto("net", "flushed")
            /\ UNCHANGED <<cur, ev>>
       ELSE /\ Goto("net", "loop")
            /\ cur' = [cur EXCEPT !["net"] = None]
            /\ ev'  = "none"
  /\ UNCHANGED <<objVars, sessVars, closing, todo, stop, leaving>>

\* OnTimerStopOrDeRef enters CheckCloseSocket.
OnTimer ==
  /\ At("net", "loop")
  /\ Goto("net", "timer1")
  /\ ev'   = "timer"
  /\ todo' = [todo EXCEPT !["net"] = clientMap]
  /\ UNCHANGED <<objVars, sessVars, closing, cur, stop, leaving>>

\* First loop of CheckCloseSocket: serve the asynchronous close flags.
CheckAsyncFlag(c) ==
  /\ At("net", "timer1")
  /\ c \in todo["net"]
  /\ todo' = [todo EXCEPT !["net"] = @ \ {c}]
  /\ cur'  = [cur EXCEPT !["net"] = c]
  /\ \/ asyncFlag[c] = "null"   /\ UNCHANGED <<pc, closing>>
     \/ asyncFlag[c] = "direct" /\ CallClose("net", "timer1")
     \/ asyncFlag[c] = "flush"  /\ Goto("net", "write") /\ UNCHANGED closing
  /\ UNCHANGED <<objVars, sessVars, ev, stop, leaving>>

\* Mutant: the client is closed after a flush only if it was closed already.
CheckFlushedInverted ==
  /\ At("net", "flushed")
  /\ IF isClose[cur["net"]] THEN CallClose("net", "timer1")
                            ELSE Goto("net", "timer1") /\ UNCHANGED closing
  /\ UNCHANGED <<objVars, sessVars, cur, todo, ev, stop, leaving>>

\* After the flush: close once nothing is left to send.
CheckFlushed ==
  LET c == cur["net"] IN
  /\ At("net", "flushed")
  /\ IF ~isClose[c] /\ outbuf[c] = 0
       THEN CallClose("net", "timer1")
       ELSE Goto("net", "timer1") /\ UNCHANGED closing
  /\ UNCHANGED <<objVars, sessVars, cur, todo, ev, stop, leaving>>

\* Second loop of CheckCloseSocket.
CheckSweep ==
  /\ At("net", "timer1") /\ todo["net"] = {}
  /\ Goto("net", "timer2")
  /\ todo' = [todo EXCEPT !["net"] = clientMap]
  /\ UNCHANGED <<objVars, sessVars, closing, cur, ev, stop, leaving>>

\* Mutant: the second loop of CheckCloseSocket erases nothing.
SweepNothing(c) ==
  /\ At("net", "timer2")
  /\ c \in todo["net"]
  /\ todo' = [todo EXCEPT !["net"] = @ \ {c}]
  /\ UNCHANGED <<objVars, sessVars, pc, closing, cur, ev, stop, leaving>>

SweepClient(c) ==
  /\ At("net", "timer2")
  /\ c \in todo["net"]
  /\ todo' = [todo EXCEPT !["net"] = @ \ {c}]
  /\ clientMap' = IF isClose[c] THEN clientMap \ {c} ELSE clientMap
  /\ obj' = [obj EXCEPT ![c] = IF isClose[c] /\ ~SessionHolds(c) THEN "freed" ELSE @]
  /\ UNCHANGED <<fd, owner, isClose, evRead, evWrite, asyncFlag, sessPtr,
                 sessVars, pc, closing, cur, ev, stop, leaving>>

\* The timer is added again, or the event loop is left.
OnTimerEnd ==
  /\ At("net", "timer2") /\ todo["net"] = {}
  /\ Goto("net", IF stop THEN "exit" ELSE "loop")
  /\ cur' = [cur EXCEPT !["net"] = None]
  /\ ev'  = "none"
  /\ UNCHANGED <<objVars, sessVars, closing, todo, stop, leaving>>

-----------------------------------------------------------------------------
(* CSessCtrl and CPlayerSession, in the world thread.                      *)

\* Update3s, or a handler: KickSession only sets the flag.
KickSession(c, flag) ==
  /\ At("world", "idle") \/ At("world", "process")
  /\ sess[c] = "online"
  /\ asyncFlag' = [asyncFlag EXCEPT ![c] = flag]
  /\ UNCHANGED <<obj, fd, owner, isClose, evRead, evWrite, sessPtr, clientMap,
                 sessVars, ctlVars>>

\* UpdateSessions: drain m_addSessQueue, then visit every session.
UpdateSessions ==
  LET joined == [c \in Clients |-> IF sess[c] = "queued" THEN "online" ELSE sess[c]]
  IN
  /\ At("world", "idle")
  /\ ~stop
  /\ sess' = joined
  /\ todo' = [todo EXCEPT !["world"] = {c \in Clients : joined[c] = "online"}]
  /\ Goto("world", "sessions")
  /\ UNCHANGED <<objVars, offline, recvq, sendq, outbuf, rcvd, sent, closing, cur, ev, stop, leaving>>

NextSession(c) ==
  /\ At("world", "sessions")
  /\ c \in todo["world"]
  /\ todo' = [todo EXCEPT !["world"] = @ \ {c}]
  /\ cur'  = [cur EXCEPT !["world"] = c]
  /\ Goto("world", "update")
  /\ UNCHANGED <<objVars, sessVars, closing, ev, stop, leaving>>

EndUpdateSessions ==
  /\ At("world", "sessions") /\ todo["world"] = {}
  /\ Goto("world", "idle")
  /\ UNCHANGED <<objVars, sessVars, closing, cur, todo, ev, stop, leaving>>

GoOffline(c) == offline' = [offline EXCEPT ![c] = @ + 1]

\* Mutant: "||" for "&&" in the loop's condition.
TakePacketUnguarded ==
  LET c == cur["world"] IN
  /\ At("world", "update")
  /\ ~isClose[c]
  /\ recvq' = [recvq EXCEPT ![c] = @ - 1]
  /\ UNCHANGED offline /\ Goto("world", "process")
  /\ UNCHANGED <<objVars, sess, sendq, outbuf, rcvd, sent, closing, cur, todo, ev, stop, leaving>>

\* Mutant: the overloaded session goes offline but Update does not return.
TakePacketNoReturn ==
  LET c == cur["world"] IN
  /\ At("world", "update")
  /\ ~isClose[c] /\ recvq[c] > 0
  /\ recvq' = [recvq EXCEPT ![c] = @ - 1]
  /\ IF recvq[c] - 1 >= MaxPacketOverLoad THEN GoOffline(c) ELSE UNCHANGED offline
  /\ Goto("world", "process")
  /\ UNCHANGED <<objVars, sess, sendq, outbuf, rcvd, sent, closing, cur, todo, ev, stop, leaving>>

\* CPlayerSession::Update takes a packet.  With too many still waiting the
\* session goes offline and is deleted.
TakePacket ==
  LET c == cur["world"] IN
  /\ At("world", "update")
  /\ ~isClose[c] /\ recvq[c] > 0
  /\ recvq' = [recvq EXCEPT ![c] = @ - 1]
  /\ IF recvq[c] - 1 >= MaxPacketOverLoad
       THEN GoOffline(c) /\ Goto("world", "delete")
       ELSE UNCHANGED offline /\ Goto("world", "process")
  /\ UNCHANGED <<objVars, sess, sendq, outbuf, rcvd, sent, closing, cur, todo, ev, stop, leaving>>

\* The handler answers with at most one packet.
Process ==
  /\ At("world", "process")
  /\ \/ Goto("world", "update")
     \/ sent[cur["world"]] < MaxOut /\ Goto("world", "sendChk")
  /\ UNCHANGED <<objVars, sessVars, closing, cur, todo, ev, stop, leaving>>

\* CUserSession::SendPacket gives up on a closed client.
SendCheck ==
  /\ At("world", "sendChk")
  /\ Goto("world", IF isClose[cur["world"]] THEN "update" ELSE "sendAdd")
  /\ UNCHANGED <<objVars, sessVars, closing, cur, todo, ev, stop, leaving>>

\* CNetClient::SendPacket: queue, then event_del and event_add of ev_write.
SendQueue ==
  LET c == cur["world"] IN
  /\ At("world", "sendAdd")
  /\ sendq' = [sendq EXCEPT ![c] = @ + 1]
  /\ sent'  = [sent EXCEPT ![c] = @ + 1]
  /\ Goto("world", "sendDel")
  /\ UNCHANGED <<objVars, sess, offline, recvq, outbuf, rcvd, closing, cur, todo, ev, stop, leaving>>

SendDelEvent ==
  LET c == cur["world"] IN
  /\ At("world", "sendDel")
  /\ CanDelete("world", "write", c)
  /\ evWrite' = [evWrite EXCEPT ![c] = FALSE]
  /\ Goto("world", "sendEv")
  /\ UNCHANGED <<obj, fd, owner, isClose, evRead, asyncFlag, sessPtr, clientMap,
                 sessVars, closing, cur, todo, ev, stop, leaving>>

SendAddEvent ==
  LET c == cur["world"] IN
  /\ At("world", "sendEv")
  /\ \E ok \in AddOutcomes(c) :
       \/ /\ ok
          /\ evWrite' = [evWrite EXCEPT ![c] = TRUE]
          /\ Goto("world", "update")
          /\ UNCHANGED closing
       \/ /\ ~ok
          /\ CallClose("world", "update")
          /\ UNCHANGED evWrite
  /\ UNCHANGED <<obj, fd, owner, isClose, evRead, asyncFlag, sessPtr, clientMap,
                 sessVars, cur, todo, ev, stop, leaving>>

\* The end of CPlayerSession::Update.
EndUpdate ==
  LET c == cur["world"] IN
  /\ At("world", "update")
  /\ isClose[c] \/ recvq[c] = 0
  /\ \/ /\ isClose[c]
        /\ GoOffline(c)
        /\ Goto("world", "delete")
     \/ /\ ~isClose[c]
        /\ UNCHANGED offline
        /\ Goto("world", "sessions")
  /\ UNCHANGED <<objVars, sess, recvq, sendq, outbuf, rcvd, sent, closing, cur, todo, ev, stop, leaving>>

\* Mutant: ~CUserSession leaves the socket alone.
DeleteSessionOnly ==
  /\ At("world", "delete")
  /\ Goto("world", "release") /\ UNCHANGED closing
  /\ UNCHANGED <<objVars, sessVars, cur, todo, ev, stop, leaving>>

\* ~CUserSession closes the socket if nobody has.
DeleteSession ==
  /\ At("world", "delete")
  /\ IF isClose[cur["world"]]
       THEN Goto("world", "release") /\ UNCHANGED closing
       ELSE CallClose("world", "release")
  /\ UNCHANGED <<objVars, sessVars, cur, todo, ev, stop, leaving>>

\* The rest of ~CUserSession: the queue is emptied, the reference dropped.
ReleaseSession ==
  LET c == cur["world"] IN
  /\ At("world", "release")
  /\ sess'  = [sess EXCEPT ![c] = "deleted"]
  /\ recvq' = [recvq EXCEPT ![c] = 0]
  /\ obj'   = [obj EXCEPT ![c] = IF c \in clientMap THEN @ ELSE "freed"]
  /\ Goto("world", IF leaving THEN "offline" ELSE "sessions")
  /\ UNCHANGED <<fd, owner, isClose, evRead, evWrite, asyncFlag, sessPtr, clientMap,
                 offline, sendq, outbuf, rcvd, sent, closing, cur, todo, ev, stop, leaving>>

\* OnSignal.
Signal ==
  /\ MayStop /\ ~stop
  /\ stop' = TRUE
  /\ UNCHANGED <<objVars, sessVars, pc, closing, cur, todo, ev, leaving>>

\* CWorldRunnable leaves its loop: AllOffline visits m_sessions, and not the
\* sessions still in m_addSessQueue.
AllOffline ==
  /\ At("world", "idle")
  /\ stop
  /\ leaving' = TRUE
  /\ todo' = [todo EXCEPT !["world"] = {c \in Clients : sess[c] = "online"}]
  /\ Goto("world", "offline")
  /\ UNCHANGED <<objVars, sessVars, closing, cur, ev, stop>>

OfflineSession(c) ==
  /\ At("world", "offline")
  /\ c \in todo["world"]
  /\ todo' = [todo EXCEPT !["world"] = @ \ {c}]
  /\ cur'  = [cur EXCEPT !["world"] = c]
  /\ GoOffline(c)
  /\ Goto("world", "delete")
  /\ UNCHANGED <<objVars, sess, recvq, sendq, outbuf, rcvd, sent, closing, ev, stop, leaving>>

OfflineEnd ==
  /\ At("world", "offline") /\ todo["world"] = {}
  /\ Goto("world", "exit")
  /\ UNCHANGED <<objVars, sessVars, closing, cur, todo, ev, stop, leaving>>

-----------------------------------------------------------------------------
NetCallback ==
  \/ OnRead \/ OnReadPacket \/ OnReadDone \/ OnReadEnd
  \/ OnWrite \/ OnWriteSent \/ OnWriteAgain \/ OnWriteEnd \/ DeRefClient \/ Return

NetTimer ==
  \/ \E c \in Clients : CheckAsyncFlag(c) \/ SweepClient(c)
  \/ CheckFlushed \/ CheckSweep \/ OnTimerEnd

Dispatch ==
  \/ \E c \in Clients, f \in Fds : OnAccept(c, f)
  \/ \E c \in Clients : DispatchRead(c) \/ DispatchWrite(c)
  \/ OnTimer

WorldSession ==
  \/ TakePacket \/ Process \/ SendCheck \/ SendQueue \/ SendDelEvent \/ SendAddEvent
  \/ EndUpdate \/ DeleteSession \/ ReleaseSession

WorldLoop ==
  \/ \E c \in Clients, flag \in KickFlags : KickSession(c, flag)
  \/ UpdateSessions \/ EndUpdateSessions \/ AllOffline \/ OfflineEnd
  \/ \E c \in Clients : NextSession(c) \/ OfflineSession(c)

Next ==
  \/ \E t \in Threads : CloseSocket(t)
  \/ NetCallback \/ NetTimer \/ Dispatch
  \/ WorldSession \/ WorldLoop
  \/ Signal

(* A thread that can move does move: both are ordinary runnable threads.  A *)
(* callback that was started comes to its end, and libevent serves the      *)
(* timer once it is due however often the sockets are ready.  A thread that *)
(* waits in event_del goes on when the callback it waits for has ended once, *)
(* even if the event fires again at once.  Nothing is assumed of the peers, *)
(* of the handlers or of signals.                                           *)
DeleteEvent == SendDelEvent \/ CloseDelRead("world") \/ CloseDelWrite("world")

Fairness ==
  /\ \A t \in Threads : WF_vars(CloseSocket(t))
  /\ WF_vars(NetCallback) /\ WF_vars(NetTimer)
  /\ SF_vars(OnTimer) /\ SF_vars(DeleteEvent)
  /\ WF_vars(WorldSession)
  /\ WF_vars(UpdateSessions) /\ WF_vars(EndUpdateSessions)
  /\ WF_vars(\E c \in Clients : NextSession(c))
  /\ WF_vars(AllOffline) /\ WF_vars(OfflineEnd)
  /\ WF_vars(\E c \in Clients : OfflineSession(c))

Spec     == Init /\ [][Next]_vars
FairSpec == Spec /\ Fairness

(* With peers that take what is sent to them, or whose connection breaks:   *)
(* send does not answer EAGAIN forever.                                     *)
DrainSpec == FairSpec /\ SF_vars(OnWriteSent \/ OnWriteEnd)

-----------------------------------------------------------------------------
TypeOK ==
  /\ obj       \in [Clients -> {"none", "live", "freed"}]
  /\ fd        \in [Clients -> Fds \cup {None}]
  /\ owner     \in [Fds -> Clients \cup {None}]
  /\ isClose   \in [Clients -> BOOLEAN]
  /\ evRead    \in [Clients -> BOOLEAN]
  /\ evWrite   \in [Clients -> BOOLEAN]
  /\ asyncFlag \in [Clients -> {"null", "direct", "flush"}]
  /\ sessPtr   \in [Clients -> BOOLEAN]
  /\ clientMap \subseteq Clients
  /\ sess      \in [Clients -> {"none", "queued", "online", "deleted"}]
  /\ offline   \in [Clients -> Nat]
  /\ recvq     \in [Clients -> Nat]
  /\ sendq     \in [Clients -> Nat]
  /\ outbuf    \in [Clients -> Nat]
  /\ rcvd      \in [Clients -> Nat]
  /\ sent      \in [Clients -> Nat]
  /\ pc        \in [Threads -> NetPlaces \cup WorldPlaces]
  /\ closing   \in [Threads -> ClosePlaces]
  /\ cur       \in [Threads -> Clients \cup {None}]
  /\ todo      \in [Threads -> SUBSET Clients]
  /\ ev        \in {"none", "read", "write", "timer"}
  /\ stop      \in BOOLEAN
  /\ leaving   \in BOOLEAN

(* CNetClient::OnRead hands packets to m_pSession: when it is about to, the *)
(* session it would use has not been deleted by the world thread.           *)
SessionPointerSafe ==
  At("net", "parse") /\ sessPtr[cur["net"]] => SessionHolds(cur["net"])

(* close(2) in CloseSocket closes the connection's own socket: never one    *)
(* that is closed already or that accept has handed out again.              *)
CloseOwnSocket ==
  \A t \in Threads : closing[t] = "closeFd" => owner[fd[cur[t]]] = cur[t]

(* A CNetClient is destroyed only after its socket was closed and ev_read   *)
(* left libevent.  (ev_write has no such guarantee: SendPacket may add it   *)
(* while CloseSocket runs in the net thread, see DerefFindsClient.)         *)
FreedIsQuiet ==
  \A c \in Clients : obj[c] = "freed" =>
    /\ isClose[c] /\ ~evRead[c]
    /\ \A f \in Fds : owner[f] # c

(* While the net thread reads from a connection, or flushes it from the     *)
(* timer, up to DeRefClient and the return, the object is there.            *)
CallbackOnLiveObject ==
  /\ ev \in {"read", "timer"}
  /\ pc["net"] \in {"read", "parse", "write", "send", "deref"}
  => obj[cur["net"]] = "live"

(* Offline() runs exactly once in the life of a session, before its end.    *)
OfflineOnce ==
  \A c \in Clients :
    /\ offline[c] <= 1
    /\ sess[c] = "deleted" => offline[c] = 1

(* The assertion in DeRefClient: the client is in the map.                  *)
DerefFindsClient == At("net", "deref") => cur["net"] \in clientMap

(* Packets waiting on an open connection are never forgotten: ev_write is   *)
(* added, or a thread is between queueing a packet and adding the event.    *)
NoLostWakeup ==
  \A c \in Clients :
    obj[c] = "live" /\ ~isClose[c] /\ sendq[c] + outbuf[c] > 0 =>
      \/ evWrite[c]
      \/ cur["net"] = c /\ pc["net"] \in {"write", "send"}
      \/ cur["net"] = c /\ closing["net"] # "idle"
      \/ cur["world"] = c /\ pc["world"] \in {"sendDel", "sendEv"}
      \/ cur["world"] = c /\ closing["world"] # "idle"

(* A connection whose socket was closed, from either side, loses its        *)
(* session in the world thread and then its memory.                         *)
ClosedIsReaped == \A c \in Clients : isClose[c] ~> obj[c] = "freed"

(* KickSession and CheckCloseSocket: a kicked connection is closed in the   *)
(* end, although more may be sent to it meanwhile.                          *)
KickedIsClosed == \A c \in Clients : asyncFlag[c] # "null" ~> isClose[c]

(* AllOffline comes to its end after a termination signal, and the world    *)
(* thread that main waits for ends.                                         *)
StopEndsWorld == stop ~> pc["world"] = "exit"

=============================================================================
