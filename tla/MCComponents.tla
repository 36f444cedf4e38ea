---------------------------- MODULE MCComponents ----------------------------
(***************************************************************************)
(* The components of one process that keep their state to themselves: each *)
(* one makes steps in its own part of the state space, in which the others *)
(* stay as they were at first.                                             *)
(***************************************************************************)
EXTENDS DelayedWrites, SocketBuffer, RelayClient, IdRange, ObjectCache, GameServers

VARIABLE part

allVars == <<part, cacheVars, bufferVars, relayVars, rangeVars, objVars, serverVars>>

\* A manager for each object.
OwnManager == [o \in Objects |-> o]

Init ==
  /\ part \in {"cache", "buffer", "relay", "ids", "objects", "servers"}
  /\ CacheInit /\ BufferInit /\ RelayInit /\ RangeInit /\ ObjInit /\ ServersInit

Cache(A) ==
  part = "cache" /\ A /\ UNCHANGED <<part, bufferVars, relayVars, rangeVars, objVars, serverVars>>
Buffer(A) ==
  part = "buffer" /\ A /\ UNCHANGED <<part, cacheVars, relayVars, rangeVars, objVars, serverVars>>
Relay(A) ==
  part = "relay" /\ A /\ UNCHANGED <<part, cacheVars, bufferVars, rangeVars, objVars, serverVars>>
Ids(A) ==
  part = "ids" /\ A /\ UNCHANGED <<part, cacheVars, bufferVars, relayVars, objVars, serverVars>>
Objs(A) ==
  part = "objects" /\ A
  /\ UNCHANGED <<part, cacheVars, bufferVars, relayVars, rangeVars, serverVars>>
Status(A) ==
  part = "servers" /\ A /\ UNCHANGED <<part, cacheVars, bufferVars, relayVars, rangeVars, objVars>>

CacheStep ==
  \/ \E o \in Objects :
       \/ Cache(Attach(o)) \/ Cache(FindInCache(o)) \/ Cache(Change(o)) \/ Cache(Release(o))
       \/ Cache(Execute(o)) \/ Cache(ShutdownObject(o))
  \/ \E m \in Managers : Cache(Update(m)) \/ Cache(Shutdown(m)) \/ Cache(ShutdownEnd(m))
  \/ Cache(CacheTick) \/ Cache(StopServer) \/ Cache(ThreadEnds)

BufferStep ==
  \/ \E s \in BytesUpTo(MaxAppend) : Buffer(BufferAppend(s))
  \/ \E n \in 1 .. MaxAppend : Buffer(AppendFails(n))
  \/ \E s \in BytesUpTo(MaxRead) : Buffer(SockRead(s))
  \/ Buffer(SockReadFails)
  \/ \E n \in 0 .. off : Buffer(Erase(n))

RelayStep ==
  \/ \E f \in Frames : Relay(ServerSend(f))
  \/ \E n \in 0 .. Len(wire) : Relay(ServerBreak(n))
  \/ \E n \in 1 .. Len(wire) : Relay(OnRead(n))
  \/ Relay(OnTimer) \/ Relay(Connect) \/ Relay(ConnectFails) \/ Relay(SetConnected)
  \/ Relay(ReadEnd) \/ Relay(Parse) \/ Relay(ParseEnd) \/ Relay(OnWrite) \/ Relay(WriteError)
  \/ Relay(SendPacket) \/ Relay(SendQueue) \/ Relay(SendEvent) \/ Relay(SendClose)

IdsStep == Ids(GetFree) \/ Ids(GetGrown) \/ \E p \in DOMAIN list : Ids(GiveIdBack(p))

ObjsStep ==
  \/ \E k \in Keys : \/ Objs(GetHit(k)) \/ Objs(GetMiss(k)) \/ Objs(GetMissFull(k))
                     \/ Objs(AddResidentKey(k))
  \/ Objs(OnObjTimer) \/ Objs(Modify) \/ Objs(SaveAllData)
  \/ Objs(ClearResidentKey) \/ Objs(ObjTick)

StatusStep ==
  \/ \E s \in GameServers, players, open \in BOOLEAN : Status(Beat(s, players, open))
  \/ \E s \in GameServers : Status(GoDown(s))
  \/ \E l \in Logins :
       \/ \E s \in GameServers : Status(ReadOnline(l, s)) \/ Status(Choose(l, s))
       \/ Status(Poll(l)) \/ Status(ClearOnline(l)) \/ Status(Redirect(l))
       \/ Status(Arrive(l)) \/ Status(Restart(l))

Next == CacheStep \/ BufferStep \/ RelayStep \/ IdsStep \/ ObjsStep \/ StatusStep

\* The world thread calls Update in each of its rounds, the delay thread runs, and time
\* goes on.
CacheFairness ==
  /\ \A m \in Managers : WF_cacheVars(part = "cache" /\ Update(m))
  /\ \A o \in Objects : WF_cacheVars(part = "cache" /\ Execute(o))
  /\ WF_cacheVars(part = "cache" /\ CacheTick)

\* The event loop of the relay thread goes on, and so does a SendPacket that was begun.
RelayFairness ==
  /\ WF_relayVars(part = "relay" /\ RelayThread)
  /\ WF_relayVars(part = "relay" /\ SendGoesOn)

\* The world thread of a login server finishes what it began.  It looks at its timers in
\* each round, so that players who choose servers cannot keep it from polling.
LoginFairness(l) ==
  /\ SF_serverVars(part = "servers" /\ Poll(l))
  /\ \A s \in GameServers : WF_serverVars(part = "servers" /\ ReadOnline(l, s))
  /\ WF_serverVars(part = "servers" /\ ClearOnline(l))
  /\ WF_serverVars(part = "servers" /\ Redirect(l))
  /\ WF_serverVars(part = "servers" /\ Arrive(l))

Spec ==
  Init /\ [][Next]_allVars /\ CacheFairness /\ RelayFairness /\ \A l \in Logins : LoginFairness(l)

\* The types of all components.
ComponentsTypeOK ==
  CacheTypeOK /\ BufferTypeOK /\ RelayTypeOK /\ RangeTypeOK /\ ObjTypeOK /\ ServersTypeOK
=============================================================================
