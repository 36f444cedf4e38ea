------------------------- MODULE GameServersProofs -------------------------
(***************************************************************************)
(* Proofs about GameServers, for any login servers, game servers and       *)
(* bounds.                                                                 *)
(***************************************************************************)
EXTENDS GameServers, TLAPS

-----------------------------------------------------------------------------
(* The invariant.                                                          *)

\* A row that was not read since it was written was written after the last poll.
InvUnread ==
  \A l \in Logins, s \in GameServers : unread[l][s] => silent[l][s] = 0

\* A server that a poll has met since it came up runs and has an entry, which is alive
\* after the second poll.
InvPolled ==
  \A l \in Logins, s \in GameServers : polled[l][s] > 0 =>
    /\ running[s] /\ s \in DOMAIN entry[l]
    /\ polled[l][s] = 2 => entry[l][s].alive

\* An entry has the entrance of its server or of one that this was merged into; when it
\* is alive, this one wrote its row since the poll before the last one.
InvEntry ==
  \A l \in Logins : \A s \in DOMAIN entry[l] :
    /\ entry[l][s].addr \in Chain(s)
    /\ entry[l][s].alive => silent[l][entry[l][s].addr] <= 1

\* GetServerIdMerged goes along the log.
InvWalk ==
  \A l \in Logins : walk[l] # NoChoice =>
    walk[l].server \in GameServers /\ walk[l].addr \in Chain(walk[l].server)

\* A handler walks.
InvAt == \A l \in Logins : at[l] = "walk" => walk[l] # NoChoice

ServersInv ==
  ServersTypeOK /\ InvUnread /\ InvPolled /\ InvEntry /\ InvWalk /\ InvAt /\ EntranceRecent
-----------------------------------------------------------------------------
(* The merge log.                                                          *)

\* A server leads to itself in no step.
LEMMA ChainBegins == \A s \in GameServers : s \in Chain(s)
BY DEF Chain

\* One step along the log, GetServerIdMerged, stays in the chain.
LEMMA ChainGoesOn ==
  ASSUME ServersTypeOK, NEW s, NEW t \in Chain(s), mergedTo[t] # NoServer
  PROVE  mergedTo[t] \in Chain(s)
<1>1. t \in GameServers /\ mergedTo[t] \in GameServers
  BY DEF Chain, ServersTypeOK
<1>2. ASSUME NEW C \in SUBSET GameServers, s \in C, Closed(C)
      PROVE  mergedTo[t] \in C
  BY <1>2 DEF Chain, Closed, Merged
<1> QED  BY <1>1, <1>2 DEF Chain

\* What is in the chain of a server in the chain is in the chain.
LEMMA ChainTransitive ==
  ASSUME NEW s, NEW t \in Chain(s), NEW u \in Chain(t)
  PROVE  u \in Chain(s)
BY DEF Chain

\* A merge takes nothing out of a chain.
LEMMA ChainGrows ==
  ASSUME ServersTypeOK, NEW a \in GameServers, NEW b \in GameServers, Merge(a, b), NEW s
  PROVE  Chain(s) \subseteq Chain(s)'
<1>1. mergedTo[a] = NoServer /\ mergedTo' = [mergedTo EXCEPT ![a] = b]
  BY DEF Merge
<1>2. ASSUME NEW C \in SUBSET GameServers, Closed(C)'
      PROVE  Closed(C)
  BY <1>1, <1>2 DEF Closed, Merged, ServersTypeOK
<1> QED  BY <1>2 DEF Chain

LEMMA ChainKept ==
  ASSUME UNCHANGED mergedTo, NEW s
  PROVE  Chain(s)' = Chain(s)
BY DEF Chain, Closed, Merged

-----------------------------------------------------------------------------
(* Types.                                                                  *)

LEMMA EntryMapFacts ==
  ASSUME NEW f
  PROVE  f \in EntryMap <=> DOMAIN f \subseteq GameServers /\ f \in [DOMAIN f -> Entries]
BY DEF EntryMap

LEMMA ExceptType ==
  ASSUME NEW S, NEW T, NEW f \in [S -> T], NEW x, NEW v \in T
  PROVE  [f EXCEPT ![x] = v] \in [S -> T]
OBVIOUS

LEMMA UpTo2Type == \A n \in 0 .. 2 : UpTo2(n) \in 0 .. 2
BY DEF UpTo2

\* The fields of the entries that a poll makes and of those that it redirects.
LEMMA PolledMap ==
  ASSUME ServersTypeOK, NEW l \in Logins, NEW f,
         \/ f = [s \in Rows \cup DOMAIN entry[l] |->
                   IF s \in Rows THEN FromRow(l, s) ELSE NotAlive(entry[l][s])]
         \/ f = [s \in DOMAIN entry[l] |-> NotAlive(entry[l][s])]
  PROVE  f \in EntryMap
<1>1. DOMAIN entry[l] \subseteq GameServers /\ entry[l] \in [DOMAIN entry[l] -> Entries]
  BY EntryMapFacts DEF ServersTypeOK
<1>2. \A s \in DOMAIN entry[l] : NotAlive(entry[l][s]) \in Entries
  BY <1>1 DEF NotAlive, Entries
<1>3. \A s \in Rows : FromRow(l, s) \in Entries
  <2>1. \A s \in Rows : s \in GameServers /\ canLogin[s] \in BOOLEAN
    BY DEF Rows, ServersTypeOK
  <2>2. \A s \in Rows : AliveNow(l, s) \in BOOLEAN
    BY DEF AliveNow
  <2> QED  BY <2>1, <2>2 DEF FromRow, Entries
<1>4. Rows \subseteq GameServers
  BY DEF Rows
<1> QED  BY <1>1, <1>2, <1>3, <1>4, EntryMapFacts

LEMMA RedirectedMap ==
  ASSUME ServersTypeOK, NEW l \in Logins, NEW f,
         f = [s \in DOMAIN entry[l] |->
               IF Redirects(l, s) THEN entry[l][CHOOSE m \in Masters(l, s) : TRUE]
                                  ELSE entry[l][s]]
  PROVE  f \in EntryMap
<1>1. DOMAIN entry[l] \subseteq GameServers /\ entry[l] \in [DOMAIN entry[l] -> Entries]
  BY EntryMapFacts DEF ServersTypeOK
<1>2. \A s : Redirects(l, s) => (CHOOSE m \in Masters(l, s) : TRUE) \in DOMAIN entry[l]
  BY DEF Redirects, Masters
<1> QED  BY <1>1, <1>2, EntryMapFacts

\* Each step keeps the types.
LEMMA ServersTypeStep ==
  ASSUME ServersTypeOK, InvWalk, InvAt, [ServersNext]_serverVars
  PROVE  ServersTypeOK'
<1>1. ASSUME NEW s \in GameServers, NEW players \in BOOLEAN, NEW open \in BOOLEAN,
             Beat(s, players, open)
      PROVE  ServersTypeOK'
  BY <1>1 DEF Beat, loginVars, ServersTypeOK
<1>2. ASSUME NEW s \in GameServers, GoDown(s)
      PROVE  ServersTypeOK'
  BY <1>2 DEF GoDown, loginVars, ServersTypeOK
<1>3. ASSUME NEW s \in GameServers, NEW t \in GameServers, Merge(s, t)
      PROVE  ServersTypeOK'
  BY <1>3 DEF Merge, loginVars, ServersTypeOK
<1>4. ASSUME NEW l \in Logins, Poll(l)
      PROVE  ServersTypeOK'
  <2>0. PICK f : /\ entry' = [entry EXCEPT ![l] = f]
                 /\ \/ f = [s \in Rows \cup DOMAIN entry[l] |->
                              IF s \in Rows THEN FromRow(l, s) ELSE NotAlive(entry[l][s])]
                    \/ f = [s \in DOMAIN entry[l] |-> NotAlive(entry[l][s])]
    BY <1>4 DEF Poll, ServersTypeOK
  <2>1. /\ \/ silent' = silent
           \/ silent' = [silent EXCEPT ![l] = [s \in GameServers |-> UpTo2(silent[l][s])]]
        /\ \/ polled' = [polled EXCEPT ![l] = [s \in GameServers |->
                           IF running[s] THEN UpTo2(polled[l][s]) ELSE 0]]
           \/ polled' = [polled EXCEPT ![l] = [s \in GameServers |->
                           IF polled[l][s] > 1 THEN 1 ELSE polled[l][s]]]
    BY <1>4 DEF Poll, ServersTypeOK
  <2>2. /\ \/ unread' = unread
           \/ unread' = [unread EXCEPT ![l] = [s \in GameServers |-> FALSE]]
        /\ closing' = closing \/ closing' = [closing EXCEPT ![l] = Unchanged(l)]
        /\ at' = at \/ at' = [at EXCEPT ![l] = "close"]
        /\ answer' = [answer EXCEPT ![l] = NoChoice]
        /\ lost' = lost \/ (lost < MaxLost /\ lost' = lost + 1)
        /\ UNCHANGED <<tableVars, clearing, walk, restarts>>
    BY <1>4 DEF Poll, Answered, Fails
  <2>3. entry' \in [Logins -> EntryMap]
    <3>1. f \in EntryMap
      BY <2>0, PolledMap
    <3> QED  BY <2>0, <3>1, ExceptType DEF ServersTypeOK
  <2>4. silent' \in [Logins -> [GameServers -> 0 .. 2]]
    <3>1. silent \in [Logins -> [GameServers -> 0 .. 2]]
      BY DEF ServersTypeOK
    <3>2. [s \in GameServers |-> UpTo2(silent[l][s])] \in [GameServers -> 0 .. 2]
      BY <3>1, UpTo2Type
    <3> QED  BY <2>1, <3>1, <3>2
  <2>5. polled' \in [Logins -> [GameServers -> 0 .. 2]]
    <3>1. polled \in [Logins -> [GameServers -> 0 .. 2]]
      BY DEF ServersTypeOK
    <3>2. [s \in GameServers |-> IF running[s] THEN UpTo2(polled[l][s]) ELSE 0]
            \in [GameServers -> 0 .. 2]
      BY <3>1, UpTo2Type
    <3>3. [s \in GameServers |-> IF polled[l][s] > 1 THEN 1 ELSE polled[l][s]]
            \in [GameServers -> 0 .. 2]
      BY <3>1
    <3> QED  BY <2>1, <3>1, <3>2, <3>3
  <2>6. closing' \in [Logins -> SUBSET GameServers]
    <3>1. Unchanged(l) \in SUBSET GameServers
      BY DEF Unchanged, Rows
    <3>2. closing' = closing \/ closing' = [closing EXCEPT ![l] = Unchanged(l)]
      BY <2>2
    <3>3. closing \in [Logins -> SUBSET GameServers]
      BY DEF ServersTypeOK
    <3> QED  BY <3>1, <3>2, <3>3, ExceptType
  <2>7. lost' \in 0 .. MaxLost
    BY <2>2, ServersAssumption DEF ServersTypeOK
  <2>8. answer' \in [Logins -> ServerChoices]
    BY <2>2 DEF ServersTypeOK, ServerChoices, NoChoice
  <2>9. unread' \in [Logins -> [GameServers -> BOOLEAN]]
    <3>1. [s \in GameServers |-> FALSE] \in [GameServers -> BOOLEAN]
      OBVIOUS
    <3>2. unread' = unread \/ unread' = [unread EXCEPT ![l] = [s \in GameServers |-> FALSE]]
      BY <2>2
    <3>3. unread \in [Logins -> [GameServers -> BOOLEAN]]
      BY DEF ServersTypeOK
    <3> QED  BY <3>1, <3>2, <3>3, ExceptType
  <2> QED  BY <2>2, <2>3, <2>4, <2>5, <2>6, <2>7, <2>8, <2>9 DEF ServersTypeOK, tableVars
<1>5. ASSUME NEW l \in Logins, NEW s \in GameServers, ReadOnline(l, s)
      PROVE  ServersTypeOK'
  BY <1>5, ServersAssumption DEF ReadOnline, Answered, Fails, tableVars, ServersTypeOK
<1>6. ASSUME NEW l \in Logins, ClearOnline(l)
      PROVE  ServersTypeOK'
  <2>1. online' \in [GameServers -> BOOLEAN]
    BY <1>6, ExceptType DEF ClearOnline, ServersTypeOK
  <2>2. lost' \in 0 .. MaxLost
    BY <1>6, ServersAssumption DEF ClearOnline, Answered, Fails, ServersTypeOK
  <2> QED  BY <1>6, <2>1, <2>2 DEF ClearOnline, ServersTypeOK
<1>7. ASSUME NEW l \in Logins, Redirect(l)
      PROVE  ServersTypeOK'
  <2>1. PICK f : /\ entry' = entry \/ entry' = [entry EXCEPT ![l] = f]
                 /\ f = [s \in DOMAIN entry[l] |->
                           IF Redirects(l, s) THEN entry[l][CHOOSE m \in Masters(l, s) : TRUE]
                                              ELSE entry[l][s]]
    BY <1>7 DEF Redirect, ServersTypeOK
  <2>2. entry' \in [Logins -> EntryMap]
    BY <2>1, RedirectedMap, ExceptType DEF ServersTypeOK
  <2>3. lost' \in 0 .. MaxLost
    BY <1>7, ServersAssumption DEF Redirect, Answered, Fails, ServersTypeOK
  <2> QED  BY <1>7, <2>2, <2>3 DEF Redirect, tableVars, ServersTypeOK
<1>8. ASSUME NEW l \in Logins, NEW s \in GameServers, Choose(l, s)
      PROVE  ServersTypeOK'
  BY <1>8 DEF Choose, ServerChoices, tableVars, ServersTypeOK
<1>9. ASSUME NEW l \in Logins, Hop(l)
      PROVE  ServersTypeOK'
  <2>1. walk[l] \in ServerChoices /\ walk[l].addr \in GameServers
    BY <1>9 DEF Hop, InvAt, InvWalk, Chain, ServersTypeOK
  <2>2. mergedTo[walk[l].addr] \in GameServers \cup {NoServer}
    BY <2>1 DEF ServersTypeOK
  <2>3. walk' = [walk EXCEPT ![l] = [server |-> walk[l].server, addr |-> mergedTo[walk[l].addr]]]
    <3>1. walk' = [walk EXCEPT ![l] = [walk[l] EXCEPT !.addr = mergedTo[walk[l].addr]]]
      BY <1>9 DEF Hop, ServersTypeOK
    <3>2. [walk[l] EXCEPT !.addr = mergedTo[walk[l].addr]]
            = [server |-> walk[l].server, addr |-> mergedTo[walk[l].addr]]
      BY <2>1 DEF ServerChoices
    <3> QED  BY <3>1, <3>2
  <2>4. [server |-> walk[l].server, addr |-> mergedTo[walk[l].addr]] \in ServerChoices
    BY <1>9, <2>1, <2>2 DEF Hop, ServerChoices
  <2>5. walk' \in [Logins -> ServerChoices]
    BY <2>3, <2>4, ExceptType DEF ServersTypeOK
  <2> QED  BY <1>9, <2>5 DEF Hop, Answered, tableVars, ServersTypeOK
<1>10. ASSUME NEW l \in Logins, Arrive(l)
       PROVE  ServersTypeOK'
  <2>1. walk[l].server \in GameServers \cup {NoServer}
    BY DEF ServerChoices, ServersTypeOK
  <2>2. Enters(l, walk[l].addr) => entry[l][walk[l].addr].addr \in GameServers
    BY EntryMapFacts DEF Enters, Entries, ServersTypeOK
  <2>3. answer' \in [Logins -> ServerChoices]
    BY <1>10, <2>1, <2>2 DEF Arrive, ServerChoices, NoChoice, ServersTypeOK
  <2> QED  BY <1>10, <2>3, ServersAssumption DEF Arrive, ServerChoices, NoChoice, Answered, Fails, tableVars, ServersTypeOK
<1>11. ASSUME NEW l \in Logins, Restart(l)
       PROVE  ServersTypeOK'
  <2>1. NoEntries \in EntryMap
    BY EntryMapFacts DEF NoEntries
  <2> QED  BY <1>11, <2>1, ServersAssumption DEF Restart, ServerChoices, NoChoice, tableVars, ServersTypeOK
<1>12. CASE UNCHANGED serverVars
  BY <1>12 DEF serverVars, tableVars, loginVars, ServersTypeOK
<1> QED
  BY <1>1, <1>2, <1>3, <1>4, <1>5, <1>6, <1>7, <1>8, <1>9, <1>10, <1>11, <1>12 DEF ServersNext

-----------------------------------------------------------------------------
(* The parts of the invariant, step by step.                               *)

LEMMA UnreadStep ==
  ASSUME ServersTypeOK, InvUnread, [ServersNext]_serverVars
  PROVE  InvUnread'
<1>1. ASSUME NEW s \in GameServers, NEW players \in BOOLEAN, NEW open \in BOOLEAN,
             Beat(s, players, open)
      PROVE  InvUnread'
  BY <1>1 DEF Beat, InvUnread, ServersTypeOK
<1>2. ASSUME NEW l \in Logins, Poll(l)
      PROVE  InvUnread'
  <2>1. CASE UNCHANGED <<unread, silent>>
    BY <2>1 DEF InvUnread
  <2>2. CASE /\ unread' = [unread EXCEPT ![l] = [s \in GameServers |-> FALSE]]
             /\ silent' = [silent EXCEPT ![l] = [s \in GameServers |-> UpTo2(silent[l][s])]]
    <3> SUFFICES ASSUME NEW k \in Logins, NEW s \in GameServers, unread'[k][s]
                 PROVE  silent'[k][s] = 0
      BY DEF InvUnread
    <3>1. k # l
      BY <2>2 DEF ServersTypeOK
    <3> QED  BY <2>2, <3>1 DEF InvUnread, ServersTypeOK
  <2> QED  BY <1>2, <2>1, <2>2 DEF Poll
<1>3. CASE UNCHANGED <<unread, silent>>
  BY <1>3 DEF InvUnread
<1> QED
  BY <1>1, <1>2, <1>3 DEF ServersNext, serverVars, GoDown, Merge, ReadOnline, ClearOnline, Redirect,
     Choose, Hop, Arrive, Restart

LEMMA AtStep ==
  ASSUME ServersTypeOK, InvAt, [ServersNext]_serverVars
  PROVE  InvAt'
<1>1. ASSUME NEW l \in Logins, NEW s \in GameServers, Choose(l, s)
      PROVE  InvAt'
  BY <1>1, ServersAssumption DEF Choose, InvAt, NoChoice, ServersTypeOK
<1>2. ASSUME NEW l \in Logins, Hop(l)
      PROVE  InvAt'
  <2>1. walk[l] \in ServerChoices
    BY DEF ServersTypeOK
  <2>2. walk'[l].addr # NoServer
    BY <1>2, <2>1 DEF Hop, ServerChoices, ServersTypeOK
  <2> QED  BY <1>2, <2>2 DEF Hop, InvAt, NoChoice, ServersTypeOK
<1>3. ASSUME NEW l \in Logins, Poll(l) \/ Redirect(l)
      PROVE  InvAt'
  <2>1. UNCHANGED walk /\ \/ at' = at
                          \/ at' = [at EXCEPT ![l] = "close"]
                          \/ at' = [at EXCEPT ![l] = "idle"]
    BY <1>3 DEF Poll, Redirect
  <2> QED  BY <2>1 DEF InvAt, ServersTypeOK
<1>4. ASSUME NEW l \in Logins, Arrive(l) \/ Restart(l)
      PROVE  InvAt'
  <2>1. at' = [at EXCEPT ![l] = "idle"] /\ walk' = [walk EXCEPT ![l] = NoChoice]
    BY <1>4 DEF Arrive, Restart
  <2> QED  BY <2>1 DEF InvAt, ServersTypeOK
<1>5. CASE UNCHANGED <<at, walk>>
  BY <1>5 DEF InvAt
<1> QED
  BY <1>1, <1>2, <1>3, <1>4, <1>5 DEF ServersNext, serverVars, loginVars, Beat, GoDown, Merge,
     ReadOnline, ClearOnline

LEMMA WalkStep ==
  ASSUME ServersTypeOK, InvWalk, InvAt, [ServersNext]_serverVars
  PROVE  InvWalk'
<1>1. ASSUME NEW l \in Logins, NEW s \in GameServers, Choose(l, s)
      PROVE  InvWalk'
  <2>1. \A x : Chain(x)' = Chain(x)
    BY <1>1, ChainKept DEF Choose, tableVars
  <2> QED  BY <1>1, <2>1, ChainBegins DEF Choose, InvWalk, ServersTypeOK
<1>2. ASSUME NEW l \in Logins, Hop(l)
      PROVE  InvWalk'
  <2>1. \A x : Chain(x)' = Chain(x)
    BY <1>2, ChainKept DEF Hop, tableVars
  <2>2. walk[l] # NoChoice /\ walk[l] \in ServerChoices
    BY <1>2 DEF Hop, InvAt, ServersTypeOK
  <2>3. walk[l].server \in GameServers /\ walk[l].addr \in Chain(walk[l].server)
    BY <2>2 DEF InvWalk
  <2>4. mergedTo[walk[l].addr] \in Chain(walk[l].server)
    BY <1>2, <2>3, ChainGoesOn DEF Hop
  <2>5. walk'[l].server = walk[l].server /\ walk'[l].addr = mergedTo[walk[l].addr]
    BY <1>2, <2>2 DEF Hop, ServerChoices, ServersTypeOK
  <2>6. \A k \in Logins : k # l => walk'[k] = walk[k]
    BY <1>2 DEF Hop, ServersTypeOK
  <2> QED  BY <2>1, <2>3, <2>4, <2>5, <2>6 DEF InvWalk
<1>3. ASSUME NEW a \in GameServers, NEW b \in GameServers, Merge(a, b)
      PROVE  InvWalk'
  <2>1. \A x : Chain(x) \subseteq Chain(x)'
    BY <1>3, ChainGrows
  <2> QED  BY <1>3, <2>1 DEF Merge, loginVars, InvWalk
<1>4. ASSUME NEW l \in Logins, Arrive(l) \/ Restart(l)
      PROVE  InvWalk'
  <2>1. UNCHANGED mergedTo /\ walk' = [walk EXCEPT ![l] = NoChoice]
    BY <1>4 DEF Arrive, Restart, tableVars
  <2>2. \A x : Chain(x)' = Chain(x)
    BY <2>1, ChainKept
  <2> QED  BY <2>1, <2>2 DEF InvWalk, ServersTypeOK
<1>5. CASE UNCHANGED <<mergedTo, walk>>
  <2>1. \A x : Chain(x)' = Chain(x)
    BY <1>5, ChainKept
  <2> QED  BY <1>5, <2>1 DEF InvWalk
<1> QED
  BY <1>1, <1>2, <1>3, <1>4, <1>5 DEF ServersNext, serverVars, tableVars, loginVars, Beat, GoDown,
     Poll, ReadOnline, ClearOnline, Redirect

\* The two ways in which a poll ends, without the EXCEPTs.
LEMMA PollRead ==
  ASSUME ServersTypeOK, NEW l \in Logins, Poll(l)
  PROVE  \/ /\ entry'[l] = [s \in Rows \cup DOMAIN entry[l] |->
                              IF s \in Rows THEN FromRow(l, s) ELSE NotAlive(entry[l][s])]
            /\ silent'[l] = [s \in GameServers |-> UpTo2(silent[l][s])]
            /\ polled'[l] = [s \in GameServers |-> IF running[s] THEN UpTo2(polled[l][s]) ELSE 0]
         \/ /\ entry'[l] = [s \in DOMAIN entry[l] |-> NotAlive(entry[l][s])]
            /\ silent'[l] = silent[l]
            /\ polled'[l] = [s \in GameServers |->
                               IF polled[l][s] > 1 THEN 1 ELSE polled[l][s]]
<1>1. entry \in [Logins -> EntryMap] /\ DOMAIN silent = Logins /\ DOMAIN polled = Logins
  BY DEF ServersTypeOK
<1>2. \/ /\ entry' = [entry EXCEPT ![l] = [s \in Rows \cup DOMAIN entry[l] |->
                          IF s \in Rows THEN FromRow(l, s) ELSE NotAlive(entry[l][s])]]
         /\ silent' = [silent EXCEPT ![l] = [s \in GameServers |-> UpTo2(silent[l][s])]]
         /\ polled' = [polled EXCEPT ![l] = [s \in GameServers |->
                          IF running[s] THEN UpTo2(polled[l][s]) ELSE 0]]
      \/ /\ entry' = [entry EXCEPT ![l] = [s \in DOMAIN entry[l] |-> NotAlive(entry[l][s])]]
         /\ silent' = silent
         /\ polled' = [polled EXCEPT ![l] = [s \in GameServers |->
                          IF polled[l][s] > 1 THEN 1 ELSE polled[l][s]]]
  BY <1>1 DEF Poll
<1> QED  BY <1>1, <1>2

LEMMA PollOthers ==
  ASSUME ServersTypeOK, NEW l \in Logins, Poll(l), NEW k \in Logins, k # l
  PROVE  entry'[k] = entry[k] /\ silent'[k] = silent[k] /\ polled'[k] = polled[k]
         /\ answer'[k] = answer[k]
<1>1. DOMAIN entry = Logins /\ DOMAIN silent = Logins /\ DOMAIN polled = Logins
      /\ DOMAIN answer = Logins
  BY DEF ServersTypeOK
<1> QED  BY <1>1 DEF Poll

LEMMA RedirectRead ==
  ASSUME ServersTypeOK, NEW l \in Logins, Redirect(l)
  PROVE  /\ \A k \in Logins : k # l => entry'[k] = entry[k]
         /\ \/ entry'[l] = entry[l]
            \/ entry'[l] = [s \in DOMAIN entry[l] |->
                 IF Redirects(l, s) THEN entry[l][CHOOSE m \in Masters(l, s) : TRUE]
                                    ELSE entry[l][s]]
<1>1. DOMAIN entry = Logins
  BY DEF ServersTypeOK
<1>2. \/ entry' = entry
      \/ entry' = [entry EXCEPT ![l] = [s \in DOMAIN entry[l] |->
                 IF Redirects(l, s) THEN entry[l][CHOOSE m \in Masters(l, s) : TRUE]
                                    ELSE entry[l][s]]]
  BY <1>1 DEF Redirect
<1> QED  BY <1>1, <1>2

LEMMA PolledStep ==
  ASSUME ServersTypeOK, InvPolled, [ServersNext]_serverVars
  PROVE  InvPolled'
<1>1. ASSUME NEW s \in GameServers, NEW players \in BOOLEAN, NEW open \in BOOLEAN,
             Beat(s, players, open)
      PROVE  InvPolled'
  BY <1>1 DEF Beat, loginVars, InvPolled, ServersTypeOK
<1>2. ASSUME NEW s \in GameServers, GoDown(s)
      PROVE  InvPolled'
  BY <1>2 DEF GoDown, loginVars, InvPolled, ServersTypeOK
<1>3. ASSUME NEW l \in Logins, Poll(l)
      PROVE  InvPolled'
  <2> SUFFICES ASSUME NEW k \in Logins, NEW s \in GameServers, polled'[k][s] > 0
               PROVE  /\ running[s] /\ s \in DOMAIN entry'[k]
                      /\ polled'[k][s] = 2 => entry'[k][s].alive
    BY <1>3 DEF InvPolled, Poll, tableVars
  <2>1. CASE k # l
    BY <1>3, <2>1, PollOthers DEF InvPolled
  <2>2. CASE k = l
    <3>1. running[s] => s \in Rows /\ unread[l][s]
      BY <1>3 DEF Poll, Timely, Rows
    <3>2. polled[l][s] \in 0 .. 2
      BY DEF ServersTypeOK
    <3>3. CASE /\ entry'[l] = [x \in Rows \cup DOMAIN entry[l] |->
                                 IF x \in Rows THEN FromRow(l, x) ELSE NotAlive(entry[l][x])]
               /\ polled'[l] = [x \in GameServers |->
                                 IF running[x] THEN UpTo2(polled[l][x]) ELSE 0]
      <4>1. running[s] /\ s \in DOMAIN entry'[l] /\ entry'[l][s] = FromRow(l, s)
        BY <2>2, <3>1, <3>3
      <4>2. polled'[l][s] = 2 => polled[l][s] > 0
        BY <3>2, <3>3, <4>1 DEF UpTo2
      <4>3. polled'[l][s] = 2 => AliveNow(l, s)
        BY <3>1, <4>1, <4>2 DEF InvPolled, AliveNow
      <4> QED  BY <2>2, <4>1, <4>3 DEF FromRow
    <3>4. CASE /\ entry'[l] = [x \in DOMAIN entry[l] |-> NotAlive(entry[l][x])]
               /\ polled'[l] = [x \in GameServers |->
                                  IF polled[l][x] > 1 THEN 1 ELSE polled[l][x]]
      <4>1. polled[l][s] > 0 /\ polled'[l][s] # 2
        BY <2>2, <3>2, <3>4
      <4> QED  BY <2>2, <3>4, <4>1 DEF InvPolled
    <3> QED  BY <1>3, <3>3, <3>4, PollRead
  <2> QED  BY <2>1, <2>2
<1>4. ASSUME NEW l \in Logins, Redirect(l)
      PROVE  InvPolled'
  <2>1. UNCHANGED <<running, polled>>
    BY <1>4 DEF Redirect, tableVars
  <2> SUFFICES ASSUME NEW k \in Logins, NEW s \in GameServers, polled[k][s] > 0
               PROVE  /\ running[s] /\ s \in DOMAIN entry'[k]
                      /\ polled[k][s] = 2 => entry'[k][s].alive
    BY <2>1 DEF InvPolled
  <2>2. /\ running[s] /\ s \in DOMAIN entry[k]
        /\ polled[k][s] = 2 => entry[k][s].alive
    BY DEF InvPolled
  <2>3. entry[l][s].alive => ~Redirects(l, s)
    BY DEF Redirects
  <2>4. CASE k # l \/ entry'[l] = entry[l]
    BY <1>4, <2>2, <2>4, RedirectRead
  <2>5. CASE /\ k = l
             /\ entry'[l] = [x \in DOMAIN entry[l] |->
                  IF Redirects(l, x) THEN entry[l][CHOOSE m \in Masters(l, x) : TRUE]
                                     ELSE entry[l][x]]
    <3>1. s \in DOMAIN entry'[l] /\ (~Redirects(l, s) => entry'[l][s] = entry[l][s])
      BY <2>2, <2>5
    <3> QED  BY <2>2, <2>3, <2>5, <3>1
  <2> QED  BY <1>4, <2>4, <2>5, RedirectRead
<1>5. ASSUME NEW l \in Logins, Restart(l)
      PROVE  InvPolled'
  BY <1>5 DEF Restart, tableVars, InvPolled, ServersTypeOK
<1>6. CASE UNCHANGED <<running, entry, polled>>
  BY <1>6 DEF InvPolled
<1> QED
  BY <1>1, <1>2, <1>3, <1>4, <1>5, <1>6 DEF ServersNext, serverVars, tableVars, loginVars, Merge,
     ReadOnline, ClearOnline, Choose, Hop, Arrive

LEMMA EntryStep ==
  ASSUME ServersTypeOK, InvUnread, InvEntry, [ServersNext]_serverVars
  PROVE  InvEntry'
<1>0. \A k \in Logins : /\ DOMAIN entry[k] \subseteq GameServers
                        /\ entry[k] \in [DOMAIN entry[k] -> Entries]
  BY EntryMapFacts DEF ServersTypeOK
<1>1. ASSUME NEW s \in GameServers, NEW players \in BOOLEAN, NEW open \in BOOLEAN,
             Beat(s, players, open)
      PROVE  InvEntry'
  <2>1. UNCHANGED <<mergedTo, entry>>
    BY <1>1 DEF Beat, loginVars
  <2>2. \A x : Chain(x)' = Chain(x)
    BY <2>1, ChainKept
  <2>3. \A k \in Logins, x \in GameServers : silent'[k][x] = IF x = s THEN 0 ELSE silent[k][x]
    BY <1>1 DEF Beat, ServersTypeOK
  <2>4. \A k \in Logins : \A x \in DOMAIN entry[k] : entry[k][x].addr \in GameServers
    BY <1>0 DEF Entries
  <2> QED  BY <2>1, <2>2, <2>3, <2>4 DEF InvEntry
<1>2. ASSUME NEW a \in GameServers, NEW b \in GameServers, Merge(a, b)
      PROVE  InvEntry'
  <2>1. UNCHANGED <<entry, silent>>
    BY <1>2 DEF Merge, loginVars
  <2>2. \A x : Chain(x) \subseteq Chain(x)'
    BY <1>2, ChainGrows
  <2> QED  BY <2>1, <2>2 DEF InvEntry
<1>3. ASSUME NEW l \in Logins, Poll(l)
      PROVE  InvEntry'
  <2>1. \A x : Chain(x)' = Chain(x)
    BY <1>3, ChainKept DEF Poll, tableVars
  <2> SUFFICES ASSUME NEW k \in Logins, NEW s \in DOMAIN entry'[k]
               PROVE  /\ entry'[k][s].addr \in Chain(s)
                      /\ entry'[k][s].alive => silent'[k][entry'[k][s].addr] <= 1
    BY <2>1 DEF InvEntry
  <2>2. CASE k # l
    BY <1>3, <2>2, PollOthers DEF InvEntry
  <2>3. CASE /\ k = l
             /\ entry'[l] = [x \in Rows \cup DOMAIN entry[l] |->
                               IF x \in Rows THEN FromRow(l, x) ELSE NotAlive(entry[l][x])]
             /\ silent'[l] = [x \in GameServers |-> UpTo2(silent[l][x])]
    <3>1. CASE s \in Rows
      <4>1. s \in GameServers /\ entry'[k][s] = FromRow(l, s)
        BY <2>3, <3>1 DEF Rows
      <4>2. AliveNow(l, s) => silent'[l][s] = 1
        BY <2>3, <4>1 DEF AliveNow, InvUnread, UpTo2
      <4>3. /\ entry'[k][s].addr = s
            /\ entry'[k][s].alive <=> AliveNow(l, s)
        BY <4>1 DEF FromRow
      <4>4. s \in Chain(s)
        BY <4>1, ChainBegins
      <4>5. entry'[k][s].alive => silent'[k][entry'[k][s].addr] <= 1
        <5>1. silent'[l][s] = 1 => silent'[l][s] <= 1
          OBVIOUS
        <5> QED  BY <2>3, <4>2, <4>3, <5>1, Zenon
      <4> QED  BY <4>3, <4>4, <4>5, Zenon
    <3>2. CASE s \notin Rows
      <4>1. s \in DOMAIN entry[l] /\ entry'[k][s] = NotAlive(entry[l][s])
        BY <2>3, <3>2
      <4> QED  BY <2>3, <4>1 DEF InvEntry, NotAlive
    <3> QED  BY <3>1, <3>2
  <2>4. CASE k = l /\ entry'[l] = [x \in DOMAIN entry[l] |-> NotAlive(entry[l][x])]
    <3>1. s \in DOMAIN entry[l] /\ entry'[k][s] = NotAlive(entry[l][s])
      BY <2>4
    <3> QED  BY <2>4, <3>1 DEF InvEntry, NotAlive
  <2> QED  BY <1>3, <2>2, <2>3, <2>4, PollRead
<1>4. ASSUME NEW l \in Logins, Redirect(l)
      PROVE  InvEntry'
  <2>1. UNCHANGED <<mergedTo, silent>>
    BY <1>4 DEF Redirect, tableVars
  <2>2. \A x : Chain(x)' = Chain(x)
    BY <2>1, ChainKept
  <2> SUFFICES ASSUME NEW k \in Logins, NEW s \in DOMAIN entry'[k]
               PROVE  /\ entry'[k][s].addr \in Chain(s)
                      /\ entry'[k][s].alive => silent[k][entry'[k][s].addr] <= 1
    BY <2>1, <2>2 DEF InvEntry
  <2>3. CASE k # l \/ entry'[l] = entry[l]
    <3>1. entry'[k] = entry[k]
      BY <1>4, <2>3, RedirectRead
    <3> QED  BY <3>1 DEF InvEntry
  <2>4. CASE /\ k = l
             /\ entry'[l] = [x \in DOMAIN entry[l] |->
                  IF Redirects(l, x) THEN entry[l][CHOOSE m \in Masters(l, x) : TRUE]
                                     ELSE entry[l][x]]
    <3>1. s \in DOMAIN entry[l]
      BY <2>4
    <3>2. CASE Redirects(l, s)
      <4>1. PICK m \in Masters(l, s) : entry'[l][s] = entry[l][m]
        BY <2>4, <3>1, <3>2 DEF Redirects
      <4>2. m \in Chain(s) /\ m \in DOMAIN entry[l]
        BY DEF Masters
      <4>3. entry[l][m].addr \in Chain(m)
        BY <4>2 DEF InvEntry
      <4>4. entry[l][m].addr \in Chain(s)
        BY <4>2, <4>3, ChainTransitive
      <4> QED  BY <2>4, <4>1, <4>2, <4>4 DEF InvEntry
    <3>3. CASE ~Redirects(l, s)
      <4>1. entry'[l][s] = entry[l][s]
        BY <2>4, <3>1, <3>3
      <4> QED  BY <2>4, <3>1, <4>1 DEF InvEntry
    <3> QED  BY <3>2, <3>3
  <2> QED  BY <1>4, <2>3, <2>4, RedirectRead
<1>5. ASSUME NEW l \in Logins, Restart(l)
      PROVE  InvEntry'
  <2>1. \A x : Chain(x)' = Chain(x)
    BY <1>5, ChainKept DEF Restart, tableVars
  <2>2. entry' = [entry EXCEPT ![l] = NoEntries] /\ UNCHANGED silent
    BY <1>5 DEF Restart
  <2>3. DOMAIN entry'[l] = {} /\ \A k \in Logins : k # l => entry'[k] = entry[k]
    BY <2>2 DEF NoEntries, ServersTypeOK
  <2> QED  BY <2>1, <2>2, <2>3 DEF InvEntry
<1>6. CASE UNCHANGED <<mergedTo, entry, silent>>
  <2>1. \A x : Chain(x)' = Chain(x)
    BY <1>6, ChainKept
  <2> QED  BY <1>6, <2>1 DEF InvEntry
<1> QED
  BY <1>1, <1>2, <1>3, <1>4, <1>5, <1>6 DEF ServersNext, serverVars, tableVars, loginVars, GoDown,
     ReadOnline, ClearOnline, Choose, Hop, Arrive

LEMMA AnswerStep ==
  ASSUME ServersTypeOK, InvUnread, InvEntry, InvWalk, InvAt, EntranceRecent,
         [ServersNext]_serverVars
  PROVE  EntranceRecent'
<1>0. \A k \in Logins : answer[k] \in ServerChoices /\ silent[k] \in [GameServers -> 0 .. 2]
  BY DEF ServersTypeOK
<1>1. ASSUME NEW s \in GameServers, NEW players \in BOOLEAN, NEW open \in BOOLEAN,
             Beat(s, players, open)
      PROVE  EntranceRecent'
  <2>1. UNCHANGED <<mergedTo, answer>>
    BY <1>1 DEF Beat, loginVars
  <2>2. \A x : Chain(x)' = Chain(x)
    BY <2>1, ChainKept
  <2>3. \A k \in Logins, x \in GameServers : silent'[k][x] = IF x = s THEN 0 ELSE silent[k][x]
    BY <1>1 DEF Beat, ServersTypeOK
  <2>4. \A x, y : y \in Chain(x) => y \in GameServers
    BY DEF Chain
  <2> QED  BY <2>1, <2>2, <2>3, <2>4 DEF EntranceRecent
<1>2. ASSUME NEW a \in GameServers, NEW b \in GameServers, Merge(a, b)
      PROVE  EntranceRecent'
  <2>1. UNCHANGED <<answer, silent>>
    BY <1>2 DEF Merge, loginVars
  <2>2. \A x : Chain(x) \subseteq Chain(x)'
    BY <1>2, ChainGrows
  <2> QED  BY <2>1, <2>2 DEF EntranceRecent
<1>3. ASSUME NEW l \in Logins, Poll(l)
      PROVE  EntranceRecent'
  <2>1. \A x : Chain(x)' = Chain(x)
    BY <1>3, ChainKept DEF Poll, tableVars
  <2>2. answer'[l] = NoChoice
    BY <1>3 DEF Poll, ServersTypeOK
  <2>3. \A k \in Logins : k # l => answer'[k] = answer[k] /\ silent'[k] = silent[k]
    BY <1>3, PollOthers
  <2> QED  BY <2>1, <2>2, <2>3 DEF EntranceRecent
<1>4. ASSUME NEW l \in Logins, Arrive(l)
      PROVE  EntranceRecent'
  <2>1. \A x : Chain(x)' = Chain(x)
    BY <1>4, ChainKept DEF Arrive, tableVars
  <2>2. UNCHANGED silent /\ \A k \in Logins : k # l => answer'[k] = answer[k]
    BY <1>4 DEF Arrive, ServersTypeOK
  <2>3. answer'[l] = IF Enters(l, walk[l].addr)
                     THEN [server |-> walk[l].server, addr |-> entry[l][walk[l].addr].addr]
                     ELSE NoChoice
    BY <1>4 DEF Arrive, ServersTypeOK
  <2>4. ASSUME Enters(l, walk[l].addr)
        PROVE  /\ entry[l][walk[l].addr].addr \in Chain(walk[l].server)
               /\ silent[l][entry[l][walk[l].addr].addr] <= 1
    <3>1. walk[l].addr \in Chain(walk[l].server)
      BY <1>4 DEF Arrive, InvAt, InvWalk
    <3>2. /\ entry[l][walk[l].addr].addr \in Chain(walk[l].addr)
          /\ silent[l][entry[l][walk[l].addr].addr] <= 1
      BY <2>4 DEF Enters, InvEntry
    <3> QED  BY <3>1, <3>2, ChainTransitive
  <2> QED  BY <2>1, <2>2, <2>3, <2>4 DEF EntranceRecent
<1>5. ASSUME NEW l \in Logins, Restart(l)
      PROVE  EntranceRecent'
  <2>1. \A x : Chain(x)' = Chain(x)
    BY <1>5, ChainKept DEF Restart, tableVars
  <2>2. answer' = [answer EXCEPT ![l] = NoChoice] /\ UNCHANGED silent
    BY <1>5 DEF Restart
  <2> QED  BY <2>1, <2>2 DEF EntranceRecent, ServersTypeOK
<1>6. CASE UNCHANGED <<mergedTo, answer, silent>>
  <2>1. \A x : Chain(x)' = Chain(x)
    BY <1>6, ChainKept
  <2> QED  BY <1>6, <2>1 DEF EntranceRecent
<1> QED
  BY <1>1, <1>2, <1>3, <1>4, <1>5, <1>6 DEF ServersNext, serverVars, tableVars, loginVars, GoDown,
     ReadOnline, ClearOnline, Redirect, Choose, Hop

-----------------------------------------------------------------------------
(* The theorems.                                                           *)

LEMMA ServersInvInit == ServersInit => ServersInv
<1> SUFFICES ASSUME ServersInit
             PROVE  ServersInv
  OBVIOUS
<1>1. NoEntries \in EntryMap /\ DOMAIN NoEntries = {}
  BY EntryMapFacts DEF NoEntries
<1>2. NoChoice \in ServerChoices
  BY DEF NoChoice, ServerChoices
<1>3. ServersTypeOK
  BY <1>1, <1>2, ServersAssumption DEF ServersInit, ServersTypeOK
<1>4. InvUnread /\ InvPolled
  BY DEF ServersInit, InvUnread, InvPolled
<1>5. InvEntry
  BY <1>1 DEF ServersInit, InvEntry
<1>6. InvWalk /\ InvAt /\ EntranceRecent
  BY DEF ServersInit, InvWalk, InvAt, EntranceRecent
<1> QED  BY <1>3, <1>4, <1>5, <1>6 DEF ServersInv

LEMMA ServersInvStep == ServersInv /\ [ServersNext]_serverVars => ServersInv'
BY ServersTypeStep, UnreadStep, PolledStep, EntryStep, WalkStep, AtStep, AnswerStep DEF ServersInv

LEMMA ServersInvAlways == ServersSpec => []ServersInv
BY ServersInvInit, ServersInvStep, PTL DEF ServersSpec

\* The variables of GameServers keep their types: an entry of m_mapServerStatus, however
\* it was redirected, is one of a game server.
THEOREM ServersTypeCorrect == ServersSpec => []ServersTypeOK
<1>1. ServersInv => ServersTypeOK
  BY DEF ServersInv
<1> QED  BY <1>1, ServersInvAlways, PTL

\* HandlerChooseServer sends a player to a server that the chosen one was merged into, or
\* to the chosen one, and to one that was not silent for two polls: for any number of
\* servers, merges, failed statements and restarts.
THEOREM SentToRecent == ServersSpec => []EntranceRecent
<1>1. ServersInv => EntranceRecent
  BY DEF ServersInv
<1> QED  BY <1>1, ServersInvAlways, PTL

\* GetOrUpdateGameServerStatus never hides a server that two polls have met: the master's
\* entrance is put over entries of dead servers only.
THEOREM UpIsOffered == ServersSpec => []UpIsAlive
<1>1. ServersInv => UpIsAlive
  BY DEF ServersInv, InvPolled, UpIsAlive, ServersTypeOK
<1> QED  BY <1>1, ServersInvAlways, PTL

=============================================================================
