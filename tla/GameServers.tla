----------------------------- MODULE GameServers -----------------------------
(***************************************************************************)
(* The list of game servers that a login server keeps.  A game server      *)
(* writes its row of gameserver_info again and again; a login server reads *)
(* the table every 15 seconds, takes a server for alive when its row has   *)
(* changed, clears the number of players of the others, and gives a closed *)
(* server that was merged into another the entrance of that one.  A player *)
(* who chooses a server is sent to its entrance.                           *)
(*                                                                         *)
(* One statement is one step.  The world thread of a login server finishes *)
(* the poll or the choice it is in before it begins another.               *)
(***************************************************************************)
EXTENDS Integers

CONSTANTS
  Logins,       \* login servers
  GameServers,  \* rows that gameserver_info may have, by server_id
  NoServer,     \* no server
  MaxLost,      \* bound: statements that fail
  MaxRestarts   \* bound: restarts of login servers

ASSUME ServersAssumption ==
  /\ NoServer \notin GameServers
  /\ MaxLost \in Nat /\ MaxRestarts \in Nat

VARIABLES
  running,   \* the game server runs
  serverRow, \* it has a row
  online,    \* online_num of the row is not 0
  canLogin,  \* can_login of the row
  mergedTo,  \* gameserver_merge_log: server_id_merged, for each server_id_origin
  entry,     \* m_mapServerStatus: address, byCanLogin and bIsAlive of the servers in it
  unread,    \* update_time of the row is not the one in the entry
  at,        \* "idle", the next statement of a poll, or "walk"
  closing,   \* rows of the poll that did not change and are still to be cleared
  clearing,  \* UpdateClosedGameServer read a number of players for this server
  walk,      \* HandlerChooseServer: the server chosen and where GetServerIdMerged is
  answer,    \* history: the last choice that got E_CHOOSE_SERVER_RESULT_OK
  silent,    \* history: polls that read the table since the server wrote its row (to 2)
  polled,    \* history: polls that read the row since the server came up (to 2)
  lost,      \* history: statements that failed
  restarts   \* history: restarts of login servers

tableVars  == <<running, serverRow, online, canLogin, mergedTo>>
loginVars  == <<entry, at, closing, clearing, walk, answer>>
serverVars == <<tableVars, loginVars, unread, silent, polled, lost, restarts>>

\* The map is empty.
NoEntries == [s \in {} |-> NoServer]
NoChoice  == [server |-> NoServer, addr |-> NoServer]

ServersInit ==
  /\ running   = [s \in GameServers |-> FALSE]
  /\ serverRow = [s \in GameServers |-> FALSE]
  /\ online    = [s \in GameServers |-> FALSE]
  /\ canLogin  = [s \in GameServers |-> FALSE]
  /\ mergedTo  = [s \in GameServers |-> NoServer]
  /\ entry     = [l \in Logins |-> NoEntries]
  /\ unread    = [l \in Logins |-> [s \in GameServers |-> FALSE]]
  /\ at        = [l \in Logins |-> "idle"]
  /\ closing   = [l \in Logins |-> {}]
  /\ clearing  = [l \in Logins |-> NoServer]
  /\ walk      = [l \in Logins |-> NoChoice]
  /\ answer    = [l \in Logins |-> NoChoice]
  /\ silent    = [l \in Logins |-> [s \in GameServers |-> 2]]
  /\ polled    = [l \in Logins |-> [s \in GameServers |-> 0]]
  /\ lost      = 0
  /\ restarts  = 0

\* A statement is executed; or it fails, the query without a result.
Answered == UNCHANGED lost
Fails    == lost < MaxLost /\ lost' = lost + 1

UpTo2(n) == IF n < 2 THEN n + 1 ELSE 2

-----------------------------------------------------------------------------
(* Merged servers.                                                         *)

\* One step along the merge log, in which a server that was not merged stays.
Merged(s) == IF mergedTo[s] = NoServer THEN s ELSE mergedTo[s]

\* Steps along the log do not leave these servers.
Closed(C) == \A s \in C : Merged(s) \in C

\* Where the log leads from a server, in no step or more.
Chain(s) == {t \in GameServers : \A C \in SUBSET GameServers : s \in C /\ Closed(C) => t \in C}

-----------------------------------------------------------------------------
(* Game servers and the operator.                                          *)

\* UpdateGameServerInfo: a game server writes its row.
Beat(s, players, open) ==
  /\ running' = [running EXCEPT ![s] = TRUE]
  /\ serverRow' = [serverRow EXCEPT ![s] = TRUE]
  /\ online' = [online EXCEPT ![s] = players]
  /\ canLogin' = [canLogin EXCEPT ![s] = open]
  /\ unread' = [l \in Logins |-> [unread[l] EXCEPT ![s] = TRUE]]
  /\ silent' = [l \in Logins |-> [silent[l] EXCEPT ![s] = 0]]
  /\ UNCHANGED <<mergedTo, loginVars, polled, lost, restarts>>

\* A game server ends, and leaves its row as it is.
GoDown(s) ==
  /\ running[s]
  /\ running' = [running EXCEPT ![s] = FALSE]
  /\ polled' = [l \in Logins |-> [polled[l] EXCEPT ![s] = 0]]
  /\ UNCHANGED <<serverRow, online, canLogin, mergedTo, loginVars, unread, silent, lost, restarts>>

\* The operator merges a server into another one; a cycle would keep GetServerIdMerged
\* and GetMergedListInfo in their loops.
Merge(s, t) ==
  /\ mergedTo[s] = NoServer /\ s \notin Chain(t)
  /\ mergedTo' = [mergedTo EXCEPT ![s] = t]
  /\ UNCHANGED <<running, serverRow, online, canLogin, loginVars, unread, silent, polled, lost,
                 restarts>>

-----------------------------------------------------------------------------
(* GetOrUpdateGameServerStatus, which OnTimer15s calls.                    *)

\* Mutant: an entry stays alive until its row changes again.
AliveStays(l, s) == s \in DOMAIN entry[l] /\ (entry[l][s].alive \/ unread[l][s])

\* An entry is alive when update_time has changed since the last poll; one that is made
\* in this poll is not alive yet.
AliveNow(l, s) == s \in DOMAIN entry[l] /\ unread[l][s]

\* The poll takes bIsAlive from all entries, and makes those of the rows anew.
Rows          == {s \in GameServers : serverRow[s]}
FromRow(l, s) == [addr |-> s, canLogin |-> canLogin[s], alive |-> AliveNow(l, s)]
NotAlive(e)   == [addr |-> e.addr, canLogin |-> e.canLogin, alive |-> FALSE]

\* Mutant: a server is cleared once, when it ceases to be alive.
UnchangedOnce(l) == {s \in Rows \cap DOMAIN entry[l] : entry[l][s].alive /\ ~unread[l][s]}

\* The servers that UpdateClosedGameServer is called for.
Unchanged(l) == {s \in Rows \cap DOMAIN entry[l] : ~unread[l][s]}

\* A running server writes its row more often than a login server polls.
Timely(l) == \A s \in GameServers : running[s] => serverRow[s] /\ unread[l][s]

Poll(l) ==
  /\ at[l] = "idle" /\ Timely(l)
  /\ answer' = [answer EXCEPT ![l] = NoChoice]
  /\ \/ /\ Rows # {}
        /\ entry' = [entry EXCEPT ![l] =
                       [s \in Rows \cup DOMAIN @ |->
                          IF s \in Rows THEN FromRow(l, s) ELSE NotAlive(@[s])]]
        /\ unread' = [unread EXCEPT ![l] = [s \in GameServers |-> FALSE]]
        /\ closing' = [closing EXCEPT ![l] = Unchanged(l)]
        /\ at' = [at EXCEPT ![l] = "close"]
        /\ silent' = [silent EXCEPT ![l] = [s \in GameServers |-> UpTo2(@[s])]]
        /\ polled' = [polled EXCEPT ![l] =
                        [s \in GameServers |-> IF running[s] THEN UpTo2(@[s]) ELSE 0]]
        /\ Answered
     \/ \* The query fails, or finds no row.
        /\ (Rows = {} /\ Answered) \/ Fails
        /\ entry' = [entry EXCEPT ![l] = [s \in DOMAIN @ |-> NotAlive(@[s])]]
        /\ polled' = [polled EXCEPT ![l] =
                        [s \in GameServers |-> IF @[s] > 1 THEN 1 ELSE @[s]]]
        /\ UNCHANGED <<unread, closing, at, silent>>
  /\ UNCHANGED <<tableVars, clearing, walk, restarts>>

\* UpdateClosedGameServer: is there a player in the row?
ReadOnline(l, s) ==
  /\ at[l] = "close" /\ clearing[l] = NoServer /\ s \in closing[l]
  /\ \/ Answered /\ clearing' = [clearing EXCEPT ![l] = IF online[s] THEN s ELSE NoServer]
     \/ Fails /\ UNCHANGED clearing
  /\ closing' = [closing EXCEPT ![l] = @ \ {s}]
  /\ UNCHANGED <<tableVars, entry, at, walk, answer, unread, silent, polled, restarts>>

\* It clears the number by a statement of its own.
ClearOnline(l) ==
  /\ clearing[l] # NoServer
  /\ \/ Answered /\ online' = [online EXCEPT ![clearing[l]] = FALSE]
     \/ Fails /\ UNCHANGED online
  /\ clearing' = [clearing EXCEPT ![l] = NoServer]
  /\ UNCHANGED <<running, serverRow, canLogin, mergedTo, entry, at, closing, walk, answer, unread,
                 silent, polled, restarts>>

\* The end of the log that starts at a server: GetMergedListInfo follows it.
Masters(l, s) == {m \in Chain(s) \ {s} : mergedTo[m] = NoServer /\ m \in DOMAIN entry[l]}

\* Mutant: every merged server gets the entrance of its master.
RedirectsAll(l, s) == Masters(l, s) # {}

\* A closed server that was merged gets the entrance of its master, if there is one.
Redirects(l, s) == ~entry[l][s].alive /\ Masters(l, s) # {}

\* The end of the poll: one query reads the merge log.
Redirect(l) ==
  /\ at[l] = "close" /\ closing[l] = {} /\ clearing[l] = NoServer
  /\ \/ Answered /\ entry' = [entry EXCEPT ![l] =
          [s \in DOMAIN @ |-> IF Redirects(l, s) THEN @[CHOOSE m \in Masters(l, s) : TRUE]
                                               ELSE @[s]]]
     \/ Fails /\ UNCHANGED entry
  /\ at' = [at EXCEPT ![l] = "idle"]
  /\ UNCHANGED <<tableVars, closing, clearing, walk, answer, unread, silent, polled, restarts>>

-----------------------------------------------------------------------------
(* HandlerChooseServer, up to the role, which is the matter of Accounts.   *)

Choose(l, s) ==
  /\ at[l] = "idle"
  /\ at' = [at EXCEPT ![l] = "walk"]
  /\ walk' = [walk EXCEPT ![l] = [server |-> s, addr |-> s]]
  /\ UNCHANGED <<tableVars, entry, closing, clearing, answer, unread, silent, polled, lost,
                 restarts>>

\* GetServerIdMerged: one query per step along the log.
Hop(l) ==
  /\ at[l] = "walk" /\ mergedTo[walk[l].addr] # NoServer /\ Answered
  /\ walk' = [walk EXCEPT ![l].addr = mergedTo[@]]
  /\ UNCHANGED <<tableVars, entry, at, closing, clearing, answer, unread, silent, polled,
                 restarts>>

\* The server may be entered.
Enters(l, s) == s \in DOMAIN entry[l] /\ entry[l][s].canLogin /\ entry[l][s].alive

\* The last query finds no row, or fails, which looks the same.
Arrive(l) ==
  /\ at[l] = "walk"
  /\ (mergedTo[walk[l].addr] = NoServer /\ Answered) \/ Fails
  /\ answer' = [answer EXCEPT ![l] =
       IF Enters(l, walk[l].addr)
       THEN [server |-> walk[l].server, addr |-> entry[l][walk[l].addr].addr]
       ELSE NoChoice]
  /\ walk' = [walk EXCEPT ![l] = NoChoice]
  /\ at' = [at EXCEPT ![l] = "idle"]
  /\ UNCHANGED <<tableVars, entry, closing, clearing, unread, silent, polled, restarts>>

\* A login server ends and starts again, with no entries.
Restart(l) ==
  /\ restarts < MaxRestarts /\ restarts' = restarts + 1
  /\ entry' = [entry EXCEPT ![l] = NoEntries]
  /\ at' = [at EXCEPT ![l] = "idle"]
  /\ closing' = [closing EXCEPT ![l] = {}]
  /\ clearing' = [clearing EXCEPT ![l] = NoServer]
  /\ walk' = [walk EXCEPT ![l] = NoChoice]
  /\ answer' = [answer EXCEPT ![l] = NoChoice]
  /\ polled' = [polled EXCEPT ![l] = [s \in GameServers |-> 0]]
  /\ UNCHANGED <<tableVars, unread, silent, lost>>

ServersNext ==
  \/ \E s \in GameServers :
       \/ \E players, open \in BOOLEAN : Beat(s, players, open)
       \/ GoDown(s)
       \/ \E t \in GameServers : Merge(s, t)
  \/ \E l \in Logins :
       \/ Poll(l)
       \/ \E s \in GameServers : ReadOnline(l, s) \/ Choose(l, s)
       \/ ClearOnline(l)
       \/ Redirect(l)
       \/ Hop(l)
       \/ Arrive(l)
       \/ Restart(l)

ServersSpec == ServersInit /\ [][ServersNext]_serverVars

-----------------------------------------------------------------------------
(* Properties.                                                             *)

Entries == [addr : GameServers, canLogin : BOOLEAN, alive : BOOLEAN]
EntryMap == UNION {[S -> Entries] : S \in SUBSET GameServers}
ServerChoices == [server : GameServers \cup {NoServer}, addr : GameServers \cup {NoServer}]

\* The variables have their types.
ServersTypeOK ==
  /\ running \in [GameServers -> BOOLEAN] /\ serverRow \in [GameServers -> BOOLEAN]
  /\ online \in [GameServers -> BOOLEAN] /\ canLogin \in [GameServers -> BOOLEAN]
  /\ mergedTo \in [GameServers -> GameServers \cup {NoServer}]
  /\ entry \in [Logins -> EntryMap]
  /\ at \in [Logins -> {"idle", "close", "walk"}] /\ closing \in [Logins -> SUBSET GameServers]
  /\ clearing \in [Logins -> GameServers \cup {NoServer}]
  /\ walk \in [Logins -> ServerChoices] /\ answer \in [Logins -> ServerChoices]
  /\ unread \in [Logins -> [GameServers -> BOOLEAN]]
  /\ silent \in [Logins -> [GameServers -> 0 .. 2]]
  /\ polled \in [Logins -> [GameServers -> 0 .. 2]]
  /\ lost \in 0 .. MaxLost /\ restarts \in 0 .. MaxRestarts

\* Whatever is merged, cleared or lost in between, a player is sent to a server that the
\* chosen one was merged into, at some time, or to the chosen one; and to one that wrote
\* its row since the poll before the last one.
EntranceRecent ==
  \A l \in Logins : answer[l] # NoChoice =>
    /\ answer[l].addr \in Chain(answer[l].server)
    /\ silent[l][answer[l].addr] <= 1

\* A server that runs, and was up at the last two polls that succeeded, with none that
\* failed after the last, is offered to players: no redirection or restart of a login
\* server hides it.
UpIsAlive ==
  \A l \in Logins, s \in GameServers :
    at[l] # "close" /\ polled[l][s] = 2 => s \in DOMAIN entry[l] /\ entry[l][s].alive

\* A server that is gone does not keep players: statements may fail, login servers
\* restart, and players come in between, but its row says again and again that nobody is
\* online, unless the server itself comes back again and again.  (The handlers and the
\* parts of a poll are fair, Poll strongly so.)
ClosedIsCleared == \A s \in GameServers : []<>running[s] \/ []<>~online[s]
=============================================================================
