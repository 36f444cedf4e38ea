------------------------------ MODULE Accounts ------------------------------
(***************************************************************************)
(* Passports and roles in the central database.  Clients register, log in  *)
(* and choose a game server at any of several login servers; the handlers  *)
(* (CHandlerPlayersession) call CenterDBCtrl, which looks a passport or a  *)
(* role up and inserts it when it is not there.                            *)
(*                                                                         *)
(* One statement is one step on the database.  The world thread of a login *)
(* server finishes a handler before it takes the next packet, so that a    *)
(* server has at most one handler in progress (job).  A server may crash   *)
(* between two statements, and a statement may fail: it was not executed,  *)
(* or it was and the answer is lost.                                       *)
(***************************************************************************)
EXTENDS Integers, FiniteSetsExt

CONSTANTS
  LoginServers, \* login servers on one database, by m_byLoginServerId
  Clients,      \* connections of clients
  AccountNames, \* passports with a password (E_LOGIN_AUTH_TYPE_ACCOUNT)
  TokenNames,   \* passports of platforms and devices (.._PLATFORM, .._FAST)
  Anonymous,    \* devices that send no open_udid
  Origins,      \* game servers, by the number that players see
  None,         \* nothing
  MaxPassports, \* bound: ids handed out for passports
  MaxRoles,     \* bound: ids handed out for roles, after each start
  MaxStarts,    \* bound: starts of servers; with none left no server crashes
  MaxLosses     \* bound: statements that fail

Names == AccountNames \cup TokenNames \cup Anonymous

ASSUME AccAssumption ==
  /\ LoginServers \subseteq 0 .. 255
  /\ MaxPassports \in Nat /\ MaxRoles \in Nat /\ MaxStarts \in Nat /\ MaxLosses \in Nat
  /\ AccountNames \cap TokenNames = {} /\ Anonymous \cap (AccountNames \cup TokenNames) = {}
  /\ None \notin Origins \cup LoginServers \cup Names \cup Clients

-----------------------------------------------------------------------------
(* Identifiers.                                                            *)

\* a | b, for a number b of 5 bits.
Bit(n, i) == (n \div 2^i) % 2
Or(a, b) == IF b = 0 THEN a
            ELSE a + MapThenSumSet(LAMBDA i : 2^i, {i \in 0 .. 4 : Bit(b, i) > Bit(a, i)})

\* inc << 32 | server << 29 | platform.  The field of the server has 3 bits and
\* the rest of it falls into inc.  Clients of one platform are considered.
PassportId(inc, s) == [inc |-> Or(inc, s \div 8), srv |-> s % 8]

\* inc << 4 | server << 1.
RoleId(inc, s) == 16 * Or(inc, s \div 8) + 2 * (s % 8)

\* The least value of the role counter (the 100000 of InitCenterDB).
FirstRole == 100000

RoleIncs    == (1 .. MaxRoles) \cup ((FirstRole + 1) .. (FirstRole + MaxRoles))
PassportIds == {PassportId(i, s) : i \in 1 .. MaxPassports, s \in LoginServers}
RoleIds     == {RoleId(i, s) : i \in RoleIncs, s \in LoginServers}

ASSUME NoneAssumption == None \notin PassportIds

-----------------------------------------------------------------------------
VARIABLES
  passport,  \* passport_info: name, last_login_server and login token of each row
  role,      \* re_passport_player: passport_id and server_id_origin of each row
  pc,        \* each server: "down", "idle", or the next statement of its handler
  job,       \* the handler in progress: client, name, game server and role
  passInc,   \* m_maxPassportAutoInc
  roleInc,   \* m_maxRoleAutoInc
  ready,     \* what InitCenterDB returned
  home,      \* the login server a client is connected to
  account,   \* m_dwAccountId of its session, None unless E_STATUS_AUTHED
  given,     \* history: passport, game server and role of each E_CHOOSE_SERVER_RESULT_OK
  starts,    \* history: starts so far
  losses,    \* history: statements that failed
  blind      \* history: a lookup was among them

nameVars == <<passport, role>>
srvVars  == <<pc, job, passInc, roleInc, ready>>
sessVars == <<home, account, given>>
failVars == <<losses, blind>>
accVars  == <<nameVars, srvVars, sessVars, starts, failVars>>

NoPassport == [name |-> None, last |-> None, token |-> FALSE]
NoRole     == [passport |-> None, origin |-> None]
NoJob      == [client |-> None, name |-> None, origin |-> None, role |-> 0]

AccInit ==
  /\ passport = [p \in PassportIds |-> NoPassport]
  /\ role     = [r \in RoleIds |-> NoRole]
  /\ pc       = [s \in LoginServers |-> "down"]
  /\ job      = [s \in LoginServers |-> NoJob]
  /\ passInc  = [s \in LoginServers |-> 0]
  /\ roleInc  = [s \in LoginServers |-> 0]
  /\ ready    = [s \in LoginServers |-> FALSE]
  /\ home     = [c \in Clients |-> None]
  /\ account  = [c \in Clients |-> None]
  /\ given    = {}
  /\ starts   = 0
  /\ losses   = 0
  /\ blind    = FALSE

\* How a statement ends: "done", "failed" without effect, or "lost": it took
\* effect but its answer did not arrive.
Answers == {"done"} \cup (IF losses < MaxLosses THEN {"failed", "lost"} ELSE {})
CountLoss(o) == losses' = (IF o = "done" THEN losses ELSE losses + 1) /\ UNCHANGED blind

\* A query fails: PQuery returns no result, as for a query that finds nothing.
LookupFails == losses < MaxLosses /\ losses' = losses + 1

\* A lookup without a result: there is no row, or the query failed.
NoResult(found) == (found = {} /\ UNCHANGED failVars) \/ (LookupFails /\ blind' = TRUE)

\* The rows of the two tables.
KnownPassports == {p \in PassportIds : passport[p] # NoPassport}
KnownRoles     == {r \in RoleIds : role[r] # NoRole}

-----------------------------------------------------------------------------
(* Starting a login server.                                                *)

\* Mutant: the counter is the number of rows.
RecoveredCount == Cardinality(KnownPassports)

\* MAX(passport_id) >> 32, over the passports of all login servers.
RecoveredPassport == Max({p.inc : p \in KnownPassports} \cup {0})

\* MAX(role_id) >> 4, over the role ids in which the 7 bits above the lowest one
\* equal the number of this server, and at least 100000.
RecoveredRole(s) ==
  Max({r \div 16 : r \in {x \in KnownRoles : (x \div 2) % 128 = s}} \cup {FirstRole})

\* InitCenterDB.  It compares m_byLoginServerId with the limit before it stores the
\* new value, so that any server starts; a query that fails leaves the counter at 0,
\* and InitSettings ignores the result.  No other server changes what the two queries
\* of a server that does not serve yet are about, but for larger passport ids.
Start(s) ==
  /\ pc[s] = "down" /\ starts < MaxStarts
  /\ starts' = starts + 1
  /\ pc' = [pc EXCEPT ![s] = "idle"]
  /\ \/ /\ passInc' = [passInc EXCEPT ![s] = RecoveredPassport]
        /\ roleInc' = [roleInc EXCEPT ![s] = RecoveredRole(s)]
        /\ ready' = [ready EXCEPT ![s] = TRUE]
        /\ UNCHANGED failVars
     \/ /\ LookupFails /\ UNCHANGED blind
        /\ \E n \in {0, RecoveredPassport} : passInc' = [passInc EXCEPT ![s] = n]
        /\ roleInc' = [roleInc EXCEPT ![s] = 0]
        /\ ready' = [ready EXCEPT ![s] = FALSE]
  /\ UNCHANGED <<nameVars, job, sessVars>>

\* The process dies, between two statements of a handler or while it waits.
ServerCrash(s) ==
  /\ pc[s] # "down" /\ starts < MaxStarts
  /\ pc' = [pc EXCEPT ![s] = "down"]
  /\ job' = [job EXCEPT ![s] = NoJob]
  /\ ready' = [ready EXCEPT ![s] = FALSE]
  /\ home' = [c \in Clients |-> IF home[c] = s THEN None ELSE home[c]]
  /\ account' = [c \in Clients |-> IF home[c] = s THEN None ELSE account[c]]
  /\ UNCHANGED <<nameVars, passInc, roleInc, given, starts, failVars>>

-----------------------------------------------------------------------------
(* Sessions.                                                               *)

Connect(c, s) ==
  /\ home[c] = None /\ pc[s] # "down"
  /\ home' = [home EXCEPT ![c] = s]
  /\ UNCHANGED <<nameVars, srvVars, account, given, starts, failVars>>

\* The session is deleted in the world thread, when none of its packets is handled.
Disconnect(c) ==
  /\ \E s \in LoginServers : home[c] = s /\ job[s].client # c
  /\ home' = [home EXCEPT ![c] = None]
  /\ account' = [account EXCEPT ![c] = None]
  /\ UNCHANGED <<nameVars, srvVars, given, starts, failVars>>

\* The world thread of server s takes a packet of client c.
Serves(s, c) == pc[s] = "idle" /\ home[c] = s

-----------------------------------------------------------------------------
(* Registration and login.                                                 *)

\* Mutant: only passports that have been on a game server are found.
FindPassportUsed(n) == {p \in KnownPassports : passport[p].name = n /\ passport[p].last # None}

\* select passport_id from passport_info.  A device without open_udid is not looked up.
FindPassport(n) == {p \in KnownPassports : passport[p].name = n /\ n \notin Anonymous}

\* The lookup has found no passport: GetDBTime follows, and then the insert.
NewPassport(s, c, n) ==
  /\ PassportId(passInc[s] + 1, s) \in PassportIds
  /\ NoResult(FindPassport(n))
  /\ pc' = [pc EXCEPT ![s] = "passport"]
  /\ job' = [job EXCEPT ![s] = [NoJob EXCEPT !.client = c, !.name = n]]
  /\ UNCHANGED <<nameVars, passInc, roleInc, ready, sessVars, starts>>

\* HandlerRegister.  A name that is found is answered with DEPLICATE.
Register(s, c, n) ==
  Serves(s, c) /\ NewPassport(s, c, n)

\* SetAccountId, for one of the rows that the lookup has found.
LogIn(c, n) ==
  /\ \E p \in FindPassport(n) : account' = [account EXCEPT ![c] = p]
  /\ UNCHANGED <<nameVars, srvVars, home, given, starts, failVars>>

\* HandlerAccountLogin, with the right password.
AccountLogin(s, c, n) ==
  Serves(s, c) /\ LogIn(c, n)

\* HandlerPlatformLogin and HandlerFastLogin: a name that is not found is created.
TokenLogin(s, c, n) ==
  Serves(s, c) /\ (LogIn(c, n) \/ NewPassport(s, c, n))

\* InsertPassportInfo.  passport_id is the primary key.  A handler that logs in calls
\* SetAccountId when the insert has returned true.
InsertPassport(s) ==
  LET c  == job[s].client
      n  == job[s].name
      id == PassportId(passInc[s] + 1, s)
  IN
  /\ pc[s] = "passport"
  /\ passInc' = [passInc EXCEPT ![s] = @ + 1]
  /\ \/ /\ id \in KnownPassports
        /\ UNCHANGED <<passport, account, failVars>>
     \/ /\ id \notin KnownPassports
        /\ \E o \in Answers :
             /\ CountLoss(o)
             /\ passport' = IF o = "failed" THEN passport
                            ELSE [passport EXCEPT ![id] = [NoPassport EXCEPT !.name = n]]
             /\ account' = IF o = "done" /\ n \notin AccountNames
                           THEN [account EXCEPT ![c] = id] ELSE account
  /\ pc' = [pc EXCEPT ![s] = "idle"]
  /\ job' = [job EXCEPT ![s] = NoJob]
  /\ UNCHANGED <<role, roleInc, ready, home, given, starts>>

-----------------------------------------------------------------------------
(* Choosing a game server.                                                 *)

\* Mutant: the game server is not asked for.
FindAnyRole(p, o) == {r \in KnownRoles : role[r].passport = p}

\* GetRoleId: select role_id from re_passport_player.
FindRole(p, o) == {r \in KnownRoles : role[r] = [passport |-> p, origin |-> o]}

\* Mutant: Process has no gate.
AuthedAlways(c) == TRUE

\* Process calls HandlerChooseServer only for a session that has logged in.
Authed(c) == account[c] # None

\* Mutant: the counter is read from the table each time.
NextRoleInTable(s) == RecoveredRole(s) + 1

\* NextRoleId.
NextRoleInc(s) == roleInc[s] + 1

\* HandlerChooseServer, for a game server that is alive, open and of the client's
\* version.  GetOrInsertRoleId finds a role, or takes the next id; GetServerIdMerged
\* and GetDBTime follow.
ChooseServer(s, c, o) ==
  LET Doing(r) == job' = [job EXCEPT ![s] = [NoJob EXCEPT !.client = c, !.origin = o, !.role = r]]
  IN
  /\ Serves(s, c) /\ Authed(c)
  /\ \/ /\ \E r \in FindRole(account[c], o) : Doing(r)
        /\ pc' = [pc EXCEPT ![s] = "enter"]
        /\ UNCHANGED <<roleInc, failVars>>
     \/ /\ NextRoleInc(s) \in RoleIncs
        /\ NoResult(FindRole(account[c], o))
        /\ roleInc' = [roleInc EXCEPT ![s] = NextRoleInc(s)]
        /\ Doing(RoleId(NextRoleInc(s), s))
        /\ pc' = [pc EXCEPT ![s] = "role"]
  /\ UNCHANGED <<nameVars, passInc, ready, sessVars, starts>>

\* The end of a handler.
Finish(s) ==
  /\ pc' = [pc EXCEPT ![s] = "idle"]
  /\ job' = [job EXCEPT ![s] = NoJob]

\* Mutant: GetOrInsertRoleId returns the id although the insert has failed.
AfterInsertAlways(s, ok) == pc' = [pc EXCEPT ![s] = "enter"] /\ UNCHANGED job

\* GetOrInsertRoleId returns the role, or 0, which is answered with ERROR.
AfterInsert(s, ok) ==
  IF ok THEN pc' = [pc EXCEPT ![s] = "enter"] /\ UNCHANGED job ELSE Finish(s)

\* Mutant: the insert replaces a row with the same id.
RoleTakenNever(r) == FALSE

\* role_id is the primary key.
RoleTaken(r) == r \in KnownRoles

\* insert into re_passport_player.
InsertRole(s) ==
  LET r == job[s].role
      e == [passport |-> account[job[s].client], origin |-> job[s].origin]
  IN
  /\ pc[s] = "role"
  /\ \/ /\ RoleTaken(r)
        /\ AfterInsert(s, FALSE)
        /\ UNCHANGED <<role, failVars>>
     \/ /\ ~RoleTaken(r)
        /\ \E o \in Answers :
             /\ CountLoss(o)
             /\ role' = IF o = "failed" THEN role ELSE [role EXCEPT ![r] = e]
             /\ AfterInsert(s, o = "done")
  /\ UNCHANGED <<passport, passInc, roleInc, ready, sessVars, starts>>

\* IsRoleForbid; then SetLastLoginServer, whose result is ignored.
Enter(s) ==
  LET p == account[job[s].client] IN
  /\ pc[s] = "enter"
  /\ \/ /\ Finish(s)
        /\ UNCHANGED <<passport, failVars>>
     \/ /\ \E o \in Answers :
             /\ CountLoss(o)
             /\ passport' = IF o = "failed" THEN passport
                            ELSE [passport EXCEPT ![p].last = job[s].origin]
        /\ pc' = [pc EXCEPT ![s] = "token"]
        /\ UNCHANGED job
  /\ UNCHANGED <<role, passInc, roleInc, ready, sessVars, starts>>

\* CreateLoginToken, whose result is ignored; then the answer is sent.
CreateLoginToken(s) ==
  LET c == job[s].client IN
  /\ pc[s] = "token"
  /\ \E o \in Answers :
       /\ CountLoss(o)
       /\ passport' = IF o = "failed" THEN passport
                      ELSE [passport EXCEPT ![account[c]].token = TRUE]
  /\ given' = given \cup {<<account[c], job[s].origin, job[s].role>>}
  /\ Finish(s)
  /\ UNCHANGED <<role, passInc, roleInc, ready, home, account, starts>>

-----------------------------------------------------------------------------
Handler(s) == InsertPassport(s) \/ InsertRole(s) \/ Enter(s) \/ CreateLoginToken(s)

Request(s, c) ==
  \/ \E n \in AccountNames : Register(s, c, n) \/ AccountLogin(s, c, n)
  \/ \E n \in TokenNames \cup Anonymous : TokenLogin(s, c, n)
  \/ \E o \in Origins : ChooseServer(s, c, o)

AccNext ==
  \/ \E s \in LoginServers : Start(s) \/ ServerCrash(s) \/ Handler(s)
  \/ \E c \in Clients : Disconnect(c) \/ \E s \in LoginServers : Connect(c, s) \/ Request(s, c)

AccSpec == AccInit /\ [][AccNext]_accVars

-----------------------------------------------------------------------------
(* Fairness: a login server that is down is started, its world thread goes on, and *)
(* takes packets from every client that keeps sending them; clients connect, log   *)
(* in and ask for each game server again until they have a role there.             *)

Asks(c, o) ==
  /\ \E s \in LoginServers : ChooseServer(s, c, o)
  /\ \A r \in KnownRoles : role[r].origin # o

RetryFairness ==
  /\ \A s \in LoginServers : WF_accVars(Start(s)) /\ WF_accVars(Handler(s))
  /\ \A c \in Clients :
       /\ WF_accVars(\E s \in LoginServers : Connect(c, s))
       /\ SF_accVars(\E s \in LoginServers, n \in TokenNames :
                       account[c] = None /\ TokenLogin(s, c, n))
       /\ \A o \in Origins : SF_accVars(Asks(c, o))

RetrySpec == AccSpec /\ RetryFairness

-----------------------------------------------------------------------------
(* Properties.                                                             *)

PassportRows == [name : Names \cup {None}, last : Origins \cup {None}, token : BOOLEAN]
RoleRows     == [passport : PassportIds \cup {None}, origin : Origins \cup {None}]
Jobs         == [client : Clients \cup {None}, name : Names \cup {None},
                 origin : Origins \cup {None}, role : RoleIds \cup {0}]

\* The type invariant.
AccTypeOK ==
  /\ passport \in [PassportIds -> PassportRows]
  /\ role \in [RoleIds -> RoleRows]
  /\ pc \in [LoginServers -> {"down", "idle", "passport", "role", "enter", "token"}]
  /\ job \in [LoginServers -> Jobs]
  /\ passInc \in [LoginServers -> Nat] /\ roleInc \in [LoginServers -> Nat]
  /\ ready \in [LoginServers -> BOOLEAN]
  /\ home \in [Clients -> LoginServers \cup {None}]
  /\ account \in [Clients -> PassportIds \cup {None}]
  /\ given \subseteq PassportIds \X Origins \X RoleIds
  /\ starts \in 0 .. MaxStarts /\ losses \in 0 .. MaxLosses /\ blind \in BOOLEAN

\* NextPassportId of a server that was initialized yields an id that no passport has,
\* whatever the other servers insert and however the servers crash: registration and
\* first logins never fail on the primary key of passport_info.
FreshPassport ==
  \A s \in LoginServers : ready[s] => PassportId(passInc[s] + 1, s) \notin KnownPassports

\* The same of NextRoleId and re_passport_player.
FreshRole ==
  \A s \in LoginServers : ready[s] => RoleId(roleInc[s] + 1, s) \notin KnownRoles

\* No login server has inserted two passports of one name, or two roles of one
\* passport on one game server.
NoDuplicates ==
  /\ \A p, q \in KnownPassports :
       passport[p].name = passport[q].name /\ passport[p].name \notin Anonymous /\ p.srv = q.srv
         => p = q
  /\ \A r, t \in KnownRoles :
       role[r] = role[t] /\ (r \div 2) % 8 = (t \div 2) % 8 => r = t

\* Two passports of one name, or two roles of one passport on one game server, were
\* inserted by different login servers: on one server the lookup and the insert of
\* ValidateAuthPlatform, ValidateAuthFast, RegisterPassport and GetOrInsertRoleId
\* cannot come apart, neither by a crash nor by an insert whose answer is lost.  A
\* lookup that fails is taken for one that finds nothing; after it anything goes.
OnePerLoginServer == blind \/ NoDuplicates

\* A passport that has a last login server or a login token, with which a game server
\* lets its player in, has a role: HandlerChooseServer hands out neither when
\* GetOrInsertRoleId has failed.
EntranceHasRole ==
  \A p \in KnownPassports :
    /\ passport[p].last # None => FindRole(p, passport[p].last) # {}
    /\ passport[p].token => \E r \in KnownRoles : role[r].passport = p

\* A player who chooses a game server again, from any session and after any restart,
\* is sent the role that he was sent before, and it is a role of his.
SameRoleAgain ==
  /\ \A g \in given : role[g[3]] = [passport |-> g[1], origin |-> g[2]]
  /\ blind \/ \A g, h \in given : g[1] = h[1] /\ g[2] = h[2] => g = h

\* A server on its own is a directory: its lookups followed by inserts are as good as
\* one step, up to the first lookup that fails.
D(s) == INSTANCE AccountDirectory WITH
  Names <- AccountNames \cup TokenNames, Passports <- PassportIds, Origins <- Origins,
  Roles <- RoleIds,
  passportsOf <- [n \in AccountNames \cup TokenNames |->
                    {p \in FindPassport(n) : p.srv = s % 8}],
  rolesOf <- {<<role[r].passport, role[r].origin, r>> :
                r \in {x \in KnownRoles : (x \div 2) % 8 = s % 8}}

ImplementsDirectory ==
  /\ \A s \in LoginServers : D(s)!Init
  /\ [][blind' \/ \A s \in LoginServers : [D(s)!Next]_(D(s)!vars)]_accVars

\* A client that keeps asking for a game server gets a role on it, although after a
\* restart the role counter may be behind the table.
RoleAtLast == \A o \in Origins : <>(\E r \in KnownRoles : role[r].origin = o)
=============================================================================
