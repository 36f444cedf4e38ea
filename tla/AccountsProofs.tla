--------------------------- MODULE AccountsProofs ---------------------------
(***************************************************************************)
(* Proofs about Accounts, for any clients, names, game servers and bounds. *)
(* Login servers have the numbers that fit in the 3 bits of an id (Narrow).*)
(***************************************************************************)
EXTENDS Accounts, NaturalsInduction, WellFoundedInduction, TLAPS

\* The numbers that fit in the field of the server.
Narrow == LoginServers \subseteq 0 .. 7

Steps == {"passport", "role", "enter", "token"}

\* A handler in progress belongs to a client of its server, and knows what it needs.
InvJob ==
  \A s \in LoginServers :
    /\ pc[s] \in Steps => job[s].client \in Clients /\ home[job[s].client] = s
    /\ pc[s] = "passport" => /\ job[s].name \in Names
                             /\ PassportId(passInc[s] + 1, s) \in PassportIds
    /\ pc[s] \in Steps \ {"passport"} =>
         /\ account[job[s].client] \in KnownPassports
         /\ job[s].origin \in Origins /\ job[s].role \in RoleIds

\* A session that has logged in is that of a passport.
InvAccount == \A c \in Clients : account[c] = None \/ account[c] \in KnownPassports

\* A handler enters a game server with the player's role on it.
InvEntered ==
  \A s \in LoginServers : pc[s] \in {"enter", "token"} =>
    role[job[s].role] = [passport |-> account[job[s].client], origin |-> job[s].origin]

\* The counter of a server is not behind the passports that the server has made.
InvCount ==
  \A s \in LoginServers : ready[s] => \A p \in KnownPassports : p.srv = s => p.inc <= passInc[s]

IInv == AccTypeOK /\ InvJob /\ InvAccount /\ InvEntered /\ InvCount /\ EntranceHasRole

\* The lookup of a handler that is about to insert still holds, for the rows of its
\* own server.
InvLookup ==
  \A s \in LoginServers :
    /\ pc[s] = "passport" =>
         \A p \in KnownPassports : p.srv = s /\ passport[p].name = job[s].name
                                => job[s].name \in Anonymous
    /\ pc[s] = "role" =>
         /\ (job[s].role \div 2) % 8 = s
         /\ \A r \in KnownRoles : (r \div 2) % 8 = s =>
              role[r] # [passport |-> account[job[s].client], origin |-> job[s].origin]

-----------------------------------------------------------------------------
(* A nonempty set of numbers up to n has a greatest element, and Max is it.  *)
LEMMA MaxExists ==
  ASSUME NEW n \in Nat, NEW S \in SUBSET (0 .. n), S # {}
  PROVE  Max(S) \in S /\ \A x \in S : x <= Max(S)
  <1> DEFINE T == {n - x : x \in S}
  <1>0. ASSUME NEW x \in S PROVE x \in Nat /\ n - x \in Nat
    <2>1. x \in 0 .. n
      OBVIOUS
    <2> QED BY <2>1
  <1>1. T \subseteq Nat /\ T # {}
    BY <1>0
  <1>2. \E m \in T : \A y \in T : <<y, m>> \notin OpToRel(<, Nat)
    <2> HIDE DEF T
    <2> QED BY <1>1, NatLessThanWellFounded, WFMin, Zenon
  <1>3. PICK m \in T : \A y \in T : m <= y
    <2>1. PICK m \in T : \A y \in T : <<y, m>> \notin OpToRel(<, Nat)
      BY <1>2
    <2>2. ASSUME NEW y \in T PROVE m <= y
      <3>1. m \in Nat /\ y \in Nat
        BY <1>1
      <3>2. ~(y < m)
        BY <2>1, <2>2, <3>1, Zenon DEF OpToRel
      <3> QED BY <3>1, <3>2
    <2> QED BY <2>2
  <1>4. PICK x \in S : m = n - x
    OBVIOUS
  <1>5. ASSUME NEW y \in S PROVE x >= y
    <2>1. m <= n - y
      BY <1>3
    <2> QED BY <1>0, <1>4, <2>1
  <1> HIDE DEF T
  <1>6. Max(S) \in S /\ \A y \in S : Max(S) >= y
    BY <1>5 DEF Max
  <1> QED BY <1>6

(* An id of a server that fits in its field is told apart by it.             *)
LEMMA IdFields ==
  ASSUME NEW s \in 0 .. 7, NEW i \in Nat
  PROVE  /\ PassportId(i, s) = [inc |-> i, srv |-> s]
         /\ RoleId(i, s) = 16 * i + 2 * s
         /\ RoleId(i, s) \div 16 = i
         /\ (RoleId(i, s) \div 2) % 8 = s
  <1>1. s \div 8 = 0 /\ s % 8 = s
    BY SMT
  <1>2. Or(i, s \div 8) = i
    BY <1>1 DEF Or
  <1>3. RoleId(i, s) = 16 * i + 2 * s
    BY <1>1, <1>2 DEF RoleId
  <1>4. ((16 * i + 2 * s) \div 2) % 8 = s /\ (16 * i + 2 * s) \div 16 = i
    BY SMT
  <1>5. PassportId(i, s) = [inc |-> i, srv |-> s]
    BY <1>1, <1>2 DEF PassportId
  <1> QED BY <1>3, <1>4, <1>5

(* The ranges of the ids.                                                    *)
LEMMA PassportFields ==
  ASSUME Narrow, NEW p \in PassportIds
  PROVE  p.inc \in 0 .. MaxPassports /\ p.srv \in LoginServers /\ p = [inc |-> p.inc, srv |-> p.srv]
  <1>1. PICK i \in 1 .. MaxPassports, s \in LoginServers : p = PassportId(i, s)
    BY DEF PassportIds
  <1>2. s \in 0 .. 7 /\ i \in Nat
    BY AccAssumption DEF Narrow
  <1>3. p = [inc |-> i, srv |-> s]
    BY <1>1, <1>2, IdFields
  <1> QED BY <1>3, AccAssumption

(* The same of roles.                                                        *)
LEMMA RoleFields ==
  ASSUME Narrow, NEW r \in RoleIds
  PROVE  r \div 16 \in 0 .. (FirstRole + MaxRoles) /\ r \in Nat /\ r # 0
  <1>1. PICK i \in RoleIncs, s \in LoginServers : r = RoleId(i, s)
    BY DEF RoleIds
  <1>2. s \in 0 .. 7 /\ i \in 1 .. (FirstRole + MaxRoles)
    BY AccAssumption DEF Narrow, RoleIncs, FirstRole
  <1>3. i \in Nat
    BY <1>2, AccAssumption DEF FirstRole
  <1>4. r = 16 * i + 2 * s /\ r \div 16 = i
    BY <1>1, <1>2, <1>3, IdFields
  <1> QED BY <1>2, <1>3, <1>4, AccAssumption DEF FirstRole

(* What InitCenterDB reads from the tables.                                  *)
LEMMA Recovered ==
  ASSUME Narrow, NEW s \in LoginServers
  PROVE  /\ RecoveredPassport \in Nat
         /\ \A p \in KnownPassports : p.inc <= RecoveredPassport
         /\ RecoveredRole(s) \in Nat
  <1> DEFINE S == {p.inc : p \in KnownPassports} \cup {0}
             R == {r \div 16 : r \in {x \in KnownRoles : (x \div 2) % 128 = s}} \cup {FirstRole}
  <1>1. S \in SUBSET (0 .. MaxPassports) /\ S # {}
    BY PassportFields, AccAssumption DEF KnownPassports
  <1>2. Max(S) \in S /\ \A x \in S : x <= Max(S)
    <2> HIDE DEF S
    <2> QED BY <1>1, MaxExists, AccAssumption
  <1>3. R \in SUBSET (0 .. (FirstRole + MaxRoles)) /\ R # {}
    BY RoleFields, AccAssumption DEF KnownRoles, FirstRole
  <1>4. Max(R) \in R
    <2>1. FirstRole + MaxRoles \in Nat
      BY AccAssumption DEF FirstRole
    <2> HIDE DEF R
    <2> QED BY <1>3, <2>1, MaxExists
  <1>5. RecoveredPassport = Max(S) /\ RecoveredRole(s) = Max(R)
    BY DEF RecoveredPassport, RecoveredRole
  <1>6. Max(S) \in Nat /\ \A p \in KnownPassports : p.inc <= Max(S)
    <2>1. \A p \in KnownPassports : p.inc \in S
      OBVIOUS
    <2>2. Max(S) \in 0 .. MaxPassports
      <3> HIDE DEF S
      <3> QED BY <1>1, <1>2
    <2> HIDE DEF S
    <2> QED BY <1>2, <2>1, <2>2, AccAssumption
  <1>7. Max(R) \in Nat
    <2> HIDE DEF R
    <2>1. Max(R) \in 0 .. (FirstRole + MaxRoles)
      BY <1>3, <1>4
    <2> QED BY <2>1, AccAssumption DEF FirstRole
  <1> QED BY <1>5, <1>6, <1>7

-----------------------------------------------------------------------------
(* The initial state.                                                        *)
LEMMA InitInv == AccInit => IInv /\ InvLookup /\ NoDuplicates
  <1> SUFFICES ASSUME AccInit PROVE IInv /\ InvLookup /\ NoDuplicates
    OBVIOUS
  <1>1. KnownPassports = {} /\ KnownRoles = {}
    BY DEF AccInit, KnownPassports, KnownRoles
  <1>2. AccTypeOK
    <2>1. blind \in BOOLEAN
      BY Zenon DEF AccInit
    <2> QED BY <2>1, AccAssumption DEF AccInit, AccTypeOK, NoPassport, NoRole, NoJob, PassportRows, RoleRows, Jobs
  <1>3. InvJob /\ InvAccount /\ InvEntered /\ InvLookup
    BY DEF AccInit, InvJob, InvAccount, InvEntered, InvLookup, Steps
  <1>4. InvCount /\ EntranceHasRole /\ NoDuplicates
    BY <1>1 DEF InvCount, EntranceHasRole, NoDuplicates
  <1> QED BY <1>2, <1>3, <1>4 DEF IInv

(* The ways a step can be taken, with the handlers that share a part together. *)
LEMMA NextCases ==
  ASSUME AccNext
  PROVE  \/ \E s \in LoginServers : \/ Start(s) \/ ServerCrash(s) \/ InsertPassport(s)
                               \/ InsertRole(s) \/ Enter(s) \/ CreateLoginToken(s)
         \/ \E c \in Clients : Disconnect(c)
         \/ \E s \in LoginServers, c \in Clients : Connect(c, s)
         \/ \E s \in LoginServers, c \in Clients, n \in Names : Serves(s, c) /\ NewPassport(s, c, n)
         \/ \E s \in LoginServers, c \in Clients, n \in Names : Serves(s, c) /\ LogIn(c, n)
         \/ \E s \in LoginServers, c \in Clients, o \in Origins : ChooseServer(s, c, o)
  <1>1. ASSUME NEW s \in LoginServers, NEW c \in Clients, Request(s, c)
        PROVE  \/ \E n \in Names : Serves(s, c) /\ (NewPassport(s, c, n) \/ LogIn(c, n))
               \/ \E o \in Origins : ChooseServer(s, c, o)
    BY <1>1 DEF Request, Register, AccountLogin, TokenLogin, Names
  <1> QED BY <1>1 DEF AccNext, Handler

(* What a failure or its absence does to the counter of failures.            *)
LEMMA OutcomeType ==
  ASSUME AccTypeOK, NEW o \in Answers, CountLoss(o)
  PROVE  losses' \in 0 .. MaxLosses /\ blind' \in BOOLEAN
  BY AccAssumption DEF AccTypeOK, Answers, CountLoss

(* The same of a lookup without a result, and of a query that fails.         *)
LEMMA QueryType ==
  ASSUME AccTypeOK, UNCHANGED failVars \/ (LookupFails /\ (blind' = TRUE \/ UNCHANGED blind))
  PROVE  losses' \in 0 .. MaxLosses /\ blind' \in BOOLEAN
  <1>1. losses' \in 0 .. MaxLosses
    BY AccAssumption DEF AccTypeOK, LookupFails, failVars
  <1>2. blind' = TRUE \/ blind' = blind
    BY Zenon DEF failVars
  <1>3. blind \in BOOLEAN
    BY Zenon DEF AccTypeOK
  <1> QED BY <1>1, <1>2, <1>3, Zenon

(* Every action keeps every variable in its range.                           *)
LEMMA TypeStep ==
  ASSUME Narrow, AccTypeOK, InvJob, InvAccount, [AccNext]_accVars
  PROVE  AccTypeOK'
  <1> USE DEF AccTypeOK, failVars
  <1> DEFINE Places == {"down", "idle", "passport", "role", "enter", "token"}
  <1>c. NoJob \in Jobs
    BY DEF NoJob, Jobs
  <1>1. ASSUME NEW s \in LoginServers, Start(s) PROVE AccTypeOK'
    <2>1. RecoveredPassport \in Nat /\ RecoveredRole(s) \in Nat
      BY Recovered
    <2>2. PICK n \in Nat, m \in Nat, b \in BOOLEAN :
            /\ passInc' = [passInc EXCEPT ![s] = n]
            /\ roleInc' = [roleInc EXCEPT ![s] = m]
            /\ ready' = [ready EXCEPT ![s] = b]
      <3>1. 0 \in Nat
        OBVIOUS
      <3> QED BY <1>1, <2>1, <3>1, Zenon DEF Start
    <2>3. losses' \in 0 .. MaxLosses /\ blind' \in BOOLEAN
      BY <1>1, QueryType DEF Start
    <2>4. starts' \in 0 .. MaxStarts
      BY <1>1, AccAssumption DEF Start
    <2> QED BY <1>1, <2>2, <2>3, <2>4 DEF Start, nameVars, sessVars
  <1>2. ASSUME NEW s \in LoginServers, ServerCrash(s) PROVE AccTypeOK'
    <2>1. job' \in [LoginServers -> Jobs]
      BY <1>2, <1>c DEF ServerCrash
    <2> QED BY <1>2, <2>1 DEF ServerCrash, nameVars, Jobs
  <1>3. ASSUME NEW c \in Clients, Disconnect(c) PROVE AccTypeOK'
    BY <1>3 DEF Disconnect, nameVars, srvVars
  <1>4. ASSUME NEW s \in LoginServers, NEW c \in Clients, Connect(c, s) PROVE AccTypeOK'
    BY <1>4 DEF Connect, nameVars, srvVars
  <1>5. ASSUME NEW s \in LoginServers, NEW c \in Clients, NEW n \in Names, NewPassport(s, c, n) PROVE AccTypeOK'
    <2>1. [NoJob EXCEPT !.client = c, !.name = n] \in Jobs
      BY DEF NoJob, Jobs
    <2>2. job' \in [LoginServers -> Jobs]
      BY <1>5, <2>1 DEF NewPassport
    <2>3. losses' \in 0 .. MaxLosses /\ blind' \in BOOLEAN
      BY <1>5, QueryType DEF NewPassport, NoResult
    <2>4. pc' \in [LoginServers -> Places]
      BY <1>5 DEF NewPassport
    <2> QED BY <1>5, <2>2, <2>3, <2>4 DEF NewPassport, nameVars, sessVars, Jobs
  <1>6. ASSUME NEW c \in Clients, NEW n \in Names, LogIn(c, n) PROVE AccTypeOK'
    <2>1. \A p \in FindPassport(n) : p \in PassportIds
      BY DEF FindPassport, KnownPassports
    <2> QED BY <1>6, <2>1 DEF LogIn, nameVars, srvVars
  <1>7. ASSUME NEW s \in LoginServers, InsertPassport(s) PROVE AccTypeOK'
    <2> DEFINE id == PassportId(passInc[s] + 1, s)
    <2>1. job[s].client \in Clients /\ job[s].name \in Names /\ id \in PassportIds
      BY <1>7 DEF InvJob, InsertPassport, Steps
    <2>2. [NoPassport EXCEPT !.name = job[s].name] \in PassportRows
      BY <2>1 DEF NoPassport, PassportRows
    <2> DEFINE Goal == /\ passport' \in [PassportIds -> PassportRows]
                       /\ account' \in [Clients -> PassportIds \cup {None}]
                       /\ losses' \in 0 .. MaxLosses /\ blind' \in BOOLEAN
    <2>3. Goal
      <3> HIDE DEF id
      <3>1. CASE UNCHANGED <<passport, account, failVars>>
        BY <3>1
      <3>2. ASSUME NEW o \in Answers, CountLoss(o),
                   passport' = IF o = "failed" THEN passport
                               ELSE [passport EXCEPT ![id] = [NoPassport EXCEPT !.name = job[s].name]],
                   account' = IF o = "done" /\ job[s].name \notin AccountNames
                              THEN [account EXCEPT ![job[s].client] = id] ELSE account
            PROVE Goal
        <4>1. losses' \in 0 .. MaxLosses /\ blind' \in BOOLEAN
          BY <3>2, OutcomeType
        <4>2. passport' \in [PassportIds -> PassportRows]
          BY <3>2, <2>1, <2>2
        <4>3. account' \in [Clients -> PassportIds \cup {None}]
          BY <3>2, <2>1
        <4> QED BY <4>1, <4>2, <4>3
      <3> QED BY <1>7, <3>1, <3>2 DEF InsertPassport, id
    <2>4. job' \in [LoginServers -> Jobs] /\ pc' \in [LoginServers -> Places]
      BY <1>7, <1>c DEF InsertPassport
    <2>5. passInc' \in [LoginServers -> Nat]
      BY <1>7 DEF InsertPassport
    <2> QED BY <1>7, <2>3, <2>4, <2>5 DEF InsertPassport, PassportRows, Jobs
  <1>8. ASSUME NEW s \in LoginServers, NEW c \in Clients, NEW o \in Origins, ChooseServer(s, c, o)
        PROVE AccTypeOK'
    <2>1. ASSUME NEW r \in RoleIds
          PROVE [NoJob EXCEPT !.client = c, !.origin = o, !.role = r] \in Jobs
      BY DEF NoJob, Jobs
    <2>2. ASSUME NextRoleInc(s) \in RoleIncs PROVE RoleId(NextRoleInc(s), s) \in RoleIds
      BY <2>2 DEF RoleIds
    <2>3. \A r \in FindRole(account[c], o) : r \in RoleIds
      BY DEF FindRole, KnownRoles
    <2>4. PICK r \in RoleIds :
            job' = [job EXCEPT ![s] = [NoJob EXCEPT !.client = c, !.origin = o, !.role = r]]
      BY <1>8, <2>2, <2>3 DEF ChooseServer
    <2>5. job' \in [LoginServers -> Jobs]
      BY <2>1, <2>4
    <2>6. losses' \in 0 .. MaxLosses /\ blind' \in BOOLEAN
      BY <1>8, QueryType DEF ChooseServer, NoResult
    <2>7. roleInc' \in [LoginServers -> Nat]
      <3>1. roleInc' = roleInc \/ roleInc' = [roleInc EXCEPT ![s] = NextRoleInc(s)]
        BY <1>8 DEF ChooseServer
      <3>2. NextRoleInc(s) \in Nat
        BY DEF NextRoleInc
      <3> QED BY <3>1, <3>2
    <2>8. pc' \in [LoginServers -> Places]
      BY <1>8 DEF ChooseServer
    <2> QED BY <1>8, <2>5, <2>6, <2>7, <2>8 DEF ChooseServer, nameVars, sessVars
  <1>9. ASSUME NEW s \in LoginServers, NEW b \in BOOLEAN, AfterInsert(s, b) \/ Finish(s)
        PROVE pc' \in [LoginServers -> Places] /\ job' \in [LoginServers -> Jobs]
    BY <1>9, <1>c DEF AfterInsert, Finish
  <1>10. ASSUME NEW s \in LoginServers, InsertRole(s) PROVE AccTypeOK'
    <2> DEFINE e == [passport |-> account[job[s].client], origin |-> job[s].origin]
    <2>1. job[s].role \in RoleIds /\ e \in RoleRows
      BY <1>10 DEF InvJob, InsertRole, Steps, RoleRows, KnownPassports
    <2>2. role' \in [RoleIds -> RoleRows]
      <3> HIDE DEF e
      <3> QED BY <1>10, <2>1 DEF InsertRole, e
    <2>3. losses' \in 0 .. MaxLosses /\ blind' \in BOOLEAN
      BY <1>10, OutcomeType DEF InsertRole
    <2>4. pc' \in [LoginServers -> Places] /\ job' \in [LoginServers -> Jobs]
      <3>1. \E b \in BOOLEAN : AfterInsert(s, b)
        BY <1>10 DEF InsertRole
      <3> QED BY <3>1, <1>9
    <2> QED BY <1>10, <2>2, <2>3, <2>4 DEF InsertRole, sessVars
  <1>11. ASSUME NEW s \in LoginServers, Enter(s) PROVE AccTypeOK'
    <2> DEFINE p == account[job[s].client]
    <2>1. p \in PassportIds /\ job[s].origin \in Origins
      BY <1>11 DEF InvJob, Enter, Steps, KnownPassports
    <2>2. [passport[p] EXCEPT !.last = job[s].origin] \in PassportRows
      <3>1. passport[p] \in PassportRows
        BY <2>1
      <3> QED BY <2>1, <3>1 DEF PassportRows
    <2>3. passport' \in [PassportIds -> PassportRows]
      BY <1>11, <2>1, <2>2 DEF Enter
    <2>4. losses' \in 0 .. MaxLosses /\ blind' \in BOOLEAN
      BY <1>11, OutcomeType DEF Enter
    <2>5. pc' \in [LoginServers -> Places] /\ job' \in [LoginServers -> Jobs]
      BY <1>11, <1>9 DEF Enter
    <2> QED BY <1>11, <2>3, <2>4, <2>5 DEF Enter, sessVars
  <1>12. ASSUME NEW s \in LoginServers, CreateLoginToken(s) PROVE AccTypeOK'
    <2> DEFINE p == account[job[s].client]
    <2>1. p \in PassportIds /\ job[s].origin \in Origins /\ job[s].role \in RoleIds
      BY <1>12 DEF InvJob, CreateLoginToken, Steps, KnownPassports
    <2>2. [passport[p] EXCEPT !.token = TRUE] \in PassportRows
      <3>1. passport[p] \in PassportRows
        BY <2>1
      <3> QED BY <2>1, <3>1 DEF PassportRows
    <2>3. passport' \in [PassportIds -> PassportRows]
      BY <1>12, <2>1, <2>2 DEF CreateLoginToken
    <2>4. losses' \in 0 .. MaxLosses /\ blind' \in BOOLEAN
      BY <1>12, OutcomeType DEF CreateLoginToken
    <2>5. pc' \in [LoginServers -> Places] /\ job' \in [LoginServers -> Jobs]
      BY <1>12, <1>9 DEF CreateLoginToken
    <2>6. given' \subseteq PassportIds \X Origins \X RoleIds
      BY <1>12, <2>1 DEF CreateLoginToken
    <2> QED BY <1>12, <2>3, <2>4, <2>5, <2>6 DEF CreateLoginToken
  <1>13. CASE UNCHANGED accVars
    BY <1>13 DEF accVars, nameVars, srvVars, sessVars
  <1> QED BY <1>1, <1>2, <1>3, <1>4, <1>5, <1>6, <1>7, <1>8, <1>10, <1>11, <1>12, <1>13, NextCases, Zenon

(* What a step does to passport_info: rows stay and keep their names, and a row *)
(* is added only by InsertPassport, under an id that no row had.             *)
LEMMA PassportStep ==
  ASSUME AccTypeOK, InvJob, [AccNext]_accVars
  PROVE  /\ \A p \in KnownPassports : p \in KnownPassports' /\ passport'[p].name = passport[p].name
         /\ \A p \in KnownPassports' : p \notin KnownPassports =>
              \E s \in LoginServers : /\ InsertPassport(s) /\ p = PassportId(passInc[s] + 1, s)
                                 /\ passport'[p].name = job[s].name
  <1> DEFINE Goal == /\ \A p \in KnownPassports : p \in KnownPassports' /\ passport'[p].name = passport[p].name
                     /\ \A p \in KnownPassports' : p \notin KnownPassports =>
                          \E s \in LoginServers : /\ InsertPassport(s) /\ p = PassportId(passInc[s] + 1, s)
                                             /\ passport'[p].name = job[s].name
  <1> USE DEF AccTypeOK
  <1>1. CASE UNCHANGED passport
    BY <1>1 DEF KnownPassports
  <1>2. ASSUME NEW s \in LoginServers, InsertPassport(s) PROVE Goal
    <2> DEFINE id == PassportId(passInc[s] + 1, s)
    <2>1. id \in PassportIds /\ job[s].name \in Names
      BY <1>2 DEF InvJob, InsertPassport
    <2>2. CASE UNCHANGED passport
      BY <2>2, <1>1
    <2>3. CASE id \notin KnownPassports /\ passport' = [passport EXCEPT ![id] = [NoPassport EXCEPT !.name = job[s].name]]
      <3> HIDE DEF id
      <3>1. \A p \in PassportIds : p # id => passport'[p] = passport[p]
        BY <2>3
      <3>2. passport'[id].name = job[s].name
        BY <2>1, <2>3 DEF NoPassport
      <3>3. \A p \in KnownPassports : p \in KnownPassports' /\ passport'[p].name = passport[p].name
        BY <3>1, <2>3 DEF KnownPassports
      <3>4. ASSUME NEW p \in KnownPassports', p \notin KnownPassports PROVE p = id
        BY <3>1, <3>4 DEF KnownPassports
      <3> QED BY <3>2, <3>3, <3>4, <1>2 DEF id
    <2> QED BY <1>2, <2>2, <2>3 DEF InsertPassport
  <1>3. ASSUME NEW p \in KnownPassports, NEW e,
               passport' = [passport EXCEPT ![p] = e], e.name = passport[p].name, e # NoPassport
        PROVE Goal
    <2>1. \A q \in PassportIds : q # p => passport'[q] = passport[q]
      BY <1>3
    <2>2. p \in PassportIds /\ passport'[p] = e
      BY <1>3 DEF KnownPassports
    <2>3. KnownPassports' = KnownPassports
      BY <2>1, <2>2, <1>3 DEF KnownPassports
    <2> QED BY <2>1, <2>2, <2>3, <1>3 DEF KnownPassports
  <1>4. ASSUME NEW s \in LoginServers, Enter(s) PROVE Goal
    <2> DEFINE p == account[job[s].client]
    <2>1. p \in KnownPassports /\ job[s].origin \in Origins
      BY <1>4 DEF InvJob, Enter, Steps
    <2>2. CASE UNCHANGED passport
      BY <2>2, <1>1
    <2>3. CASE passport' = [passport EXCEPT ![p] = [@ EXCEPT !.last = job[s].origin]]
      <3>1. passport[p] \in PassportRows
        BY <2>1 DEF KnownPassports
      <3>2. /\ [passport[p] EXCEPT !.last = job[s].origin].name = passport[p].name
            /\ [passport[p] EXCEPT !.last = job[s].origin].last # None
        BY <2>1, <3>1, AccAssumption DEF PassportRows
      <3>3. [passport[p] EXCEPT !.last = job[s].origin] # NoPassport
        BY <3>2 DEF NoPassport
      <3> HIDE DEF p
      <3> QED BY <1>3, <2>1, <2>3, <3>2, <3>3
    <2> QED BY <1>4, <2>2, <2>3 DEF Enter
  <1>5. ASSUME NEW s \in LoginServers, CreateLoginToken(s) PROVE Goal
    <2> DEFINE p == account[job[s].client]
    <2>1. p \in KnownPassports
      BY <1>5 DEF InvJob, CreateLoginToken, Steps
    <2>2. CASE UNCHANGED passport
      BY <2>2, <1>1
    <2>3. CASE passport' = [passport EXCEPT ![p] = [@ EXCEPT !.token = TRUE]]
      <3>1. passport[p] \in PassportRows
        BY <2>1 DEF KnownPassports
      <3>2. /\ [passport[p] EXCEPT !.token = TRUE].name = passport[p].name
            /\ [passport[p] EXCEPT !.token = TRUE].token = TRUE
        BY <3>1 DEF PassportRows
      <3>3. [passport[p] EXCEPT !.token = TRUE] # NoPassport
        BY <3>2 DEF NoPassport
      <3> HIDE DEF p
      <3> QED BY <1>3, <2>1, <2>3, <3>2, <3>3
    <2> QED BY <1>5, <2>2, <2>3 DEF CreateLoginToken
  <1>6. ASSUME ~UNCHANGED passport PROVE \E s \in LoginServers : InsertPassport(s) \/ Enter(s) \/ CreateLoginToken(s)
    <2>1. AccNext
      BY <1>6 DEF accVars, nameVars
    <2> QED BY <2>1, <1>6, NextCases DEF Start, ServerCrash, Disconnect, Connect, NewPassport, LogIn,
              ChooseServer, InsertRole, nameVars
  <1> QED BY <1>1, <1>2, <1>4, <1>5, <1>6, Zenon

(* What a step does to re_passport_player.                                   *)
LEMMA RoleStep ==
  ASSUME AccTypeOK, InvJob, [AccNext]_accVars
  PROVE  /\ \A r \in KnownRoles : r \in KnownRoles' /\ role'[r] = role[r]
         /\ \A r \in KnownRoles' : r \notin KnownRoles =>
              \E s \in LoginServers :
                /\ InsertRole(s) /\ r = job[s].role
                /\ role'[r] = [passport |-> account[job[s].client], origin |-> job[s].origin]
  <1> DEFINE Goal == /\ \A r \in KnownRoles : r \in KnownRoles' /\ role'[r] = role[r]
                     /\ \A r \in KnownRoles' : r \notin KnownRoles =>
                          \E s \in LoginServers :
                            /\ InsertRole(s) /\ r = job[s].role
                            /\ role'[r] = [passport |-> account[job[s].client], origin |-> job[s].origin]
  <1> USE DEF AccTypeOK
  <1>1. CASE UNCHANGED role
    BY <1>1 DEF KnownRoles
  <1>2. ASSUME NEW s \in LoginServers, InsertRole(s) PROVE Goal
    <2> DEFINE t == job[s].role
               e == [passport |-> account[job[s].client], origin |-> job[s].origin]
    <2>1. t \in RoleIds
      BY <1>2 DEF InvJob, InsertRole, Steps
    <2>2. CASE t \notin KnownRoles /\ role' = [role EXCEPT ![t] = e]
      <3> HIDE DEF t, e
      <3>1. \A r \in RoleIds : r # t => role'[r] = role[r]
        BY <2>2
      <3>2. role'[t] = e
        BY <2>1, <2>2
      <3>3. \A r \in KnownRoles : r \in KnownRoles' /\ role'[r] = role[r]
        BY <3>1, <2>2 DEF KnownRoles
      <3>4. ASSUME NEW r \in KnownRoles', r \notin KnownRoles PROVE r = t
        BY <3>1, <3>4 DEF KnownRoles
      <3> QED BY <3>2, <3>3, <3>4, <1>2 DEF t, e
    <2> QED BY <1>1, <1>2, <2>2 DEF InsertRole, RoleTaken
  <1>3. ASSUME ~UNCHANGED role PROVE \E s \in LoginServers : InsertRole(s)
    <2>1. AccNext
      BY <1>3 DEF accVars, nameVars
    <2> QED BY <2>1, <1>3, NextCases DEF Start, ServerCrash, Disconnect, Connect, NewPassport, LogIn,
              ChooseServer, InsertPassport, Enter, CreateLoginToken, nameVars
  <1> QED BY <1>1, <1>2, <1>3, Zenon

(* What a step does to the session of a client that a handler works for: the *)
(* session stays, and only the end of a login changes its account.           *)
LEMMA SessionStep ==
  ASSUME AccTypeOK, InvJob, [AccNext]_accVars,
         NEW s \in LoginServers, pc[s] \in Steps, pc'[s] \in Steps
  PROVE  /\ home'[job[s].client] = s
         /\ account'[job[s].client] = account[job[s].client]
  <1> USE DEF AccTypeOK
  <1> DEFINE k == job[s].client
  <1>1. k \in Clients /\ home[k] = s
    BY DEF InvJob
  <1>2. CASE UNCHANGED accVars
    BY <1>1, <1>2 DEF accVars, sessVars
  <1>3. ASSUME NEW t \in LoginServers, ServerCrash(t) PROVE home'[k] = s /\ account'[k] = account[k]
    <2>1. t # s
      BY <1>3 DEF ServerCrash, Steps
    <2> QED BY <1>1, <1>3, <2>1 DEF ServerCrash
  <1>4. ASSUME NEW c \in Clients, Disconnect(c) PROVE home'[k] = s /\ account'[k] = account[k]
    BY <1>1, <1>4 DEF Disconnect
  <1>5. ASSUME NEW t \in LoginServers, NEW c \in Clients, Connect(c, t) PROVE home'[k] = s /\ account'[k] = account[k]
    <2>1. home[k] # None
      BY <1>1, AccAssumption
    <2> QED BY <1>1, <1>5, <2>1 DEF Connect
  <1>6. ASSUME NEW t \in LoginServers, NEW c \in Clients, NEW n \in Names, Serves(t, c), LogIn(c, n)
        PROVE home'[k] = s /\ account'[k] = account[k]
    <2>1. c # k
      BY <1>1, <1>6 DEF Serves, Steps
    <2> QED BY <1>1, <1>6, <2>1 DEF LogIn
  <1>7. ASSUME NEW t \in LoginServers, InsertPassport(t) PROVE home'[k] = s /\ account'[k] = account[k]
    <2>1. t # s
      BY <1>7 DEF InsertPassport, Steps
    <2>2. job[t].client \in Clients /\ job[t].client # k
      BY <1>1, <1>7, <2>1 DEF InsertPassport, InvJob, Steps
    <2>3. account'[k] = account[k]
      BY <1>1, <1>7, <2>2 DEF InsertPassport
    <2> QED BY <1>1, <1>7, <2>3 DEF InsertPassport
  <1>8. ASSUME AccNext, ~(\E t \in LoginServers : ServerCrash(t) \/ InsertPassport(t)), ~(\E c \in Clients : Disconnect(c)),
               ~(\E t \in LoginServers, c \in Clients : Connect(c, t)),
               ~(\E t \in LoginServers, c \in Clients, n \in Names : Serves(t, c) /\ LogIn(c, n))
        PROVE UNCHANGED <<home, account>>
    BY <1>8, NextCases DEF Start, NewPassport, ChooseServer, InsertRole, Enter, CreateLoginToken, sessVars
  <1>9. CASE UNCHANGED <<home, account>>
    BY <1>1, <1>9
  <1> HIDE DEF k
  <1> QED BY <1>2, <1>3, <1>4, <1>5, <1>6, <1>7, <1>8, <1>9, Zenon DEF k

(* A server goes on only by a step of its own.                               *)
LEMMA ServerStep ==
  ASSUME AccTypeOK, [AccNext]_accVars, NEW s \in LoginServers
  PROVE  \/ /\ pc'[s] = pc[s] /\ job'[s] = job[s] /\ passInc'[s] = passInc[s] /\ ready'[s] = ready[s]
         \/ Start(s) \/ ServerCrash(s) \/ Handler(s)
         \/ \E c \in Clients, n \in Names : Serves(s, c) /\ NewPassport(s, c, n)
         \/ \E c \in Clients, o \in Origins : ChooseServer(s, c, o)
  <1> DEFINE Same == /\ pc'[s] = pc[s] /\ job'[s] = job[s]
                     /\ passInc'[s] = passInc[s] /\ ready'[s] = ready[s]
  <1> USE DEF AccTypeOK
  <1>1. ASSUME UNCHANGED accVars PROVE Same
    BY <1>1 DEF accVars, srvVars
  <1>2. ASSUME NEW t \in LoginServers, t # s, Start(t) \/ ServerCrash(t) PROVE Same
    BY <1>2 DEF Start, ServerCrash
  <1>3. ASSUME NEW t \in LoginServers, t # s, Handler(t) PROVE Same
    <2>1. CASE InsertPassport(t)
      BY <1>3, <2>1 DEF InsertPassport
    <2>2. CASE InsertRole(t)
      BY <1>3, <2>2 DEF InsertRole, AfterInsert, Finish
    <2>3. CASE Enter(t)
      BY <1>3, <2>3 DEF Enter, Finish
    <2>4. CASE CreateLoginToken(t)
      BY <1>3, <2>4 DEF CreateLoginToken, Finish
    <2> QED BY <1>3, <2>1, <2>2, <2>3, <2>4 DEF Handler
  <1>4. ASSUME NEW t \in LoginServers, NEW c \in Clients, NEW n \in Names, t # s, NewPassport(t, c, n) PROVE Same
    BY <1>4 DEF NewPassport
  <1>5. ASSUME NEW t \in LoginServers, NEW c \in Clients, NEW o \in Origins, t # s, ChooseServer(t, c, o) PROVE Same
    BY <1>5 DEF ChooseServer
  <1>6. ASSUME NEW c \in Clients, Disconnect(c) \/ \E t \in LoginServers : Connect(c, t) PROVE Same
    BY <1>6 DEF Disconnect, Connect, srvVars
  <1>7. ASSUME NEW c \in Clients, NEW n \in Names, LogIn(c, n) PROVE Same
    BY <1>7 DEF LogIn, srvVars
  <1> DEFINE Goal == \/ Same
                     \/ Start(s) \/ ServerCrash(s) \/ Handler(s)
                     \/ \E c \in Clients, n \in Names : Serves(s, c) /\ NewPassport(s, c, n)
                     \/ \E c \in Clients, o \in Origins : ChooseServer(s, c, o)
  <1> HIDE DEF Same
  <1>8. ASSUME NEW t \in LoginServers, \/ Start(t) \/ ServerCrash(t) \/ InsertPassport(t)
                                  \/ InsertRole(t) \/ Enter(t) \/ CreateLoginToken(t)
        PROVE  Goal
    <2>1. Start(t) \/ ServerCrash(t) \/ Handler(t)
      BY <1>8, Zenon DEF Handler
    <2>2. CASE t = s
      <3>1. Start(s) \/ ServerCrash(s) \/ Handler(s)
        BY <2>1, <2>2, Zenon
      <3> QED BY <3>1, Zenon
    <2>3. CASE t # s
      BY <2>1, <2>3, <1>2, <1>3, Zenon
    <2> QED BY <2>2, <2>3
  <1>9. ASSUME NEW t \in LoginServers, NEW c \in Clients, NEW n \in Names, Serves(t, c), NewPassport(t, c, n)
        PROVE  Goal
    <2>1. CASE t = s
      <3>1. Serves(s, c) /\ NewPassport(s, c, n)
        BY <1>9, <2>1, Zenon
      <3> QED BY <3>1, Zenon
    <2>2. CASE t # s
      BY <1>9, <2>2, <1>4, Zenon
    <2> QED BY <2>1, <2>2
  <1>10. ASSUME NEW t \in LoginServers, NEW c \in Clients, NEW o \in Origins, ChooseServer(t, c, o)
         PROVE  Goal
    <2>1. CASE t = s
      <3>1. ChooseServer(s, c, o)
        BY <1>10, <2>1, Zenon
      <3> QED BY <3>1, Zenon
    <2>2. CASE t # s
      BY <1>10, <2>2, <1>5, Zenon
    <2> QED BY <2>1, <2>2
  <1>11. Same => Goal
    OBVIOUS
  <1>12. Goal
    <2> HIDE DEF Goal
    <2>1. CASE AccNext
      BY <2>1, <1>6, <1>7, <1>8, <1>9, <1>10, <1>11, NextCases, Zenon
    <2> QED BY <1>1, <1>11, <2>1
  <1> QED BY <1>12 DEF Same

(* A handler keeps what it needs until it ends.                              *)
LEMMA JobStep ==
  ASSUME Narrow, AccTypeOK, InvJob, InvAccount, [AccNext]_accVars
  PROVE  InvJob'
  <1> USE DEF AccTypeOK
  <1>0. KnownPassports \subseteq KnownPassports'
    BY PassportStep
  <1> SUFFICES ASSUME NEW s \in LoginServers
      PROVE  /\ pc'[s] \in Steps => job'[s].client \in Clients /\ home'[job'[s].client] = s
             /\ pc'[s] = "passport" => /\ job'[s].name \in Names
                                       /\ PassportId(passInc'[s] + 1, s) \in PassportIds
             /\ pc'[s] \in Steps \ {"passport"} =>
                  /\ account'[job'[s].client] \in KnownPassports'
                  /\ job'[s].origin \in Origins /\ job'[s].role \in RoleIds
    BY DEF InvJob
  <1> DEFINE Goal == /\ pc'[s] \in Steps => job'[s].client \in Clients /\ home'[job'[s].client] = s
                     /\ pc'[s] = "passport" => /\ job'[s].name \in Names
                                               /\ PassportId(passInc'[s] + 1, s) \in PassportIds
                     /\ pc'[s] \in Steps \ {"passport"} =>
                          /\ account'[job'[s].client] \in KnownPassports'
                          /\ job'[s].origin \in Origins /\ job'[s].role \in RoleIds
  <1>1. ASSUME pc'[s] = pc[s] \/ (pc[s] \in Steps \ {"passport"} /\ pc'[s] \in Steps \ {"passport"}),
               job'[s] = job[s], passInc'[s] = passInc[s]
        PROVE  Goal
    <2>1. CASE pc'[s] \notin Steps
      BY <2>1 DEF Steps
    <2>2. CASE pc'[s] \in Steps
      <3>1. pc[s] \in Steps
        BY <1>1, <2>2
      <3>2. home'[job[s].client] = s /\ account'[job[s].client] = account[job[s].client]
        BY <2>2, <3>1, SessionStep
      <3>3. job[s].client \in Clients
        BY <3>1 DEF InvJob
      <3>4. pc'[s] = "passport" => job[s].name \in Names /\ PassportId(passInc[s] + 1, s) \in PassportIds
        BY <1>1 DEF InvJob
      <3>5. pc'[s] \in Steps \ {"passport"} =>
              account[job[s].client] \in KnownPassports /\ job[s].origin \in Origins /\ job[s].role \in RoleIds
        BY <1>1 DEF InvJob
      <3> QED BY <1>0, <1>1, <3>2, <3>3, <3>4, <3>5
    <2> QED BY <2>1, <2>2
  <1>2. ASSUME pc'[s] \in {"idle", "down"} PROVE Goal
    BY <1>2 DEF Steps
  <1>3. ASSUME Start(s) \/ ServerCrash(s) PROVE Goal
    <2>1. pc'[s] \in {"idle", "down"}
      BY <1>3 DEF Start, ServerCrash
    <2> QED BY <2>1, <1>2
  <1>4. ASSUME Handler(s) PROVE Goal
    <2>1. CASE InsertPassport(s)
      BY <2>1, <1>2 DEF InsertPassport
    <2>2. CASE InsertRole(s)
      <3>1. pc[s] = "role" /\ UNCHANGED passInc
            /\ (pc'[s] = "idle" \/ (pc'[s] = "enter" /\ UNCHANGED job))
        BY <2>2 DEF InsertRole, AfterInsert, Finish
      <3> QED BY <3>1, <1>1, <1>2 DEF Steps
    <2>3. CASE Enter(s)
      <3>1. pc[s] = "enter" /\ UNCHANGED passInc
            /\ (pc'[s] = "idle" \/ (pc'[s] = "token" /\ UNCHANGED job))
        BY <2>3 DEF Enter, Finish
      <3> QED BY <3>1, <1>1, <1>2 DEF Steps
    <2>4. CASE CreateLoginToken(s)
      BY <2>4, <1>2 DEF CreateLoginToken, Finish
    <2> QED BY <1>4, <2>1, <2>2, <2>3, <2>4 DEF Handler
  <1>5. ASSUME NEW c \in Clients, NEW n \in Names, Serves(s, c), NewPassport(s, c, n) PROVE Goal
    <2>1. pc'[s] = "passport" /\ job'[s].client = c /\ job'[s].name = n
      BY <1>5 DEF NewPassport, NoJob
    <2>2. PassportId(passInc'[s] + 1, s) \in PassportIds /\ home'[c] = s
      BY <1>5 DEF NewPassport, Serves, sessVars
    <2> QED BY <2>1, <2>2
  <1>6. ASSUME NEW c \in Clients, NEW o \in Origins, ChooseServer(s, c, o) PROVE Goal
    <2>1. ASSUME NextRoleInc(s) \in RoleIncs PROVE RoleId(NextRoleInc(s), s) \in RoleIds
      BY <2>1 DEF RoleIds
    <2>2. \A r \in FindRole(account[c], o) : r \in RoleIds
      BY DEF FindRole, KnownRoles
    <2>3. PICK r \in RoleIds :
            job' = [job EXCEPT ![s] = [NoJob EXCEPT !.client = c, !.origin = o, !.role = r]]
      BY <1>6, <2>1, <2>2 DEF ChooseServer
    <2>4. job'[s].client = c /\ job'[s].origin = o /\ job'[s].role = r
      BY <2>3 DEF NoJob
    <2>5. pc'[s] \in {"enter", "role"} /\ home'[c] = s
      BY <1>6 DEF ChooseServer, Serves, sessVars
    <2>6. account'[c] \in KnownPassports'
      BY <1>0, <1>6 DEF ChooseServer, Authed, InvAccount, sessVars
    <2> QED BY <2>4, <2>5, <2>6
  <1> HIDE DEF Goal
  <1>7. ASSUME pc'[s] = pc[s] /\ job'[s] = job[s] /\ passInc'[s] = passInc[s] /\ ready'[s] = ready[s]
        PROVE  Goal
    BY <1>1, <1>7
  <1>8. Goal
    BY <1>3, <1>4, <1>5, <1>6, <1>7, ServerStep, Zenon
  <1> QED BY <1>8 DEF Goal

(* A session is only ever given the account of a row.                        *)
LEMMA AccountStep ==
  ASSUME AccTypeOK, InvJob, InvAccount, [AccNext]_accVars
  PROVE  InvAccount'
  <1> USE DEF AccTypeOK
  <1>0. KnownPassports \subseteq KnownPassports'
    BY PassportStep
  <1>1. CASE UNCHANGED account
    BY <1>0, <1>1 DEF InvAccount
  <1>2. ASSUME NEW t \in LoginServers, ServerCrash(t) PROVE InvAccount'
    BY <1>0, <1>2 DEF ServerCrash, InvAccount
  <1>3. ASSUME NEW c \in Clients, Disconnect(c) PROVE InvAccount'
    BY <1>0, <1>3 DEF Disconnect, InvAccount
  <1>4. ASSUME NEW c \in Clients, NEW n \in Names, LogIn(c, n) PROVE InvAccount'
    <2>1. PICK p \in KnownPassports : account' = [account EXCEPT ![c] = p]
      BY <1>4 DEF LogIn, FindPassport
    <2> QED BY <1>0, <2>1 DEF InvAccount
  <1>5. ASSUME NEW s \in LoginServers, InsertPassport(s) PROVE InvAccount'
    <2> DEFINE id == PassportId(passInc[s] + 1, s)
    <2>1. id \in PassportIds /\ job[s].name \in Names
      BY <1>5 DEF InvJob, InsertPassport
    <2>2. CASE account' = [account EXCEPT ![job[s].client] = id]
                /\ passport' = [passport EXCEPT ![id] = [NoPassport EXCEPT !.name = job[s].name]]
      <3> HIDE DEF id
      <3>1. passport'[id].name = job[s].name /\ job[s].name # None
        BY <2>1, <2>2, AccAssumption DEF NoPassport
      <3>2. id \in KnownPassports'
        BY <2>1, <3>1 DEF KnownPassports, NoPassport
      <3> QED BY <1>0, <2>2, <3>2 DEF InvAccount
    <2>3. UNCHANGED account \/ (account' = [account EXCEPT ![job[s].client] = id]
                /\ passport' = [passport EXCEPT ![id] = [NoPassport EXCEPT !.name = job[s].name]])
      <3> HIDE DEF id
      <3> QED BY <1>5 DEF InsertPassport, id
    <2> QED BY <1>1, <2>2, <2>3
  <1>6. ASSUME AccNext, ~(\E t \in LoginServers : ServerCrash(t) \/ InsertPassport(t)), ~(\E c \in Clients : Disconnect(c)),
               ~(\E t \in LoginServers, c \in Clients, n \in Names : Serves(t, c) /\ LogIn(c, n))
        PROVE UNCHANGED account
    BY <1>6, NextCases DEF Start, Connect, NewPassport, ChooseServer, InsertRole, Enter, CreateLoginToken, sessVars
  <1>7. CASE UNCHANGED accVars
    BY <1>1, <1>7 DEF accVars, sessVars
  <1> QED BY <1>1, <1>2, <1>3, <1>4, <1>5, <1>6, <1>7, Zenon
(* A row that is entered is a role.                                          *)
LEMMA EnteredRole ==
  ASSUME AccTypeOK, InvJob, InvEntered, NEW s \in LoginServers, pc[s] \in {"enter", "token"}
  PROVE  /\ job[s].role \in KnownRoles
         /\ role[job[s].role] = [passport |-> account[job[s].client], origin |-> job[s].origin]
  <1>1. /\ job[s].role \in RoleIds /\ account[job[s].client] \in PassportIds
        /\ role[job[s].role] = [passport |-> account[job[s].client], origin |-> job[s].origin]
    BY DEF InvJob, InvEntered, Steps, KnownPassports
  <1>2. role[job[s].role] # NoRole
    BY <1>1, NoneAssumption DEF NoRole
  <1> QED BY <1>1, <1>2 DEF KnownRoles

(* The role of a handler that enters stays that of its player.               *)
LEMMA EnteredStep ==
  ASSUME AccTypeOK, InvJob, InvEntered, [AccNext]_accVars
  PROVE  InvEntered'
  <1> USE DEF AccTypeOK
  <1> SUFFICES ASSUME NEW s \in LoginServers, pc'[s] \in {"enter", "token"}
      PROVE  role'[job'[s].role] = [passport |-> account'[job'[s].client], origin |-> job'[s].origin]
    BY DEF InvEntered
  <1> DEFINE Goal ==
        role'[job'[s].role] = [passport |-> account'[job'[s].client], origin |-> job'[s].origin]
  <1>1. ASSUME pc[s] \in {"enter", "token"}, job'[s] = job[s] PROVE Goal
    <2>1. account'[job[s].client] = account[job[s].client]
      BY <1>1, SessionStep DEF Steps
    <2>2. role'[job[s].role] = role[job[s].role]
      BY <1>1, EnteredRole, RoleStep
    <2> QED BY <1>1, <2>1, <2>2, EnteredRole
  <1>2. ASSUME pc'[s] = pc[s] /\ job'[s] = job[s] /\ passInc'[s] = passInc[s] /\ ready'[s] = ready[s]
        PROVE  Goal
    BY <1>1, <1>2
  <1>3. ASSUME Start(s) \/ ServerCrash(s) PROVE Goal
    BY <1>3 DEF Start, ServerCrash
  <1>4. ASSUME Handler(s) PROVE Goal
    <2>1. CASE InsertPassport(s)
      BY <2>1 DEF InsertPassport
    <2>2. CASE InsertRole(s)
      <3> DEFINE r == job[s].role
                 e == [passport |-> account[job[s].client], origin |-> job[s].origin]
      <3>1. r \in RoleIds
        BY <2>2 DEF InvJob, InsertRole, Steps
      <3>2. role' = [role EXCEPT ![r] = e] /\ UNCHANGED <<job, account>>
        BY <2>2 DEF InsertRole, AfterInsert, Finish, sessVars
      <3> HIDE DEF e
      <3>3. role'[r] = e
        BY <3>1, <3>2
      <3> QED BY <3>2, <3>3 DEF e
    <2>3. CASE Enter(s)
      <3>1. pc[s] = "enter" /\ UNCHANGED job
        BY <2>3 DEF Enter, Finish
      <3> QED BY <1>1, <3>1
    <2>4. CASE CreateLoginToken(s)
      BY <2>4 DEF CreateLoginToken, Finish
    <2> QED BY <1>4, <2>1, <2>2, <2>3, <2>4 DEF Handler
  <1>5. ASSUME NEW c \in Clients, NEW n \in Names, Serves(s, c), NewPassport(s, c, n) PROVE Goal
    BY <1>5 DEF NewPassport
  <1>6. ASSUME NEW c \in Clients, NEW o \in Origins, ChooseServer(s, c, o) PROVE Goal
    <2>1. PICK r \in FindRole(account[c], o) :
            job' = [job EXCEPT ![s] = [NoJob EXCEPT !.client = c, !.origin = o, !.role = r]]
      BY <1>6 DEF ChooseServer
    <2>2. job'[s].client = c /\ job'[s].origin = o /\ job'[s].role = r
      BY <2>1 DEF NoJob
    <2>3. UNCHANGED <<role, account>>
      BY <1>6 DEF ChooseServer, nameVars, sessVars
    <2> QED BY <2>1, <2>2, <2>3 DEF FindRole
  <1> HIDE DEF Goal
  <1>7. Goal
    BY <1>2, <1>3, <1>4, <1>5, <1>6, ServerStep, Zenon
  <1> QED BY <1>7 DEF Goal

(* The counter of a server that was initialized keeps up with its passports. *)
LEMMA CountStep ==
  ASSUME Narrow, AccTypeOK, InvJob, InvCount, [AccNext]_accVars
  PROVE  InvCount'
  <1> USE DEF AccTypeOK
  <1> SUFFICES ASSUME NEW s \in LoginServers, ready'[s], NEW p \in KnownPassports', p.srv = s
      PROVE  p.inc <= passInc'[s]
    BY DEF InvCount
  <1>1. CASE p \notin KnownPassports
    <2>1. PICK t \in LoginServers : InsertPassport(t) /\ p = PassportId(passInc[t] + 1, t)
      BY <1>1, PassportStep
    <2>2. t \in 0 .. 7 /\ passInc[t] + 1 \in Nat
      BY DEF Narrow
    <2>3. p = [inc |-> passInc[t] + 1, srv |-> t]
      BY <2>1, <2>2, IdFields
    <2>4. t = s /\ p.inc = passInc[s] + 1
      BY <2>3
    <2>5. passInc'[s] = passInc[s] + 1
      BY <2>1, <2>4 DEF InsertPassport
    <2> QED BY <2>2, <2>4, <2>5
  <1>2. CASE p \in KnownPassports
    <2> DEFINE Goal == p.inc <= passInc'[s]
    <2>0. p.inc \in Nat
      BY <1>2, PassportFields, AccAssumption DEF KnownPassports
    <2>1. ASSUME passInc'[s] = passInc[s] /\ ready'[s] = ready[s] PROVE Goal
      BY <1>2, <2>1 DEF InvCount
    <2>2. ASSUME pc'[s] = pc[s] /\ job'[s] = job[s] /\ passInc'[s] = passInc[s] /\ ready'[s] = ready[s]
          PROVE  Goal
      BY <2>1, <2>2
    <2>3. ASSUME Start(s) PROVE Goal
      <3>1. passInc' = [passInc EXCEPT ![s] = RecoveredPassport]
        BY <2>3 DEF Start
      <3>2. passInc'[s] = RecoveredPassport
        BY <3>1
      <3> QED BY <1>2, <3>2, Recovered
    <2>4. ASSUME ServerCrash(s) PROVE Goal
      BY <2>4 DEF ServerCrash
    <2>5. ASSUME Handler(s) PROVE Goal
      <3>1. CASE InsertPassport(s)
        <4>1. passInc'[s] = passInc[s] + 1 /\ ready'[s] = ready[s] /\ passInc[s] \in Nat
          BY <3>1 DEF InsertPassport
        <4>2. p.inc <= passInc[s]
          BY <1>2, <4>1 DEF InvCount
        <4> QED BY <2>0, <4>1, <4>2
      <3>2. CASE InsertRole(s) \/ Enter(s) \/ CreateLoginToken(s)
        BY <2>1, <3>2 DEF InsertRole, Enter, CreateLoginToken
      <3> QED BY <2>5, <3>1, <3>2 DEF Handler
    <2>6. ASSUME NEW c \in Clients, NEW n \in Names, Serves(s, c), NewPassport(s, c, n) PROVE Goal
      BY <2>1, <2>6 DEF NewPassport
    <2>7. ASSUME NEW c \in Clients, NEW o \in Origins, ChooseServer(s, c, o) PROVE Goal
      BY <2>1, <2>7 DEF ChooseServer
    <2> HIDE DEF Goal
    <2>8. Goal
      BY <2>2, <2>3, <2>4, <2>5, <2>6, <2>7, ServerStep, Zenon
    <2> QED BY <2>8 DEF Goal
  <1> QED BY <1>1, <1>2

(* No passport gets a last login server or a login token without a role.     *)
LEMMA EntranceStep ==
  ASSUME AccTypeOK, InvJob, InvEntered, EntranceHasRole, [AccNext]_accVars
  PROVE  EntranceHasRole'
  <1> USE DEF AccTypeOK
  <1> SUFFICES ASSUME NEW p \in KnownPassports'
      PROVE  /\ passport'[p].last # None =>
                  \E r \in KnownRoles' : role'[r] = [passport |-> p, origin |-> passport'[p].last]
             /\ passport'[p].token => \E r \in KnownRoles' : role'[r].passport = p
    BY DEF EntranceHasRole, FindRole
  <1> DEFINE Goal == /\ passport'[p].last # None =>
                          \E r \in KnownRoles' : role'[r] = [passport |-> p, origin |-> passport'[p].last]
                     /\ passport'[p].token => \E r \in KnownRoles' : role'[r].passport = p
  <1>1. /\ p \in KnownPassports /\ passport[p].last # None =>
             \E r \in KnownRoles' : role'[r] = [passport |-> p, origin |-> passport[p].last]
        /\ p \in KnownPassports /\ passport[p].token => \E r \in KnownRoles' : role'[r].passport = p
    BY RoleStep DEF EntranceHasRole, FindRole
  <1>2. ASSUME p \in KnownPassports, passport'[p] = passport[p] PROVE Goal
    BY <1>1, <1>2
  <1>3. ASSUME UNCHANGED passport PROVE Goal
    <2>1. p \in KnownPassports
      BY <1>3 DEF KnownPassports
    <2> QED BY <1>2, <1>3, <2>1
  <1>4. ASSUME NEW s \in LoginServers, InsertPassport(s) PROVE Goal
    <2> DEFINE id == PassportId(passInc[s] + 1, s)
    <2>1. id \in PassportIds
      BY <1>4 DEF InvJob, InsertPassport
    <2>2. ASSUME passport' = [passport EXCEPT ![id] = [NoPassport EXCEPT !.name = job[s].name]] PROVE Goal
      <3> HIDE DEF id
      <3>1. CASE p = id
        <4>1. passport'[p].last = None /\ passport'[p].token = FALSE
          BY <2>1, <2>2, <3>1 DEF NoPassport
        <4> QED BY <4>1
      <3>2. CASE p # id
        <4>1. p \in KnownPassports /\ passport'[p] = passport[p]
          BY <2>2, <3>2 DEF KnownPassports
        <4> QED BY <1>2, <4>1
      <3> QED BY <3>1, <3>2
    <2> QED BY <1>3, <1>4, <2>2 DEF InsertPassport
  <1>5. ASSUME NEW s \in LoginServers, pc[s] \in {"enter", "token"}, p # account[job[s].client],
               NEW e, passport' = [passport EXCEPT ![account[job[s].client]] = e]
        PROVE  Goal
    <2>1. p \in PassportIds /\ passport'[p] = passport[p]
      BY <1>5 DEF KnownPassports
    <2>2. p \in KnownPassports
      BY <2>1 DEF KnownPassports
    <2> QED BY <1>2, <2>1, <2>2
  <1>6. ASSUME NEW s \in LoginServers, pc[s] \in {"enter", "token"}, p = account[job[s].client]
        PROVE  /\ job[s].role \in KnownRoles' /\ role'[job[s].role] = [passport |-> p, origin |-> job[s].origin]
               /\ p \in KnownPassports /\ passport[p] \in PassportRows
    BY <1>6, EnteredRole, RoleStep DEF InvJob, Steps, KnownPassports
  <1>7. ASSUME NEW s \in LoginServers, Enter(s) PROVE Goal
    <2> DEFINE q == account[job[s].client]
    <2>0. pc[s] \in {"enter", "token"}
      BY <1>7 DEF Enter
    <2>1. UNCHANGED passport \/ passport' = [passport EXCEPT ![q] = [@ EXCEPT !.last = job[s].origin]]
      BY <1>7 DEF Enter
    <2>2. CASE passport' = [passport EXCEPT ![q] = [@ EXCEPT !.last = job[s].origin]] /\ p = q
      <3>1. passport'[p] = [passport[p] EXCEPT !.last = job[s].origin]
        BY <1>6, <2>0, <2>2 DEF KnownPassports
      <3>2. passport'[p].last = job[s].origin /\ passport'[p].token = passport[p].token
        <4>1. passport[p] \in PassportRows
          BY <1>6, <2>0, <2>2
        <4> HIDE DEF AccTypeOK
        <4> QED BY <4>1, <3>1 DEF PassportRows
      <3>3. p \in KnownPassports /\ \E r \in KnownRoles' : role'[r] = [passport |-> p, origin |-> passport'[p].last]
        BY <1>6, <2>0, <2>2, <3>2
      <3>4. passport'[p].token => \E r \in KnownRoles' : role'[r].passport = p
        <4>1. passport[p].token => \E r \in KnownRoles' : role'[r].passport = p
          BY <1>1, <3>3, Zenon
        <4> QED BY <4>1, <3>2, Zenon
      <3> QED BY <3>3, <3>4, Zenon
    <2>3. CASE passport' = [passport EXCEPT ![q] = [@ EXCEPT !.last = job[s].origin]] /\ p # q
      <3> DEFINE e == [passport[q] EXCEPT !.last = job[s].origin]
      <3>1. passport' = [passport EXCEPT ![q] = e]
        BY <2>3
      <3> HIDE DEF Goal, e
      <3> QED BY <1>5, <2>0, <2>3, <3>1
    <2> QED BY <1>3, <2>1, <2>2, <2>3
  <1>8. ASSUME NEW s \in LoginServers, CreateLoginToken(s) PROVE Goal
    <2> DEFINE q == account[job[s].client]
    <2>0. pc[s] \in {"enter", "token"}
      BY <1>8 DEF CreateLoginToken
    <2>1. UNCHANGED passport \/ passport' = [passport EXCEPT ![q] = [@ EXCEPT !.token = TRUE]]
      BY <1>8 DEF CreateLoginToken
    <2>2. CASE passport' = [passport EXCEPT ![q] = [@ EXCEPT !.token = TRUE]] /\ p = q
      <3>1. passport'[p] = [passport[p] EXCEPT !.token = TRUE]
        BY <1>6, <2>0, <2>2 DEF KnownPassports
      <3>2. passport'[p].last = passport[p].last
        <4>1. passport[p] \in PassportRows
          BY <1>6, <2>0, <2>2
        <4> HIDE DEF AccTypeOK
        <4> QED BY <4>1, <3>1 DEF PassportRows
      <3>3. \E r \in KnownRoles' : role'[r].passport = p
        <4>1. job[s].role \in KnownRoles' /\ role'[job[s].role] = [passport |-> p, origin |-> job[s].origin]
          BY <1>6, <2>0, <2>2
        <4>2. role'[job[s].role].passport = p
          BY <4>1
        <4> QED BY <4>1, <4>2, Zenon
      <3>4. p \in KnownPassports
        BY <1>6, <2>0, <2>2
      <3>5. passport[p].last # None =>
              \E r \in KnownRoles' : role'[r] = [passport |-> p, origin |-> passport[p].last]
        BY <1>1, <3>4, Zenon
      <3>6. passport'[p].last # None =>
              \E r \in KnownRoles' : role'[r] = [passport |-> p, origin |-> passport'[p].last]
        BY <3>2, <3>5, Zenon
      <3> QED BY <3>3, <3>6, Zenon
    <2>3. CASE passport' = [passport EXCEPT ![q] = [@ EXCEPT !.token = TRUE]] /\ p # q
      <3> DEFINE e == [passport[q] EXCEPT !.token = TRUE]
      <3>1. passport' = [passport EXCEPT ![q] = e]
        BY <2>3
      <3> HIDE DEF Goal, e
      <3> QED BY <1>5, <2>0, <2>3, <3>1
    <2> QED BY <1>3, <2>1, <2>2, <2>3
  <1>9. ASSUME ~UNCHANGED passport PROVE \E s \in LoginServers : InsertPassport(s) \/ Enter(s) \/ CreateLoginToken(s)
    <2>1. AccNext
      BY <1>9 DEF accVars, nameVars
    <2> QED BY <2>1, <1>9, NextCases DEF Start, ServerCrash, Disconnect, Connect, NewPassport, LogIn,
              ChooseServer, InsertRole, nameVars
  <1> HIDE DEF Goal
  <1>10. Goal
    BY <1>3, <1>4, <1>7, <1>8, <1>9, Zenon
  <1> QED BY <1>10 DEF Goal

-----------------------------------------------------------------------------
(* The invariant is inductive: each part is kept by every step, with the help *)
(* of the others.                                                            *)
LEMMA Inductive ==
  ASSUME Narrow
  PROVE  AccSpec => []IInv
  <1>1. AccInit => IInv
    BY InitInv
  <1>2. ASSUME IInv, [AccNext]_accVars PROVE IInv'
    <2>1. AccTypeOK /\ InvJob /\ InvAccount /\ InvEntered /\ InvCount /\ EntranceHasRole
      BY <1>2, Zenon DEF IInv
    <2>2. AccTypeOK'
      BY <1>2, <2>1, TypeStep
    <2>3. InvJob'
      BY <1>2, <2>1, JobStep
    <2>4. InvAccount'
      BY <1>2, <2>1, AccountStep
    <2>5. InvEntered'
      BY <1>2, <2>1, EnteredStep
    <2>6. InvCount'
      BY <1>2, <2>1, CountStep
    <2>7. EntranceHasRole'
      BY <1>2, <2>1, EntranceStep
    <2> QED BY <2>2, <2>3, <2>4, <2>5, <2>6, <2>7, Zenon DEF IInv
  <1> QED BY <1>1, <1>2, PTL DEF AccSpec

(* Every variable of the account functions keeps its type, with any number of *)
(* login servers, crashes and failed statements.                             *)
THEOREM AccTypeCorrect ==
  ASSUME Narrow
  PROVE  AccSpec => []AccTypeOK
  <1>1. IInv => AccTypeOK
    BY DEF IInv
  <1> QED BY <1>1, Inductive, PTL

(* NextPassportId of a server that was initialized yields an id that is free, *)
(* however many servers insert, crash and start again.                       *)
THEOREM FreshPassports ==
  ASSUME Narrow
  PROVE  AccSpec => []FreshPassport
  <1>1. ASSUME IInv PROVE FreshPassport
    <2> SUFFICES ASSUME NEW s \in LoginServers, ready[s], PassportId(passInc[s] + 1, s) \in KnownPassports
        PROVE  FALSE
      BY DEF FreshPassport
    <2>1. s \in 0 .. 7 /\ passInc[s] \in Nat /\ passInc[s] + 1 \in Nat
      BY <1>1 DEF Narrow, IInv, AccTypeOK
    <2>2. PassportId(passInc[s] + 1, s) = [inc |-> passInc[s] + 1, srv |-> s]
      BY <2>1, IdFields
    <2>3. passInc[s] + 1 <= passInc[s]
      BY <1>1, <2>2 DEF IInv, InvCount
    <2> QED BY <2>1, <2>3
  <1> QED BY <1>1, Inductive, PTL

(* A last login server or a login token is only ever stored for a passport    *)
(* that has a role: the handlers stop when GetOrInsertRoleId has failed.     *)
THEOREM EntranceSafe ==
  ASSUME Narrow
  PROVE  AccSpec => []EntranceHasRole
  <1>1. IInv => EntranceHasRole
    BY DEF IInv
  <1> QED BY <1>1, Inductive, PTL

-----------------------------------------------------------------------------
(* Until a lookup fails.                                                     *)

(* A failed lookup is not forgotten.                                         *)
LEMMA BlindStep ==
  ASSUME [AccNext]_accVars, blind
  PROVE  blind'
  <1>1. CASE UNCHANGED accVars
    BY <1>1 DEF accVars, failVars
  <1>2. CASE AccNext
    BY <1>2, NextCases DEF Start, ServerCrash, Disconnect, Connect, NewPassport, LogIn, ChooseServer,
         InsertPassport, InsertRole, Enter, CreateLoginToken, CountLoss, NoResult, failVars
  <1> QED BY <1>1, <1>2

(* A row that is new in passport_info was inserted by the server in its id.  *)
LEMMA NewPassportRow ==
  ASSUME Narrow, AccTypeOK, InvJob, [AccNext]_accVars, NEW p \in KnownPassports', p \notin KnownPassports
  PROVE  /\ p.srv \in LoginServers /\ InsertPassport(p.srv) /\ p = PassportId(passInc[p.srv] + 1, p.srv)
         /\ passport'[p].name = job[p.srv].name
  <1>1. PICK t \in LoginServers : /\ InsertPassport(t) /\ p = PassportId(passInc[t] + 1, t)
                             /\ passport'[p].name = job[t].name
    BY PassportStep
  <1>2. t \in 0 .. 7 /\ passInc[t] + 1 \in Nat
    BY DEF Narrow, AccTypeOK
  <1>3. PassportId(passInc[t] + 1, t) = [inc |-> passInc[t] + 1, srv |-> t]
    BY <1>2, IdFields
  <1>4. p.srv = t
    BY <1>1, <1>3
  <1> QED BY <1>1, <1>4

(* The same of re_passport_player.                                           *)
LEMMA NewRoleRow ==
  ASSUME AccTypeOK, InvJob, InvLookup, [AccNext]_accVars, NEW r \in KnownRoles', r \notin KnownRoles
  PROVE  \E s \in LoginServers :
           /\ InsertRole(s) /\ r = job[s].role /\ (r \div 2) % 8 = s
           /\ role'[r] = [passport |-> account[job[s].client], origin |-> job[s].origin]
  <1>1. PICK s \in LoginServers :
           /\ InsertRole(s) /\ r = job[s].role
           /\ role'[r] = [passport |-> account[job[s].client], origin |-> job[s].origin]
    BY RoleStep
  <1>2. (r \div 2) % 8 = s
    BY <1>1 DEF InvLookup, InsertRole
  <1> QED BY <1>1, <1>2

(* What a lookup has not found is not inserted by the same server until the  *)
(* handler inserts it.                                                       *)
LEMMA LookupStep ==
  ASSUME Narrow, AccTypeOK, InvJob, InvLookup, [AccNext]_accVars, ~blind'
  PROVE  InvLookup'
  <1> USE DEF AccTypeOK
  <1>1. ASSUME NEW s \in LoginServers, pc'[s] = "passport", NEW p \in KnownPassports', p.srv = s,
               passport'[p].name = job'[s].name
        PROVE  job'[s].name \in Anonymous
    <2> DEFINE Goal == job'[s].name \in Anonymous
    <2>1. p \in KnownPassports /\ passport'[p].name = passport[p].name
      <3>1. CASE p \notin KnownPassports
        <4>1. InsertPassport(s)
          BY <1>1, <3>1, NewPassportRow
        <4> QED BY <1>1, <4>1 DEF InsertPassport
      <3> QED BY <3>1, PassportStep
    <2>2. ASSUME pc'[s] = pc[s] /\ job'[s] = job[s] /\ passInc'[s] = passInc[s] /\ ready'[s] = ready[s]
          PROVE  Goal
      BY <1>1, <2>1, <2>2 DEF InvLookup
    <2>3. ASSUME Start(s) \/ ServerCrash(s) PROVE Goal
      BY <1>1, <2>3 DEF Start, ServerCrash
    <2>4. ASSUME Handler(s) PROVE Goal
      BY <1>1, <2>4 DEF Handler, InsertPassport, InsertRole, AfterInsert, Finish, Enter, CreateLoginToken
    <2>5. ASSUME NEW c \in Clients, NEW n \in Names, Serves(s, c), NewPassport(s, c, n) PROVE Goal
      <3>1. FindPassport(n) = {} /\ job'[s].name = n
        BY <2>5 DEF NewPassport, NoResult, LookupFails, NoJob
      <3> QED BY <1>1, <2>1, <3>1 DEF FindPassport
    <2>6. ASSUME NEW c \in Clients, NEW o \in Origins, ChooseServer(s, c, o) PROVE Goal
      BY <1>1, <2>6 DEF ChooseServer
    <2> HIDE DEF Goal
    <2>7. Goal
      BY <2>2, <2>3, <2>4, <2>5, <2>6, ServerStep, Zenon
    <2> QED BY <2>7 DEF Goal
  <1>2. ASSUME NEW s \in LoginServers, pc'[s] = "role"
        PROVE  /\ (job'[s].role \div 2) % 8 = s
               /\ \A r \in KnownRoles' : (r \div 2) % 8 = s =>
                    role'[r] # [passport |-> account'[job'[s].client], origin |-> job'[s].origin]
    <2> DEFINE Goal == /\ (job'[s].role \div 2) % 8 = s
                       /\ \A r \in KnownRoles' : (r \div 2) % 8 = s =>
                            role'[r] # [passport |-> account'[job'[s].client], origin |-> job'[s].origin]
    <2>1. ASSUME NEW r \in KnownRoles', (r \div 2) % 8 = s PROVE r \in KnownRoles /\ role'[r] = role[r]
      <3>1. CASE r \notin KnownRoles
        <4>1. PICK t \in LoginServers : InsertRole(t) /\ (r \div 2) % 8 = t
          BY <3>1, NewRoleRow
        <4>2. InsertRole(s)
          BY <2>1, <4>1
        <4> QED BY <1>2, <4>2 DEF InsertRole, AfterInsert, Finish
      <3> QED BY <3>1, RoleStep
    <2>2. ASSUME pc'[s] = pc[s] /\ job'[s] = job[s] /\ passInc'[s] = passInc[s] /\ ready'[s] = ready[s]
          PROVE  Goal
      <3>1. account'[job[s].client] = account[job[s].client]
        BY <1>2, <2>2, SessionStep DEF Steps
      <3> QED BY <1>2, <2>1, <2>2, <3>1 DEF InvLookup
    <2>3. ASSUME Start(s) \/ ServerCrash(s) PROVE Goal
      BY <1>2, <2>3 DEF Start, ServerCrash
    <2>4. ASSUME Handler(s) PROVE Goal
      BY <1>2, <2>4 DEF Handler, InsertPassport, InsertRole, AfterInsert, Finish, Enter, CreateLoginToken
    <2>5. ASSUME NEW c \in Clients, NEW n \in Names, Serves(s, c), NewPassport(s, c, n) PROVE Goal
      BY <1>2, <2>5 DEF NewPassport
    <2>6. ASSUME NEW c \in Clients, NEW o \in Origins, ChooseServer(s, c, o) PROVE Goal
      <3>1. /\ NoResult(FindRole(account[c], o))
            /\ job' = [job EXCEPT ![s] = [NoJob EXCEPT !.client = c, !.origin = o,
                                                       !.role = RoleId(NextRoleInc(s), s)]]
            /\ UNCHANGED account
        BY <1>2, <2>6 DEF ChooseServer, sessVars
      <3>2. FindRole(account[c], o) = {}
        BY <3>1 DEF NoResult, LookupFails
      <3>3. job'[s].client = c /\ job'[s].origin = o /\ job'[s].role = RoleId(NextRoleInc(s), s)
        BY <3>1 DEF NoJob
      <3>4. s \in 0 .. 7 /\ NextRoleInc(s) \in Nat
        BY DEF Narrow, NextRoleInc
      <3>5. (RoleId(NextRoleInc(s), s) \div 2) % 8 = s
        BY <3>4, IdFields
      <3> QED BY <2>1, <3>1, <3>2, <3>3, <3>5 DEF FindRole
    <2> HIDE DEF Goal
    <2>7. Goal
      BY <2>2, <2>3, <2>4, <2>5, <2>6, ServerStep, Zenon
    <2> QED BY <2>7 DEF Goal
  <1> QED BY <1>1, <1>2 DEF InvLookup

(* No server adds a row of its own that repeats another one of its own.      *)
LEMMA OneStep ==
  ASSUME Narrow, AccTypeOK, InvJob, InvLookup, NoDuplicates, [AccNext]_accVars
  PROVE  NoDuplicates'
  <1>1. ASSUME NEW p \in KnownPassports', NEW q \in KnownPassports', p.srv = q.srv, p # q,
               passport'[p].name = passport'[q].name
        PROVE  passport'[p].name \in Anonymous
    <2>1. ASSUME NEW x \in KnownPassports', NEW y \in KnownPassports, x \notin KnownPassports, x.srv = y.srv,
                 passport'[x].name = passport'[y].name
          PROVE  passport'[x].name \in Anonymous
      <3>1. /\ x.srv \in LoginServers /\ pc[x.srv] = "passport" /\ passport'[x].name = job[x.srv].name
        BY <2>1, NewPassportRow DEF InsertPassport
      <3>2. passport[y].name = job[x.srv].name
        BY <2>1, <3>1, PassportStep
      <3> QED BY <2>1, <3>1, <3>2 DEF InvLookup
    <2>2. CASE p \in KnownPassports /\ q \in KnownPassports
      BY <1>1, <2>2, PassportStep DEF NoDuplicates
    <2>3. CASE p \notin KnownPassports /\ q \notin KnownPassports
      BY <1>1, <2>3, NewPassportRow
    <2> QED BY <1>1, <2>1, <2>2, <2>3
  <1>2. ASSUME NEW r \in KnownRoles', NEW t \in KnownRoles', role'[r] = role'[t],
               (r \div 2) % 8 = (t \div 2) % 8
        PROVE  r = t
    <2>1. ASSUME NEW x \in KnownRoles', NEW y \in KnownRoles, x \notin KnownRoles, role'[x] = role'[y],
                 (x \div 2) % 8 = (y \div 2) % 8
          PROVE  FALSE
      <3>1. PICK s \in LoginServers :
           /\ InsertRole(s) /\ (x \div 2) % 8 = s
           /\ role'[x] = [passport |-> account[job[s].client], origin |-> job[s].origin]
        BY <2>1, NewRoleRow
      <3>2. role[y] = [passport |-> account[job[s].client], origin |-> job[s].origin]
        BY <2>1, <3>1, RoleStep
      <3> QED BY <2>1, <3>1, <3>2 DEF InvLookup, InsertRole
    <2>2. CASE r \in KnownRoles /\ t \in KnownRoles
      BY <1>2, <2>2, RoleStep DEF NoDuplicates
    <2>3. CASE r \notin KnownRoles /\ t \notin KnownRoles
      <3>1. PICK s \in LoginServers : r = job[s].role /\ (r \div 2) % 8 = s
        BY <2>3, NewRoleRow
      <3>2. PICK u \in LoginServers : t = job[u].role /\ (t \div 2) % 8 = u
        BY <2>3, NewRoleRow
      <3> QED BY <1>2, <3>1, <3>2
    <2> QED BY <1>2, <2>1, <2>2, <2>3
  <1> QED BY <1>1, <1>2 DEF NoDuplicates

(* The invariant with the lookups holds up to the first one that fails.      *)
LEMMA LookupInductive ==
  ASSUME Narrow
  PROVE  AccSpec => [](blind \/ (InvLookup /\ NoDuplicates))
  <1>1. AccInit => blind \/ (InvLookup /\ NoDuplicates)
    BY InitInv
  <1>2. ASSUME IInv, blind \/ (InvLookup /\ NoDuplicates), [AccNext]_accVars
        PROVE  (blind \/ (InvLookup /\ NoDuplicates))'
    <2>1. AccTypeOK /\ InvJob
      BY <1>2, Zenon DEF IInv
    <2>2. CASE blind'
      BY <2>2
    <2>3. CASE ~blind'
      <3>1. InvLookup /\ NoDuplicates
        BY <1>2, <2>3, BlindStep
      <3> QED BY <1>2, <2>1, <2>3, <3>1, LookupStep, OneStep
    <2> QED BY <2>2, <2>3
  <1> QED BY <1>1, <1>2, Inductive, PTL DEF AccSpec

(* Two passports of one name, or two roles of one passport on one game server, *)
(* come from different login servers: crashes and lost answers do not part    *)
(* the lookup from the insert.                                               *)
THEOREM OnePerServer ==
  ASSUME Narrow
  PROVE  AccSpec => []OnePerLoginServer
  <1>1. blind \/ (InvLookup /\ NoDuplicates) => OnePerLoginServer
    BY DEF OnePerLoginServer
  <1> QED BY <1>1, LookupInductive, PTL

-----------------------------------------------------------------------------
(* Each server implements the directory.  First, it starts like one.         *)
LEMMA DirectoryInit ==
  ASSUME AccInit, NEW s \in LoginServers
  PROVE  D(s)!Init
  <1>1. KnownPassports = {} /\ KnownRoles = {}
    BY DEF AccInit, KnownPassports, KnownRoles
  <1> QED BY <1>1 DEF D!Init, FindPassport

(* Each step is a step of the directory of the server that takes it, and a   *)
(* stutter for every other one.                                              *)
LEMMA DirectoryStep ==
  ASSUME Narrow, AccTypeOK, InvJob, InvLookup, [AccNext]_accVars, NEW s \in LoginServers
  PROVE  [D(s)!Next]_(D(s)!vars)
  <1> DEFINE Ids(n) == {p \in FindPassport(n) : p.srv = s % 8}
             Mine == {r \in KnownRoles : (r \div 2) % 8 = s % 8}
             Triples == {<<role[r].passport, role[r].origin, r>> : r \in Mine}
             PO == [n \in AccountNames \cup TokenNames |-> Ids(n)]
  <1>0. s % 8 = s /\ s \in 0 .. 7
    BY DEF Narrow
  <1>1. \A p \in KnownPassports : p \in KnownPassports' /\ passport'[p].name = passport[p].name
    BY PassportStep
  <1>2. \A r \in KnownRoles : r \in KnownRoles' /\ role'[r] = role[r]
    BY RoleStep
  <1>3. ASSUME \A p \in KnownPassports' : p.srv = s => p \in KnownPassports
        PROVE  PO' = PO
    <2>1. ASSUME NEW n \in AccountNames \cup TokenNames PROVE Ids(n)' = Ids(n)
      BY <1>0, <1>1, <1>3 DEF FindPassport
    <2> HIDE DEF Ids
    <2> QED BY <2>1
  <1>4. ASSUME \A r \in KnownRoles' : (r \div 2) % 8 = s => r \in KnownRoles
        PROVE  Triples' = Triples
    <2>1. Mine' = Mine
      BY <1>0, <1>2, <1>4
    <2>2. \A r \in Mine : role'[r] = role[r]
      BY <1>2
    <2> HIDE DEF Mine
    <2> QED BY <2>1, <2>2
  <1>5. CASE \E p \in KnownPassports' : p.srv = s /\ p \notin KnownPassports
    <2>1. PICK p \in KnownPassports' : p.srv = s /\ p \notin KnownPassports
      BY <1>5
    <2>0. PICK n : n = job[s].name
      OBVIOUS
    <2>2. /\ InsertPassport(s) /\ p = PassportId(passInc[s] + 1, s)
          /\ passport'[p].name = n
      BY <2>0, <2>1, NewPassportRow
    <2>3. p \in PassportIds /\ n \in Names
      BY <2>0, <2>1, <2>2 DEF KnownPassports, InvJob, InsertPassport
    <2>4. \A q \in KnownPassports' : q.srv = s => q \in KnownPassports \/ q = p
      BY <2>1, <2>2, NewPassportRow
    <2>5. Triples' = Triples
      <3>1. UNCHANGED role
        BY <2>2 DEF InsertPassport
      <3> QED BY <3>1, <1>4 DEF KnownRoles
    <2>6. CASE n \in Anonymous
      <3>1. ASSUME NEW m \in AccountNames \cup TokenNames PROVE Ids(m)' = Ids(m)
        <4>1. m # n
          BY <2>6, AccAssumption
        <4> QED BY <1>0, <1>1, <2>2, <2>4, <4>1 DEF FindPassport
      <3>2. PO' = PO
        <4> HIDE DEF Ids
        <4> QED BY <3>1
      <3> QED BY <2>5, <3>2 DEF D!vars
    <2>7. CASE n \notin Anonymous
      <3>1. n \in AccountNames \cup TokenNames
        BY <2>3, <2>7 DEF Names
      <3>2. Ids(n) = {}
        BY <1>0, <2>0, <2>2, <2>7 DEF InvLookup, FindPassport, InsertPassport
      <3>3. \A m \in AccountNames \cup TokenNames : p \notin Ids(m)
        BY <2>1 DEF FindPassport
      <3>4. Ids(n)' = {p}
        BY <1>0, <1>1, <2>1, <2>2, <2>4, <2>7, <3>2 DEF FindPassport
      <3>5. ASSUME NEW m \in AccountNames \cup TokenNames, m # n PROVE Ids(m)' = Ids(m)
        BY <1>0, <1>1, <2>2, <2>4, <3>5 DEF FindPassport
      <3>6. PO' = [PO EXCEPT ![n] = {p}]
        <4> HIDE DEF Ids
        <4> QED BY <3>1, <3>4, <3>5
      <3>7. PO[n] = {} /\ \A m \in AccountNames \cup TokenNames : p \notin PO[m]
        <4> HIDE DEF Ids
        <4> QED BY <3>1, <3>2, <3>3
      <3>8. D(s)!CreatePassport(n, p)
        BY <2>5, <3>6, <3>7 DEF D!CreatePassport
      <3> QED BY <2>3, <3>1, <3>8 DEF D!Next
    <2> QED BY <2>6, <2>7
  <1>6. CASE \A p \in KnownPassports' : p.srv = s => p \in KnownPassports
    <2>1. PO' = PO
      BY <1>3, <1>6
    <2>2. CASE \A r \in KnownRoles' : (r \div 2) % 8 = s => r \in KnownRoles
      BY <2>1, <2>2, <1>4 DEF D!vars
    <2>3. CASE \E r \in KnownRoles' : (r \div 2) % 8 = s /\ r \notin KnownRoles
      <3>1. PICK r \in KnownRoles' : (r \div 2) % 8 = s /\ r \notin KnownRoles
        BY <2>3
      <3> DEFINE p == account[job[s].client]
                 o == job[s].origin
      <3>2. InsertRole(s) /\ r = job[s].role /\ role'[r] = [passport |-> p, origin |-> o]
        BY <3>1, NewRoleRow
      <3>3. p \in PassportIds /\ o \in Origins /\ r \in RoleIds
        BY <3>1, <3>2 DEF InvJob, InsertRole, Steps, KnownPassports, KnownRoles
      <3>4. ASSUME NEW x \in KnownRoles', (x \div 2) % 8 = s, x \notin KnownRoles PROVE x = r
        <4>1. PICK u \in LoginServers : x = job[u].role /\ (x \div 2) % 8 = u
          BY <3>4, NewRoleRow
        <4> QED BY <3>2, <3>4, <4>1
      <3>5. \A x \in Mine : role[x] # [passport |-> p, origin |-> o] /\ x # r
        BY <1>0, <3>1, <3>2 DEF InvLookup, InsertRole
      <3>6. \A e \in Triples : <<e[1], e[2]>> # <<p, o>> /\ e[3] # r
        <4>1. ASSUME NEW x \in Mine PROVE <<role[x].passport, role[x].origin>> # <<p, o>>
          <5>1. role[x] \in RoleRows
            BY DEF AccTypeOK, KnownRoles
          <5>2. role[x] = [passport |-> role[x].passport, origin |-> role[x].origin]
            BY <5>1 DEF RoleRows
          <5> QED BY <3>5, <5>2
        <4> HIDE DEF Mine, p, o
        <4> QED BY <3>5, <4>1
      <3>7. Mine' = Mine \cup {r}
        BY <1>0, <1>2, <3>1, <3>4
      <3>8. Triples' = Triples \cup {<<p, o, r>>}
        <4>1. \A x \in Mine : role'[x] = role[x]
          BY <1>2
        <4> HIDE DEF Mine, p, o
        <4> QED BY <3>2, <3>7, <4>1
      <3>9. D(s)!CreateRole(p, o, r)
        BY <2>1, <3>6, <3>8 DEF D!CreateRole
      <3> QED BY <3>3, <3>9 DEF D!Next
    <2> QED BY <2>2, <2>3
  <1> QED BY <1>5, <1>6

(* Seen from one login server, looking a passport or a role up and inserting *)
(* it is a single step of a directory that gives a name one passport and a   *)
(* passport one role on each game server.                                    *)
THEOREM Directory ==
  ASSUME Narrow
  PROVE  AccSpec => ImplementsDirectory
  <1>1. AccInit => \A s \in LoginServers : D(s)!Init
    BY DirectoryInit
  <1>2. ASSUME IInv, blind \/ (InvLookup /\ NoDuplicates), [AccNext]_accVars
        PROVE  [blind' \/ \A s \in LoginServers : [D(s)!Next]_(D(s)!vars)]_accVars
    <2>1. AccTypeOK /\ InvJob
      BY <1>2, Zenon DEF IInv
    <2>2. ASSUME ~blind' PROVE \A s \in LoginServers : [D(s)!Next]_(D(s)!vars)
      <3>1. InvLookup
        BY <1>2, <2>2, BlindStep
      <3> QED BY <1>2, <2>1, <3>1, DirectoryStep
    <2> QED BY <2>2
  <1> QED BY <1>1, <1>2, Inductive, LookupInductive, PTL DEF AccSpec, ImplementsDirectory
-----------------------------------------------------------------------------
(* What players were sent.                                                   *)

\* A role that a player was sent is a row of his.
InvGiven == \A g \in given : role[g[3]] = [passport |-> g[1], origin |-> g[2]]

(* The history only grows, by the role of a handler that entered; and no row *)
(* of re_passport_player is overwritten.  This holds for any number of       *)
(* servers, and after lookups that fail.                                     *)
LEMMA GivenStep ==
  ASSUME AccTypeOK, InvJob, InvEntered, InvGiven, [AccNext]_accVars
  PROVE  InvGiven'
  <1>1. ASSUME NEW g \in given PROVE role'[g[3]] = [passport |-> g[1], origin |-> g[2]]
    <2>1. g[1] \in PassportIds /\ g[3] \in RoleIds
      BY DEF AccTypeOK
    <2>2. role[g[3]] = [passport |-> g[1], origin |-> g[2]]
      BY DEF InvGiven
    <2>3. role[g[3]] # NoRole
      BY <2>1, <2>2, NoneAssumption DEF NoRole
    <2>4. g[3] \in KnownRoles
      BY <2>1, <2>3 DEF KnownRoles
    <2> QED BY <2>2, <2>4, RoleStep
  <1>2. CASE UNCHANGED given
    BY <1>1, <1>2 DEF InvGiven
  <1>3. ASSUME NEW s \in LoginServers, CreateLoginToken(s) PROVE InvGiven'
    <2> DEFINE p == account[job[s].client]
               g == <<p, job[s].origin, job[s].role>>
    <2>1. given' = given \cup {g} /\ UNCHANGED role /\ pc[s] = "token"
      BY <1>3 DEF CreateLoginToken
    <2>2. role[job[s].role] = [passport |-> p, origin |-> job[s].origin]
      BY <2>1 DEF InvEntered
    <2>3. role'[g[3]] = [passport |-> g[1], origin |-> g[2]]
      BY <2>1, <2>2
    <2> HIDE DEF g
    <2> QED BY <1>1, <2>1, <2>3 DEF InvGiven
  <1>4. ASSUME ~UNCHANGED given PROVE \E s \in LoginServers : CreateLoginToken(s)
    <2>1. AccNext
      BY <1>4 DEF accVars, sessVars
    <2> QED BY <2>1, <1>4, NextCases DEF Start, ServerCrash, Disconnect, Connect, NewPassport, LogIn,
              ChooseServer, InsertPassport, InsertRole, Enter, sessVars
  <1> QED BY <1>2, <1>3, <1>4

(* The roles of a single login server are all of its own.                    *)
LEMMA RoleServer ==
  ASSUME Narrow, NEW r \in RoleIds
  PROVE  \E s \in LoginServers : (r \div 2) % 8 = s
  <1>1. PICK i \in RoleIncs, s \in LoginServers : r = RoleId(i, s)
    BY DEF RoleIds
  <1>2. s \in 0 .. 7 /\ i \in Nat
    BY AccAssumption DEF Narrow, RoleIncs, FirstRole
  <1> QED BY <1>1, <1>2, IdFields

(* With one login server, a player who chooses a game server again is sent   *)
(* the role he was sent before, from any session and over crashes and lost   *)
(* answers, and the role is his.                                             *)
THEOREM SameRoleForGood ==
  ASSUME Narrow, \A s, t \in LoginServers : s = t
  PROVE  AccSpec => []SameRoleAgain
  <1>1. AccInit => InvGiven
    BY DEF AccInit, InvGiven
  <1>2. IInv /\ InvGiven /\ [AccNext]_accVars => InvGiven'
    BY GivenStep DEF IInv
  <1>3. ASSUME IInv, InvGiven, blind \/ (InvLookup /\ NoDuplicates) PROVE SameRoleAgain
    <2>1. ASSUME ~blind, NEW g \in given, NEW h \in given, g[1] = h[1], g[2] = h[2] PROVE g = h
      <3>1. given \subseteq PassportIds \X Origins \X RoleIds
        BY <1>3 DEF IInv, AccTypeOK
      <3>2. /\ g = <<g[1], g[2], g[3]>> /\ g[1] \in PassportIds /\ g[3] \in RoleIds
            /\ h = <<h[1], h[2], h[3]>> /\ h[3] \in RoleIds
        BY <3>1
      <3>3. role[g[3]] = [passport |-> g[1], origin |-> g[2]] /\ role[h[3]] = role[g[3]]
        BY <1>3, <2>1 DEF InvGiven
      <3>4. role[g[3]] # NoRole
        BY <3>2, <3>3, NoneAssumption DEF NoRole
      <3>5. g[3] \in KnownRoles /\ h[3] \in KnownRoles
        BY <3>2, <3>3, <3>4 DEF KnownRoles
      <3>6. (g[3] \div 2) % 8 = (h[3] \div 2) % 8
        BY <3>2, RoleServer
      <3>7. g[3] = h[3]
        BY <1>3, <2>1, <3>3, <3>5, <3>6 DEF NoDuplicates
      <3> QED BY <2>1, <3>2, <3>7
    <2> QED BY <1>3, <2>1 DEF SameRoleAgain, InvGiven
  <1> QED BY <1>1, <1>2, <1>3, Inductive, LookupInductive, PTL DEF AccSpec

-----------------------------------------------------------------------------
(* The role counter, until a server is started again.                        *)

\* The roles that server s has made.
RolesOf(s) == {r \in KnownRoles : (r \div 2) % 8 = s}

\* The role counter of s is not behind them.
RoleAhead(s) == \A r \in RolesOf(s) : r \div 16 <= roleInc[s]

\* GetOrInsertRoleId inserts the last id that NextRoleId has yielded.
InvRoleJob ==
  \A s \in LoginServers : pc[s] = "role" => job[s].role = RoleId(roleInc[s], s)

RolesAhead == \A s \in LoginServers : RoleAhead(s)

\* A server is started only as long as it has made no role.
FirstStart == \A s \in LoginServers : Start(s) => RolesOf(s) = {}

(* A handler keeps the id it has taken: only it moves the counter.           *)
LEMMA RoleJobStep ==
  ASSUME AccTypeOK, InvRoleJob, [AccNext]_accVars
  PROVE  InvRoleJob'
  <1> SUFFICES ASSUME NEW u \in LoginServers, pc'[u] = "role"
               PROVE  job'[u].role = RoleId(roleInc'[u], u)
    BY DEF InvRoleJob
  <1> USE DEF AccTypeOK
  <1>1. CASE pc'[u] = pc[u] /\ job'[u] = job[u] /\ roleInc'[u] = roleInc[u]
    BY <1>1 DEF InvRoleJob
  <1>2. ASSUME NEW s \in LoginServers, Start(s) \/ ServerCrash(s) PROVE job'[u].role = RoleId(roleInc'[u], u)
    <2>1. s # u
      BY <1>2 DEF Start, ServerCrash
    <2> QED BY <1>1, <1>2, <2>1 DEF Start, ServerCrash
  <1>3. ASSUME NEW s \in LoginServers, InsertPassport(s) \/ Enter(s) \/ CreateLoginToken(s)
        PROVE  job'[u].role = RoleId(roleInc'[u], u)
    <2>1. s # u
      BY <1>3 DEF InsertPassport, Enter, CreateLoginToken, Finish
    <2> QED BY <1>1, <1>3, <2>1 DEF InsertPassport, Enter, CreateLoginToken, Finish
  <1>4. ASSUME NEW s \in LoginServers, InsertRole(s) PROVE job'[u].role = RoleId(roleInc'[u], u)
    <2>1. s # u
      BY <1>4 DEF InsertRole, AfterInsert, Finish
    <2> QED BY <1>1, <1>4, <2>1 DEF InsertRole, AfterInsert, Finish
  <1>5. ASSUME NEW s \in LoginServers, NEW c \in Clients, NEW n \in Names, NewPassport(s, c, n)
        PROVE  job'[u].role = RoleId(roleInc'[u], u)
    <2>1. s # u
      BY <1>5 DEF NewPassport
    <2> QED BY <1>1, <1>5, <2>1 DEF NewPassport
  <1>6. ASSUME NEW s \in LoginServers, NEW c \in Clients, NEW o \in Origins, ChooseServer(s, c, o)
        PROVE  job'[u].role = RoleId(roleInc'[u], u)
    <2>1. CASE s # u
      BY <1>1, <1>6, <2>1 DEF ChooseServer
    <2>2. CASE s = u
      <3>1. /\ roleInc' = [roleInc EXCEPT ![u] = NextRoleInc(u)]
            /\ job' = [job EXCEPT ![u] = [NoJob EXCEPT !.client = c, !.origin = o,
                                                       !.role = RoleId(NextRoleInc(u), u)]]
        BY <1>6, <2>2 DEF ChooseServer
      <3> QED BY <3>1 DEF NoJob
    <2> QED BY <2>1, <2>2
  <1>7. CASE UNCHANGED <<pc, job, roleInc>>
    BY <1>1, <1>7
  <1>8. ASSUME NEW c \in Clients,
               \/ Disconnect(c)
               \/ \E s \in LoginServers : Connect(c, s)
               \/ \E n \in Names : LogIn(c, n)
        PROVE  UNCHANGED <<pc, job, roleInc>>
    BY <1>8 DEF Disconnect, Connect, LogIn, srvVars
  <1>9. CASE UNCHANGED accVars
    BY <1>7, <1>9 DEF accVars, srvVars
  <1> QED BY <1>2, <1>3, <1>4, <1>5, <1>6, <1>7, <1>8, <1>9, NextCases

(* The counter of a server only grows until the server is started.           *)
LEMMA CounterGrows ==
  ASSUME AccTypeOK, [AccNext]_accVars, NEW s \in LoginServers
  PROVE  Start(s) \/ (roleInc'[s] \in Nat /\ roleInc[s] <= roleInc'[s])
  <1> USE DEF AccTypeOK
  <1>1. CASE roleInc'[s] = roleInc[s]
    BY <1>1
  <1>2. ASSUME NEW u \in LoginServers, NEW c \in Clients, NEW o \in Origins, ChooseServer(u, c, o)
        PROVE  roleInc'[s] \in Nat /\ roleInc[s] <= roleInc'[s]
    <2>1. roleInc' = roleInc \/ roleInc' = [roleInc EXCEPT ![u] = roleInc[u] + 1]
      BY <1>2, Zenon DEF ChooseServer, NextRoleInc
    <2>2. roleInc'[s] = roleInc[s] \/ roleInc'[s] = roleInc[s] + 1
      BY <2>1
    <2>3. roleInc[s] \in Nat
      OBVIOUS
    <2> HIDE DEF AccTypeOK
    <2> QED BY <2>2, <2>3
  <1>3. ASSUME NEW u \in LoginServers, Start(u) PROVE Start(s) \/ roleInc'[s] = roleInc[s]
    BY <1>3 DEF Start
  <1>4. ASSUME NEW u \in LoginServers,
               \/ ServerCrash(u) \/ InsertPassport(u) \/ InsertRole(u) \/ Enter(u) \/ CreateLoginToken(u)
        PROVE  UNCHANGED roleInc
    BY <1>4 DEF ServerCrash, InsertPassport, InsertRole, Enter, CreateLoginToken
  <1>5. ASSUME NEW c \in Clients,
               \/ Disconnect(c)
               \/ \E u \in LoginServers : Connect(c, u)
               \/ \E n \in Names : LogIn(c, n) \/ \E u \in LoginServers : NewPassport(u, c, n)
        PROVE  UNCHANGED roleInc
    BY <1>5 DEF Disconnect, Connect, LogIn, NewPassport, srvVars
  <1>6. CASE UNCHANGED accVars
    BY <1>1, <1>6 DEF accVars, srvVars
  <1> QED BY <1>1, <1>2, <1>3, <1>4, <1>5, <1>6, NextCases

(* A new role of a server has the number its counter shows.                  *)
LEMMA AheadStep ==
  ASSUME Narrow, AccTypeOK, InvJob, InvRoleJob, [AccNext]_accVars,
         NEW s \in LoginServers, RoleAhead(s)
  PROVE  RoleAhead(s)' \/ (Start(s) /\ RolesOf(s) # {})
  <1> SUFFICES ASSUME NEW r \in RolesOf(s)', ~(Start(s) /\ RolesOf(s) # {})
               PROVE  r \div 16 <= roleInc'[s]
    BY DEF RoleAhead
  <1>1. r \in RoleIds /\ r \in KnownRoles' /\ (r \div 2) % 8 = s
    BY DEF RolesOf, KnownRoles
  <1>2. r \div 16 \in Nat /\ roleInc[s] \in Nat
    BY <1>1, RoleFields DEF AccTypeOK
  <1>3. CASE r \in KnownRoles
    <2>1. r \in RolesOf(s)
      BY <1>1, <1>3 DEF RolesOf
    <2>2. r \div 16 <= roleInc[s] /\ ~Start(s)
      BY <2>1 DEF RoleAhead
    <2>3. roleInc'[s] \in Nat /\ roleInc[s] <= roleInc'[s]
      BY <2>2, CounterGrows
    <2> QED BY <1>2, <2>2, <2>3
  <1>4. CASE r \notin KnownRoles
    <2>1. PICK t \in LoginServers : InsertRole(t) /\ r = job[t].role
      BY <1>1, <1>4, RoleStep
    <2>2. r = RoleId(roleInc[t], t) /\ UNCHANGED roleInc
      BY <2>1 DEF InsertRole, InvRoleJob
    <2>3. t \in 0 .. 7 /\ roleInc[t] \in Nat
      BY DEF Narrow, AccTypeOK
    <2>4. r \div 16 = roleInc[t] /\ (r \div 2) % 8 = t
      BY <2>2, <2>3, IdFields
    <2> QED BY <1>1, <1>2, <2>2, <2>4
  <1> QED BY <1>3, <1>4

(* NextRoleId yields ids that re_passport_player does not have as long as no *)
(* server that has made roles is started again, whatever fails and however   *)
(* many servers there are: InitCenterDB alone sets the counter back.         *)
THEOREM FreshUntilRestart ==
  ASSUME Narrow
  PROVE  AccSpec /\ [][FirstStart]_accVars => []FreshRole
  <1>1. AccInit => InvRoleJob /\ RolesAhead
    BY DEF AccInit, InvRoleJob, RolesAhead, RoleAhead, RolesOf, KnownRoles
  <1>2. IInv /\ InvRoleJob /\ [AccNext]_accVars => InvRoleJob'
    BY RoleJobStep DEF IInv
  <1>3. ASSUME IInv, InvRoleJob, RolesAhead, [AccNext]_accVars, [FirstStart]_accVars
        PROVE  RolesAhead'
    <2>1. CASE FirstStart
      BY <1>3, <2>1, AheadStep DEF IInv, RolesAhead, FirstStart
    <2>2. CASE UNCHANGED accVars
      BY <1>3, <2>2 DEF RolesAhead, RoleAhead, RolesOf, KnownRoles, accVars, nameVars, srvVars
    <2> QED BY <1>3, <2>1, <2>2
  <1>4. ASSUME IInv, RolesAhead PROVE FreshRole
    <2> SUFFICES ASSUME NEW s \in LoginServers, RoleId(roleInc[s] + 1, s) \in KnownRoles
                 PROVE  FALSE
      BY DEF FreshRole
    <2>1. s \in 0 .. 7 /\ roleInc[s] \in Nat /\ roleInc[s] + 1 \in Nat
      BY <1>4 DEF Narrow, IInv, AccTypeOK
    <2> DEFINE r == RoleId(roleInc[s] + 1, s)
    <2>2. r \div 16 = roleInc[s] + 1 /\ (r \div 2) % 8 = s
      BY <2>1, IdFields
    <2> HIDE DEF r
    <2>3. r \in RolesOf(s)
      BY <2>2 DEF RolesOf, r
    <2>4. r \div 16 <= roleInc[s]
      BY <1>4, <2>3 DEF RolesAhead, RoleAhead
    <2> QED BY <2>1, <2>2, <2>4
  <1> QED BY <1>1, <1>2, <1>3, <1>4, Inductive, PTL DEF AccSpec

=============================================================================
