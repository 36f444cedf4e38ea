------------------------------ MODULE GmCommand ------------------------------
(***************************************************************************)
(* The GM commands of CenterDBCtrl.  An operator's tool inserts rows into  *)
(* the table gm_cmd.  Every login server polls the table from its world    *)
(* thread (CLoginGroup::OnTimer5s): ReadNewGmCommand loads the new rows,   *)
(* UpdateGmCommand moves the loaded commands on and then writes them back. *)
(* After a restart InitGmCommand loads what was not finished.              *)
(*                                                                         *)
(* One statement is one step on the database.  A server may crash between  *)
(* two steps, and a statement may fail: it was not executed, or it was and *)
(* the answer is lost (the client reconnects by itself).                   *)
(***************************************************************************)
EXTENDS Naturals, FiniteSetsExt

CONSTANTS
  Servers,     \* login servers on one database
  MaxId,       \* bound: auto_id of the last row
  Menu,        \* the commands the operator may insert
  Passports,   \* the passports the commands are for
  Roles,       \* roles that ask HandlerGmCommandRole for commands
  MaxTime,     \* bound: the last reading of the database clock
  MaxBoots,    \* bound: starts of servers
  MaxFails,    \* bound: statements that fail
  IdGaps,      \* whether a row may be committed after one with a larger auto_id
  ClockSteps   \* whether the clock of the database can be set back

Ids    == 1 .. MaxId
Oprs   == {"set_gm_auth", "cancel_gm_command", "other"}
Status == {"new", "pending", "running", "complete", "error"}
Final  == {"complete", "error"}

(* A command of Menu: opr, target (gm_cmd.target_type), passport           *)
(* (target_id), valid (the passport exists and params has one field),      *)
(* param (that field: the new authority, or the auto_id to cancel), start  *)
(* and end.                                                                *)
ASSUME GmAssumption ==
  /\ IsFiniteSet(Servers)
  /\ MaxId \in Nat /\ MaxTime \in Nat /\ MaxBoots \in Nat /\ MaxFails \in Nat
  /\ IdGaps \in BOOLEAN /\ ClockSteps \in BOOLEAN
  /\ Menu \subseteq [opr : Oprs, target : {"passport", "role", "server"}, passport : Passports,
                     valid : BOOLEAN, param : Nat, start : Nat, end : Nat]

VARIABLES
  cmd,      \* what was inserted under each auto_id, {} or one command of Menu
  row,      \* gm_cmd: status, start_time and end_time of the row
  gmAuth,   \* passport_info.gm_auth
  now,      \* unix_timestamp() of the database
  up,       \* each server: "down", "idle", "update", "run" or "save"
  due,      \* the five second timer of the server has run out
  maxId,    \* m_dwMaxHandledGmCommandId
  maxTime,  \* m_dwMaxRunningGmCommandTime
  mem,      \* m_mapGmCommandAll: the commands in memory
  dwTime,   \* the time UpdateGmCommand has read
  todo,     \* what is left of UpdateGmCommand's loop over the map
  last,     \* dwLastCmdTime of each role
  fails,    \* statements that failed so far
  boots,    \* history: starts so far
  runs,     \* history: how often the effect of a command was applied
  applied,  \* history: the values it set
  saw       \* history: commands a role has handled since they were triggered

rowVars  == <<cmd, row, gmAuth, now>>
pollVars == <<up, due, maxId, maxTime, mem, dwTime, todo>>
roleVars == <<last, saw>>
histVars == <<fails, boots, runs, applied>>
gmVars   == <<rowVars, pollVars, roleVars, histVars>>

NoRow  == [status |-> "none", start |-> 0, end |-> 0]
NotMem == [status |-> "none", start |-> 0, end |-> 0, auth |-> 0, dirty |-> FALSE]

GmInit ==
  /\ cmd     = [i \in Ids |-> {}]
  /\ row     = [i \in Ids |-> NoRow]
  /\ gmAuth  = [p \in Passports |-> 0]
  /\ now     = 1
  /\ up      = [s \in Servers |-> "down"]
  /\ due     = [s \in Servers |-> FALSE]
  /\ maxId   = [s \in Servers |-> 0]
  /\ maxTime = [s \in Servers |-> 0]
  /\ mem     = [s \in Servers |-> [i \in Ids |-> NotMem]]
  /\ dwTime  = [s \in Servers |-> 0]
  /\ todo    = [s \in Servers |-> {}]
  /\ last    = [r \in Roles |-> 0]
  /\ saw     = [r \in Roles |-> {}]
  /\ fails   = 0
  /\ boots   = 0
  /\ runs    = [i \in Ids |-> 0]
  /\ applied = [i \in Ids |-> {}]

The(S) == CHOOSE x \in S : TRUE
CmdOf(i) == The(cmd[i])

\* How a statement ends: "done", "failed" without effect, or "lost": it took
\* effect but its answer did not arrive.
Outcomes == {"done"} \cup (IF fails < MaxFails THEN {"failed", "lost"} ELSE {})
CountFailure(o) == fails' = IF o = "done" THEN fails ELSE fails + 1

\* A query fails: there is no result.
QueryFails == fails < MaxFails /\ fails' = fails + 1

-----------------------------------------------------------------------------
(* The database and its clock.                                             *)

\* The operator's tool or CreateSysGmCommand inserts a row.  auto_id grows,
\* but two connections may commit in either order.
Insert(i, c) ==
  /\ cmd[i] = {}
  /\ IdGaps \/ \A j \in 1 .. (i - 1) : cmd[j] # {}
  /\ cmd' = [cmd EXCEPT ![i] = {c}]
  /\ row' = [row EXCEPT ![i] = [status |-> "new", start |-> c.start, end |-> c.end]]
  /\ UNCHANGED <<gmAuth, now, pollVars, roleVars, histVars>>

\* Time passes: the timers of all servers run out.
Tick(t) ==
  /\ t # now /\ (t > now \/ ClockSteps)
  /\ now' = t
  /\ due' = [s \in Servers |-> up[s] # "down"]
  /\ UNCHANGED <<cmd, row, gmAuth, up, maxId, maxTime, mem, dwTime, todo, roleVars, histVars>>

-----------------------------------------------------------------------------
(* Reading commands.                                                       *)

\* Mutant: the server loads the commands of all target types.
CheckNoTarget(c) == TRUE

\* CheckTargetType of the login server.
CheckTargetType(c) == c.target = "passport"

\* The operations Create knows.
Supported(c) == c.opr \in {"set_gm_auth", "cancel_gm_command"}

\* Mutant: Create does not take over the status.
CreateNew(i) == [status |-> "new", start |-> row[i].start, end |-> row[i].end,
                 auth |-> 0, dirty |-> TRUE]

Create(i) == [status |-> row[i].status, start |-> row[i].start, end |-> row[i].end,
              auth |-> 0, dirty |-> TRUE]

\* Mutant: the commands read do not advance m_dwMaxHandledGmCommandId.
HandledBefore(s, found) == maxId[s]

MaxHandled(s, found) == Max(found \cup {maxId[s]})

\* ReadCommands: std::map::insert keeps a command that is already there.  A
\* command that is not supported is marked in the table at once, if that works.
ReadCommands(s, found) ==
  LET mine    == {i \in found : CheckTargetType(CmdOf(i))}
      load    == {i \in mine : Supported(CmdOf(i))}
      refused == mine \ load
  IN
  /\ maxId' = [maxId EXCEPT ![s] = MaxHandled(s, found)]
  /\ mem' = [mem EXCEPT ![s] = [i \in Ids |->
               IF i \in load /\ @[i].status = "none" THEN Create(i) ELSE @[i]]]
  /\ \E marked \in SUBSET refused :
       /\ row'   = [i \in Ids |-> IF i \in marked THEN [row[i] EXCEPT !.status = "error"] ELSE row[i]]
       /\ fails' = fails + Cardinality(refused \ marked)
       /\ fails' <= MaxFails

\* Mutant: the commands that wait for their start are forgotten.
UnfinishedButPending == {i \in Ids : row[i].status \in {"new", "running"}}

\* The rows InitGmCommand asks for.
Unfinished == {i \in Ids : row[i].status \in {"new", "pending", "running"}}

\* InitGmCommand, when the server starts.  With no result nothing is loaded.
InitGmCommand(s) ==
  /\ up[s] = "down" /\ boots < MaxBoots
  /\ boots' = boots + 1
  /\ up'    = [up EXCEPT ![s] = "idle"]
  /\ \/ ReadCommands(s, Unfinished)
     \/ QueryFails /\ UNCHANGED <<row, maxId, mem>>
  /\ UNCHANGED <<cmd, gmAuth, now, due, maxTime, dwTime, todo, roleVars, runs, applied>>

\* OnTimer5s begins with ReadNewGmCommand.
ReadNewGmCommand(s) ==
  /\ up[s] = "idle" /\ due[s]
  /\ due' = [due EXCEPT ![s] = FALSE]
  /\ up'  = [up EXCEPT ![s] = "update"]
  /\ \/ ReadCommands(s, {i \in Ids : row[i].status = "new" /\ i > maxId[s]})
     \/ QueryFails /\ UNCHANGED <<row, maxId, mem>>
  /\ UNCHANGED <<cmd, gmAuth, now, maxTime, dwTime, todo, roleVars, boots, runs, applied>>

-----------------------------------------------------------------------------
(* UpdateGmCommand: two loops over the commands in memory, by auto_id.     *)

InMem(s) == {i \in Ids : mem[s][i].status # "none"}
SetMem(s, i, m) ==
  mem' = [mem EXCEPT ![s][i] = [m EXCEPT !.dirty = mem[s][i].dirty \/ m # mem[s][i]]]

\* GetDBTime, which is 0 when its query fails.  A time that does not advance
\* ends the call.
BeginUpdate(s) ==
  /\ up[s] = "update"
  /\ \E t \in {now, 0} :
       /\ IF t = 0 THEN QueryFails ELSE UNCHANGED fails
       /\ IF t <= maxTime[s]
            THEN up' = [up EXCEPT ![s] = "idle"] /\ UNCHANGED <<dwTime, todo>>
            ELSE /\ up'     = [up EXCEPT ![s] = "run"]
                 /\ dwTime' = [dwTime EXCEPT ![s] = t]
                 /\ todo'   = [todo EXCEPT ![s] = InMem(s)]
  /\ UNCHANGED <<rowVars, due, maxId, maxTime, mem, roleVars, boots, runs, applied>>

\* Mutant: the commands are visited in no particular order.
VisitAnyOrder(s, i) ==
  /\ i \in todo[s]
  /\ todo' = [todo EXCEPT ![s] = @ \ {i}]

Visit(s, i) ==
  /\ i \in todo[s] /\ \A j \in todo[s] : i <= j
  /\ todo' = [todo EXCEPT ![s] = @ \ {i}]

\* A start of 0 means now; an end before the start means the start.
Scheduled(m, t) ==
  LET start == IF m.start = 0 THEN t ELSE m.start
  IN  [m EXCEPT !.start = start, !.end = IF m.end < start THEN start ELSE m.end]

\* SetGmAuthCommand::Validate; CancelCommand::Validate refuses the target type
\* passport, the only one that is loaded.
Validates(c) == c.opr = "set_gm_auth" /\ c.valid

\* A new command that does not validate, or whose passport was not found.
RejectCommand(s, i) ==
  LET m == Scheduled(mem[s][i], dwTime[s]) IN
  /\ up[s] = "run" /\ Visit(s, i)
  /\ m.status = "new"
  /\ IF Validates(CmdOf(i)) THEN QueryFails ELSE UNCHANGED fails
  /\ SetMem(s, i, [m EXCEPT !.status = "error"])
  /\ UNCHANGED <<rowVars, up, due, maxId, maxTime, dwTime, roleVars, boots, runs, applied>>

\* The command in memory after Validate: m_byGmAuth is known from then on.
Validated(m, c) == IF m.status = "new" THEN [m EXCEPT !.status = "pending", !.auth = c.param] ELSE m

\* The command waits for its start, or has just been found valid.
Waits(s, i) ==
  \/ mem[s][i].status = "pending"
  \/ mem[s][i].status = "new" /\ Validates(CmdOf(i))

\* The command has to wait for its start.
PendCommand(s, i) ==
  LET c == CmdOf(i)
      m == Scheduled(mem[s][i], dwTime[s])
  IN
  /\ up[s] = "run" /\ Visit(s, i)
  /\ Waits(s, i)
  /\ m.start >= dwTime[s]
  /\ SetMem(s, i, Validated(m, c))
  /\ UNCHANGED <<rowVars, up, due, maxId, maxTime, dwTime, roleVars, histVars>>

\* The status of a running command: complete once its end is past.
Ended(m, t) == IF m.end < t THEN "complete" ELSE "running"

\* Mutant: a command whose Trigger failed runs all the same.
TriggeredUnchecked(m, t, o) == Ended(m, t)

\* The status after Trigger: an error when it returned false.
Triggered(m, t, o) == IF o = "done" THEN Ended(m, t) ELSE "error"

\* Mutant: the start stays what the operator asked for.
StartedAsPlanned(m, t) == m

\* The start becomes the time of the trigger.
Started(m, t) == [m EXCEPT !.start = t]

\* Trigger: UpdatePassportGmAuth, once the start is past.
TriggerCommand(s, i) ==
  LET c == CmdOf(i)
      t == dwTime[s]
      m == Started(Validated(Scheduled(mem[s][i], t), c), t)
  IN
  /\ up[s] = "run" /\ Visit(s, i)
  /\ Waits(s, i)
  /\ Scheduled(mem[s][i], t).start < t
  /\ \E o \in Outcomes :
       /\ CountFailure(o)
       /\ gmAuth'  = IF o = "failed" THEN gmAuth ELSE [gmAuth EXCEPT ![c.passport] = m.auth]
       /\ runs'    = IF o = "failed" THEN runs ELSE [runs EXCEPT ![i] = @ + 1]
       /\ applied' = IF o = "failed" THEN applied ELSE [applied EXCEPT ![i] = @ \cup {m.auth}]
       /\ SetMem(s, i, [m EXCEPT !.status = Triggered(m, t, o)])
  /\ saw' = [r \in Roles |-> saw[r] \ {i}]
  /\ UNCHANGED <<cmd, row, now, up, due, maxId, maxTime, dwTime, last, boots>>

\* A running command goes on, or completes.
TickCommand(s, i) ==
  LET m == Scheduled(mem[s][i], dwTime[s]) IN
  /\ up[s] = "run" /\ Visit(s, i)
  /\ m.status = "running"
  /\ SetMem(s, i, [m EXCEPT !.status = Ended(m, dwTime[s])])
  /\ UNCHANGED <<rowVars, up, due, maxId, maxTime, dwTime, roleVars, histVars>>

BeginSave(s) ==
  /\ up[s] = "run" /\ todo[s] = {}
  /\ up'   = [up EXCEPT ![s] = "save"]
  /\ todo' = [todo EXCEPT ![s] = InMem(s)]
  /\ UNCHANGED <<rowVars, due, maxId, maxTime, mem, dwTime, roleVars, histVars>>

\* A changed command is written back; whether that worked does not matter.
SaveCommand(s, i) ==
  LET m == mem[s][i] IN
  /\ up[s] = "save" /\ Visit(s, i)
  /\ \E o \in Outcomes :
       /\ ~m.dirty => o = "done"
       /\ CountFailure(o)
       /\ row' = IF m.dirty /\ o # "failed"
                   THEN [row EXCEPT ![i] = [status |-> m.status, start |-> m.start, end |-> m.end]]
                   ELSE row
  /\ mem' = [mem EXCEPT ![s][i].dirty = FALSE]
  /\ UNCHANGED <<cmd, gmAuth, now, up, due, maxId, maxTime, dwTime, roleVars, boots, runs, applied>>

\* The commands that came to an end are removed from memory.
EndUpdate(s) ==
  /\ up[s] = "save" /\ todo[s] = {}
  /\ up'  = [up EXCEPT ![s] = "idle"]
  /\ mem' = [mem EXCEPT ![s] = [i \in Ids |-> IF @[i].status \in Final THEN NotMem ELSE @[i]]]
  /\ maxTime' = [maxTime EXCEPT ![s] = dwTime[s]]
  /\ UNCHANGED <<rowVars, due, maxId, dwTime, todo, roleVars, histVars>>

-----------------------------------------------------------------------------
(* Roles, and crashes.                                                     *)

\* Mutant: "<=" for "<".
ForRoleAgain(s, r) == {i \in Ids : mem[s][i].status = "running" /\ last[r] <= mem[s][i].start}

\* What HandlerGmCommandRole gives the role.
ForRole(s, r) == {i \in Ids : mem[s][i].status = "running" /\ last[r] < mem[s][i].start}

\* HandlerGmCommandRole, called from the world thread.  The caller keeps the
\* time it returns for the next call.
HandleRole(s, r) ==
  /\ up[s] = "idle"
  /\ maxTime[s] > last[r]
  /\ last' = [last EXCEPT ![r] = maxTime[s]]
  /\ saw'  = [saw EXCEPT ![r] = @ \cup ForRole(s, r)]
  /\ UNCHANGED <<rowVars, pollVars, histVars>>

\* The process ends, anywhere; its memory is gone.
Crash(s) ==
  /\ up[s] # "down" /\ boots < MaxBoots
  /\ up'      = [up EXCEPT ![s] = "down"]
  /\ due'     = [due EXCEPT ![s] = FALSE]
  /\ maxId'   = [maxId EXCEPT ![s] = 0]
  /\ maxTime' = [maxTime EXCEPT ![s] = 0]
  /\ mem'     = [mem EXCEPT ![s] = [i \in Ids |-> NotMem]]
  /\ dwTime'  = [dwTime EXCEPT ![s] = 0]
  /\ todo'    = [todo EXCEPT ![s] = {}]
  /\ UNCHANGED <<rowVars, roleVars, histVars>>

-----------------------------------------------------------------------------
RunCommand(s) ==
  \E i \in Ids : RejectCommand(s, i) \/ PendCommand(s, i) \/ TriggerCommand(s, i) \/ TickCommand(s, i)

UpdateGmCommand(s) ==
  \/ BeginUpdate(s) \/ RunCommand(s) \/ BeginSave(s)
  \/ \E i \in Ids : SaveCommand(s, i)
  \/ EndUpdate(s)

OnTimer5s(s) == ReadNewGmCommand(s) \/ UpdateGmCommand(s)

GmNext ==
  \/ \E i \in Ids, c \in Menu : Insert(i, c)
  \/ \E t \in 1 .. MaxTime : Tick(t)
  \/ \E s \in Servers : InitGmCommand(s) \/ OnTimer5s(s) \/ Crash(s)
  \/ \E s \in Servers, r \in Roles : HandleRole(s, r)

GmSpec == GmInit /\ [][GmNext]_gmVars

(* For progress: a poll takes less than the five seconds between two polls,  *)
(* a server that went down is started again, and the operator inserts early  *)
(* enough for the bounded clock.                                             *)
Polled == \A s \in Servers :
            IF up[s] = "down" THEN boots = MaxBoots ELSE up[s] = "idle" /\ ~due[s]
PacedNext ==
  /\ GmNext
  /\ now' # now => Polled /\ now' = now + 1
  /\ cmd' # cmd => now <= 2
PacedSpec ==
  /\ GmInit /\ [][PacedNext]_gmVars
  /\ WF_gmVars(\E t \in 1 .. MaxTime : Tick(t))
  /\ \A s \in Servers : WF_gmVars(InitGmCommand(s)) /\ WF_gmVars(OnTimer5s(s))

-----------------------------------------------------------------------------
RowType == [status : Status \cup {"none"}, start : Nat, end : Nat]
MemType == [status : Status \cup {"none"}, start : Nat, end : Nat, auth : Nat, dirty : BOOLEAN]

GmTypeOK ==
  /\ cmd     \in [Ids -> {{}} \cup {{c} : c \in Menu}]
  /\ row     \in [Ids -> RowType]
  /\ gmAuth  \in [Passports -> Nat]
  /\ now     \in Nat
  /\ up      \in [Servers -> {"down", "idle", "update", "run", "save"}]
  /\ due     \in [Servers -> BOOLEAN]
  /\ maxId   \in [Servers -> Nat]
  /\ maxTime \in [Servers -> Nat]
  /\ mem     \in [Servers -> [Ids -> MemType]]
  /\ dwTime  \in [Servers -> Nat]
  /\ todo    \in [Servers -> SUBSET Ids]
  /\ last    \in [Roles -> Nat]
  /\ saw     \in [Roles -> SUBSET Ids]
  /\ fails   \in Nat
  /\ boots   \in Nat
  /\ runs    \in [Ids -> Nat]
  /\ applied \in [Ids -> SUBSET Nat]
  /\ \A s \in Servers : \A i \in InMem(s) : cmd[i] # {} /\ CmdOf(i).target = "passport"

(* The table says that a command runs or is complete only if its effect was *)
(* applied, by whichever server, over crashes and failed statements.        *)
RunningWasApplied ==
  \A i \in Ids : row[i].status \in {"running", "complete"} => runs[i] > 0

(* ReadNewGmCommand and UpdateGmCommand trigger a command at most once in   *)
(* the life of a server process, even when its row could not be written.    *)
OncePerBoot == \A i \in Ids : runs[i] <= boots

Rank(st) == CASE st = "none" -> 0 [] st = "new" -> 1 [] st = "pending" -> 2
              [] st = "running" -> 3 [] st \in Final -> 4

(* With one server the status in the table never goes back, and a final one *)
(* stays, whatever is lost in between.                                      *)
StatusForward ==
  [][\A i \in Ids :
       /\ Rank(row[i].status) <= Rank(row'[i].status)
       /\ row[i].status \in Final => row'[i].status = row[i].status]_gmVars

(* Commands without a start time take effect in the order of their auto_id, *)
(* over crashes: an older one is not applied to a passport once the table   *)
(* says that a newer one was.                                               *)
InOrder ==
  [][\A i, j \in Ids :
       /\ i < j /\ cmd[i] # {} /\ cmd[j] # {}
       /\ CmdOf(i).start = 0 /\ CmdOf(j).start = 0
       /\ CmdOf(i).passport = CmdOf(j).passport
       /\ row[j].status \in {"running", "complete"}
       => runs'[i] = runs[i]]_gmVars

(* HandlerGmCommandRole gives a role a command at most once per trigger.    *)
RoleOnce ==
  [][\A s \in Servers, r \in Roles :
       last'[r] # last[r] /\ up[s] = "idle" => ForRole(s, r) \cap saw[r] = {}]_gmVars

(* A role whose time is past the start of a running command was given it.   *)
RoleSees ==
  \A s \in Servers, r \in Roles, i \in Ids :
    /\ up[s] = "idle" /\ mem[s][i].status = "running"
    /\ last[r] >= mem[s][i].start
    => i \in saw[r]

(* A command for the login servers comes to an end although servers crash.  *)
Settled ==
  \A i \in Ids : cmd[i] # {} /\ CheckTargetType(CmdOf(i)) ~> row[i].status \in Final

(* A command sets the authority the operator asked for and no other.        *)
AuthAsRequested == \A i \in Ids : applied[i] # {} => applied[i] = {CmdOf(i).param}

=============================================================================
