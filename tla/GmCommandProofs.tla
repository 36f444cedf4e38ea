-------------------------- MODULE GmCommandProofs --------------------------
(***************************************************************************)
(* Theorems about GmCommand for every number of servers, commands, starts  *)
(* and failed statements.                                                  *)
(*                                                                         *)
(* The argument for OncePerBoot: a server may still trigger a command only *)
(* while its row lies past m_dwMaxHandledGmCommandId or the command waits  *)
(* in memory.  A trigger takes the server out of that set, and only a new  *)
(* start can bring it back: reading a row moves m_dwMaxHandledGmCommandId  *)
(* up to it.  So the starts so far bound the triggers so far plus the      *)
(* servers that may still trigger.                                         *)
(*                                                                         *)
(* The later parts are about one login server: its memory is ahead of the  *)
(* table (StatusForward), its polls are ahead of the times of the roles    *)
(* (RoleOnce), and, while no statement fails, it has in memory all that    *)
(* began (RoleSees) with the older command never behind the newer one      *)
(* (InOrder).                                                              *)
(***************************************************************************)
EXTENDS GmCommand, FiniteSetTheorems, WellFoundedInduction, TLAPS

\* The commands a login server loads.
Loadable(i) == CheckTargetType(CmdOf(i)) /\ Supported(CmdOf(i))

\* A row holds a command.
InvRow == \A i \in Ids : row[i].status # "none" => cmd[i] # {}

\* What is in memory was read by the running process.
InvMem ==
  \A s \in Servers, i \in Ids :
    mem[s][i].status # "none" => i <= maxId[s] /\ up[s] # "down"

\* Running and complete commands took effect, in the table and in memory.
InvApplied ==
  /\ RunningWasApplied
  /\ \A s \in Servers, i \in Ids :
       mem[s][i].status \in {"running", "complete"} => runs[i] > 0

\* The servers that may still trigger command i in their present life.
MayTrigger(i) ==
  {s \in Servers : /\ up[s] # "down"
                   /\ i > maxId[s] \/ mem[s][i].status \in {"new", "pending"}}

InvOnce == \A i \in Ids : runs[i] + Cardinality(MayTrigger(i)) <= boots

IInv == GmTypeOK /\ InvRow /\ InvMem /\ InvApplied /\ InvOnce

-----------------------------------------------------------------------------
(* A nonempty set of numbers up to n has a greatest element, and Max is it.  *)
LEMMA MaxExists ==
  ASSUME NEW n \in Nat, NEW S \in SUBSET (0 .. n), S # {}
  PROVE  Max(S) \in S /\ \A x \in S : x <= Max(S)
  <1> DEFINE T == {n - x : x \in S}
  <1>0. ASSUME NEW x \in S PROVE x \in Nat /\ n - x \in Nat
    <2>1. x \in 0 .. n
      OBVIOUS
    <2> QED BY <2>1
  <1>1. T \subseteq Nat /\ T # {}
    BY <1>0
  <1>2. \E m \in T : \A y \in T : <<y, m>> \notin OpToRel(<, Nat)
    <2> HIDE DEF T
    <2> QED BY <1>1, NatLessThanWellFounded, WFMin, Zenon
  <1>3. PICK m \in T : \A y \in T : m <= y
    <2>1. PICK m \in T : \A y \in T : <<y, m>> \notin OpToRel(<, Nat)
      BY <1>2
    <2>2. ASSUME NEW y \in T PROVE m <= y
      <3>1. m \in Nat /\ y \in Nat
        BY <1>1
      <3>2. ~(y < m)
        BY <2>1, <2>2, <3>1, Zenon DEF OpToRel
      <3> QED BY <3>1, <3>2
    <2> QED BY <2>2
  <1>4. PICK x \in S : m = n - x
    OBVIOUS
  <1>5. ASSUME NEW y \in S PROVE x >= y
    <2>1. m <= n - y
      BY <1>3
    <2> QED BY <1>0, <1>4, <2>1
  <1> HIDE DEF T
  <1>6. Max(S) \in S /\ \A y \in S : Max(S) >= y
    BY <1>5 DEF Max
  <1> QED BY <1>6
(* What was inserted is a command of Menu.                                   *)
LEMMA CmdType ==
  ASSUME GmTypeOK, NEW i \in Ids, cmd[i] # {}
  PROVE  /\ CmdOf(i) \in Menu
         /\ CmdOf(i).param \in Nat /\ CmdOf(i).passport \in Passports
  <1>1. PICK c \in Menu : cmd[i] = {c}
    BY DEF GmTypeOK
  <1>2. CmdOf(i) = c
    BY <1>1 DEF CmdOf, The
  <1> QED BY <1>2, GmAssumption

(* ReadCommands: m_dwMaxHandledGmCommandId covers what was read.             *)
LEMMA ReadMax ==
  ASSUME GmTypeOK, NEW s \in Servers, NEW found \in SUBSET Ids
  PROVE  /\ MaxHandled(s, found) \in Nat
         /\ maxId[s] <= MaxHandled(s, found)
         /\ \A i \in found : i <= MaxHandled(s, found)
         /\ MaxHandled(s, found) \in found \cup {maxId[s]}
  <1> DEFINE S == found \cup {maxId[s]}
             n == maxId[s] + MaxId
  <1>1. maxId[s] \in Nat /\ n \in Nat
    BY GmAssumption DEF GmTypeOK
  <1>2. S \in SUBSET (0 .. n) /\ S # {}
    <2>1. ASSUME NEW x \in S PROVE x \in 0 .. n
      <3>1. x \in 1 .. MaxId \/ x = maxId[s]
        BY DEF Ids
      <3> QED BY <1>1, <3>1, GmAssumption
    <2> QED BY <2>1
  <1>3. Max(S) \in S /\ \A x \in S : x <= Max(S)
    <2> HIDE DEF S, n
    <2> QED BY <1>1, <1>2, MaxExists
  <1> QED BY <1>1, <1>2, <1>3 DEF MaxHandled

(* ReadCommands loads new objects for rows it found and writes error marks.  *)
LEMMA ReadStep ==
  ASSUME GmTypeOK, InvRow, NEW s \in Servers, NEW found \in SUBSET Ids,
         \A i \in found : row[i].status \in {"new", "pending", "running"},
         ReadCommands(s, found)
  PROVE  /\ mem' \in [Servers -> [Ids -> MemType]]
         /\ row' \in [Ids -> RowType]
         /\ maxId' = [maxId EXCEPT ![s] = MaxHandled(s, found)]
         /\ fails' \in Nat
         /\ \A u \in Servers, i \in Ids :
              \/ mem'[u][i] = mem[u][i]
              \/ /\ u = s /\ i \in found
                 /\ mem[s][i].status = "none" /\ mem'[s][i] = Create(i)
                 /\ CmdOf(i).target = "passport" /\ Supported(CmdOf(i))
         /\ \A i \in found : Loadable(i) => mem'[s][i].status # "none"
         /\ \A i \in Ids :
              \/ row'[i] = row[i]
              \/ i \in found /\ row'[i].status = "error" /\ ~Supported(CmdOf(i))
  <1> DEFINE mine    == {i \in found : CheckTargetType(CmdOf(i))}
             load    == {i \in mine : Supported(CmdOf(i))}
             refused == mine \ load
  <1>1. /\ maxId' = [maxId EXCEPT ![s] = MaxHandled(s, found)]
        /\ mem' = [mem EXCEPT ![s] = [i \in Ids |->
                     IF i \in load /\ @[i].status = "none" THEN Create(i) ELSE @[i]]]
    BY DEF ReadCommands
  <1>2. PICK marked \in SUBSET refused :
          /\ row'   = [i \in Ids |-> IF i \in marked THEN [row[i] EXCEPT !.status = "error"] ELSE row[i]]
          /\ fails' = fails + Cardinality(refused \ marked)
    BY DEF ReadCommands
  <1>3. refused \subseteq found /\ load \subseteq found
    OBVIOUS
  <1>4. /\ \A i \in load : CmdOf(i).target = "passport" /\ Supported(CmdOf(i))
        /\ \A i \in found : Loadable(i) => i \in load
        /\ \A i \in refused : ~Supported(CmdOf(i))
    BY DEF CheckTargetType, Loadable
  <1>5. fails' \in Nat
    <2>1. IsFiniteSet(Ids)
      BY FS_Interval, GmAssumption DEF Ids
    <2>2. refused \ marked \in SUBSET Ids
      BY <1>3
    <2>3. Cardinality(refused \ marked) \in Nat
      BY <2>1, <2>2, FS_Subset, FS_CardinalityType
    <2> QED BY <1>2, <2>3 DEF GmTypeOK
  <1> HIDE DEF mine, load, refused
  <1>6. \A i \in Ids : row[i] \in RowType /\ Create(i) \in MemType /\ Create(i).status = row[i].status
    BY DEF GmTypeOK, RowType, MemType, Create, Status
  <1>7. row' \in [Ids -> RowType]
    BY <1>2, <1>6 DEF RowType, Status
  <1>8. mem' \in [Servers -> [Ids -> MemType]]
    BY <1>1, <1>6 DEF GmTypeOK
  <1>9. /\ \A u \in Servers, i \in Ids :
              \/ mem'[u][i] = mem[u][i]
              \/ /\ u = s /\ i \in found
                 /\ mem[s][i].status = "none" /\ mem'[s][i] = Create(i)
                 /\ CmdOf(i).target = "passport" /\ Supported(CmdOf(i))
        /\ \A i \in found : Loadable(i) => mem'[s][i].status # "none"
    BY <1>1, <1>3, <1>4, <1>6 DEF GmTypeOK
  <1>10. \A i \in Ids :
              \/ row'[i] = row[i]
              \/ i \in found /\ row'[i].status = "error" /\ ~Supported(CmdOf(i))
    BY <1>2, <1>3, <1>4, <1>6 DEF RowType
  <1> QED BY <1>1, <1>5, <1>7, <1>8, <1>9, <1>10

(* What InitGmCommand and ReadNewGmCommand do when their query fails or not. *)
LoadEffect(s) ==
  /\ mem' \in [Servers -> [Ids -> MemType]]
  /\ row' \in [Ids -> RowType]
  /\ maxId' \in [Servers -> Nat]
  /\ fails' \in Nat
  /\ \A u \in Servers : maxId[u] <= maxId'[u] /\ (u # s => maxId'[u] = maxId[u])
  /\ \A u \in Servers, i \in Ids :
       \/ mem'[u][i] = mem[u][i]
       \/ /\ u = s /\ i <= maxId'[s]
          /\ ReadNewGmCommand(s) => i > maxId[s] /\ row[i].status = "new"
          /\ row[i].status \in {"new", "pending", "running"}
          /\ mem[s][i].status = "none" /\ mem'[s][i] = Create(i)
          /\ CmdOf(i).target = "passport" /\ Supported(CmdOf(i))
  /\ \A i \in Ids :
       \/ row'[i] = row[i]
       \/ /\ row[i].status \in {"new", "pending", "running"} /\ row'[i].status = "error"
          /\ ~Supported(CmdOf(i))

LEMMA LoadStep ==
  ASSUME GmTypeOK, InvRow, NEW s \in Servers, InitGmCommand(s) \/ ReadNewGmCommand(s)
  PROVE  LoadEffect(s)
  <1>1. CASE UNCHANGED <<row, maxId, mem>> /\ QueryFails
    BY <1>1 DEF GmTypeOK, QueryFails, LoadEffect
  <1>2. ASSUME NEW found \in SUBSET Ids, ReadCommands(s, found),
               \A i \in found : row[i].status \in {"new", "pending", "running"},
               ReadNewGmCommand(s) => \A i \in found : i > maxId[s] /\ row[i].status = "new"
        PROVE  LoadEffect(s)
    <2>1. maxId' = [maxId EXCEPT ![s] = MaxHandled(s, found)]
      BY <1>2, ReadStep
    <2>2. /\ maxId' \in [Servers -> Nat]
          /\ \A u \in Servers : maxId[u] <= maxId'[u] /\ (u # s => maxId'[u] = maxId[u])
      <3>1. MaxHandled(s, found) \in Nat /\ maxId[s] <= MaxHandled(s, found)
        BY ReadMax
      <3> QED BY <2>1, <3>1 DEF GmTypeOK
    <2>3. \A i \in found : i <= maxId'[s]
      BY <2>1, ReadMax DEF GmTypeOK
    <2>4. /\ mem' \in [Servers -> [Ids -> MemType]] /\ row' \in [Ids -> RowType] /\ fails' \in Nat
          /\ \A u \in Servers, i \in Ids :
               \/ mem'[u][i] = mem[u][i]
               \/ /\ u = s /\ i \in found
                  /\ mem[s][i].status = "none" /\ mem'[s][i] = Create(i)
                  /\ CmdOf(i).target = "passport" /\ Supported(CmdOf(i))
          /\ \A i \in Ids :
               \/ row'[i] = row[i]
               \/ i \in found /\ row'[i].status = "error" /\ ~Supported(CmdOf(i))
      BY <1>2, ReadStep
    <2> QED BY <1>2, <2>2, <2>3, <2>4 DEF LoadEffect
  <1>3. CASE InitGmCommand(s)
    <2>1. CASE ReadCommands(s, Unfinished)
      <3>1. /\ Unfinished \in SUBSET Ids
            /\ \A i \in Unfinished : row[i].status \in {"new", "pending", "running"}
        BY DEF Unfinished
      <3>2. ~ReadNewGmCommand(s)
        BY <1>3 DEF InitGmCommand, ReadNewGmCommand
      <3> QED BY <1>2, <2>1, <3>1, <3>2
    <2> QED BY <1>1, <1>3, <2>1 DEF InitGmCommand
  <1>4. CASE ReadNewGmCommand(s)
    <2> DEFINE found == {i \in Ids : row[i].status = "new" /\ i > maxId[s]}
    <2>1. CASE ReadCommands(s, found)
      <3>1. /\ found \in SUBSET Ids /\ \A i \in found : row[i].status \in {"new", "pending", "running"}
            /\ \A i \in found : i > maxId[s] /\ row[i].status = "new"
        OBVIOUS
      <3> HIDE DEF found
      <3> QED BY <1>2, <2>1, <3>1
    <2> QED BY <1>1, <1>4, <2>1 DEF ReadNewGmCommand
  <1> QED BY <1>3, <1>4

(* A command that was loaded is in memory what its row said.                 *)
LEMMA CreateType ==
  ASSUME GmTypeOK, NEW i \in Ids
  PROVE  /\ Create(i) \in MemType /\ Create(i).status = row[i].status
         /\ Create(i).start = row[i].start /\ Create(i).dirty
  <1>1. row[i] \in RowType
    BY DEF GmTypeOK
  <1> QED BY <1>1 DEF RowType, MemType, Create

(* A visit of UpdateGmCommand's first loop changes one command in memory.    *)
LEMMA SetMemStep ==
  ASSUME GmTypeOK, NEW s \in Servers, NEW i \in Ids, NEW m \in MemType, SetMem(s, i, m)
  PROVE  /\ mem' \in [Servers -> [Ids -> MemType]]
         /\ mem'[s][i].status = m.status
         /\ \A u \in Servers, j \in Ids : u # s \/ j # i => mem'[u][j] = mem[u][j]
  <1> DEFINE w == [m EXCEPT !.dirty = mem[s][i].dirty \/ m # mem[s][i]]
  <1>1. w \in MemType /\ w.status = m.status
    BY DEF GmTypeOK, MemType
  <1>2. mem' = [mem EXCEPT ![s][i] = w]
    BY DEF SetMem
  <1> HIDE DEF w
  <1> QED BY <1>1, <1>2 DEF GmTypeOK

(* The stages a command goes through keep the type, and only what they say.  *)
LEMMA Stages ==
  ASSUME NEW m \in MemType, NEW t \in Nat, NEW c, c.param \in Nat
  PROVE  /\ Scheduled(m, t) \in MemType /\ Scheduled(m, t).status = m.status
         /\ Validated(m, c) \in MemType
         /\ Validated(m, c).status = IF m.status = "new" THEN "pending" ELSE m.status
         /\ Started(m, t) \in MemType /\ Started(m, t).status = m.status
         /\ Ended(m, t) \in {"running", "complete"}
         /\ \A st \in Status : [m EXCEPT !.status = st] \in MemType
                               /\ [m EXCEPT !.status = st].status = st
  <1>1. Scheduled(m, t) \in MemType /\ Scheduled(m, t).status = m.status
    BY DEF Scheduled, MemType
  <1>2. /\ Validated(m, c) \in MemType
        /\ Validated(m, c).status = IF m.status = "new" THEN "pending" ELSE m.status
    BY DEF Validated, MemType, Status
  <1>3. Started(m, t) \in MemType /\ Started(m, t).status = m.status
    BY DEF Started, MemType
  <1>4. \A st \in Status : [m EXCEPT !.status = st] \in MemType
                           /\ [m EXCEPT !.status = st].status = st
    BY DEF MemType
  <1> QED BY <1>1, <1>2, <1>3, <1>4 DEF Ended

(* What a visit of UpdateGmCommand's first loop does to the command.         *)
VisitEffect(s, i) ==
  /\ UNCHANGED <<cmd, row, now, up, due, maxId, maxTime, dwTime, last, boots>>
  /\ mem[s][i].status \in {"new", "pending", "running"}
  /\ mem'[s][i].status \in {"pending", "running", "complete", "error"}
  /\ mem'[s][i].status = "pending" => mem[s][i].status \in {"new", "pending"}
  /\ mem'[s][i].status \in {"running", "complete"} =>
       mem[s][i].status = "running" \/ runs' = [runs EXCEPT ![i] = @ + 1]
  /\ \A u \in Servers, j \in Ids : u # s \/ j # i => mem'[u][j] = mem[u][j]
  /\ \/ runs' = runs
     \/ /\ runs' = [runs EXCEPT ![i] = @ + 1]
        /\ mem[s][i].status \in {"new", "pending"} /\ mem'[s][i].status # "pending"

(* RejectCommand, PendCommand, TriggerCommand and TickCommand do that.        *)
LEMMA RunStep ==
  ASSUME GmTypeOK, NEW s \in Servers, NEW i \in Ids,
         RejectCommand(s, i) \/ PendCommand(s, i) \/ TriggerCommand(s, i) \/ TickCommand(s, i)
  PROVE  /\ VisitEffect(s, i)
         /\ gmAuth'  \in [Passports -> Nat]
         /\ mem'     \in [Servers -> [Ids -> MemType]]
         /\ todo'    \in [Servers -> SUBSET Ids]
         /\ saw'     \in [Roles -> SUBSET Ids]
         /\ fails'   \in Nat
         /\ runs'    \in [Ids -> Nat]
         /\ applied' \in [Ids -> SUBSET Nat]
  <1> DEFINE t == dwTime[s]
             old == mem[s][i]
             m == Scheduled(old, t)
             c == CmdOf(i)
  <1>1. t \in Nat /\ old \in MemType
    BY DEF GmTypeOK
  <1>2. old.status \in {"new", "pending", "running"}
    BY <1>1 DEF RejectCommand, PendCommand, TriggerCommand, TickCommand, Waits, Scheduled, MemType
  <1>3. cmd[i] # {}
    BY <1>2 DEF GmTypeOK, InMem
  <1>4. c.param \in Nat /\ c.passport \in Passports
    BY <1>3, CmdType
  <1>5. m \in MemType /\ m.status = old.status
    BY <1>1, <1>4, Stages
  <1>6. todo' \in [Servers -> SUBSET Ids]
    <2>1. Visit(s, i)
      BY DEF RejectCommand, PendCommand, TriggerCommand, TickCommand
    <2> QED BY <2>1 DEF Visit, GmTypeOK
  <1>7. ASSUME NEW w \in MemType, SetMem(s, i, w)
        PROVE  /\ mem' \in [Servers -> [Ids -> MemType]]
               /\ mem'[s][i].status = w.status
               /\ \A u \in Servers, j \in Ids : u # s \/ j # i => mem'[u][j] = mem[u][j]
    BY <1>7, SetMemStep
  <1> HIDE DEF m, c, old, t
  <1>8. CASE RejectCommand(s, i)
    <2>1. SetMem(s, i, [m EXCEPT !.status = "error"]) /\ old.status = "new"
      BY <1>5, <1>8 DEF RejectCommand, m, old, t
    <2>2. [m EXCEPT !.status = "error"] \in MemType /\ [m EXCEPT !.status = "error"].status = "error"
      BY <1>5 DEF MemType, Status
    <2>3. /\ UNCHANGED <<rowVars, up, due, maxId, maxTime, dwTime, roleVars, boots, runs, applied>>
          /\ fails' = fails \/ fails' = fails + 1
      BY <1>8 DEF RejectCommand, QueryFails
    <2>4. VisitEffect(s, i) /\ mem' \in [Servers -> [Ids -> MemType]]
      BY <1>7, <2>1, <2>2, <2>3 DEF VisitEffect, rowVars, roleVars, old
    <2>5. fails' \in Nat
      BY <2>3 DEF GmTypeOK
    <2> QED BY <1>6, <2>3, <2>4, <2>5 DEF GmTypeOK, rowVars, roleVars
  <1>9. CASE PendCommand(s, i)
    <2>1. SetMem(s, i, Validated(m, c)) /\ old.status \in {"new", "pending"}
      BY <1>9 DEF PendCommand, Waits, m, old, t, c
    <2>2. Validated(m, c) \in MemType /\ Validated(m, c).status = "pending"
      <3>1. /\ Validated(m, c) \in MemType
            /\ Validated(m, c).status = IF m.status = "new" THEN "pending" ELSE m.status
        BY <1>1, <1>4, <1>5, Stages
      <3> HIDE DEF Validated
      <3> QED BY <1>5, <2>1, <3>1
    <2>3. UNCHANGED <<rowVars, up, due, maxId, maxTime, dwTime, roleVars, histVars>>
      BY <1>9 DEF PendCommand
    <2> QED BY <1>6, <1>7, <2>1, <2>2, <2>3 DEF VisitEffect, GmTypeOK, rowVars, roleVars, histVars, old
  <1>10. CASE TriggerCommand(s, i)
    <2> DEFINE w == Started(Validated(m, c), t)
    <2>1. old.status \in {"new", "pending"}
      BY <1>10 DEF TriggerCommand, Waits, old
    <2>2. w \in MemType /\ w.auth \in Nat
      BY <1>1, <1>4, <1>5, Stages DEF MemType
    <2>3. PICK o \in Outcomes :
            /\ CountFailure(o)
            /\ gmAuth'  = IF o = "failed" THEN gmAuth ELSE [gmAuth EXCEPT ![c.passport] = w.auth]
            /\ runs'    = IF o = "failed" THEN runs ELSE [runs EXCEPT ![i] = @ + 1]
            /\ applied' = IF o = "failed" THEN applied ELSE [applied EXCEPT ![i] = @ \cup {w.auth}]
            /\ SetMem(s, i, [w EXCEPT !.status = Triggered(w, t, o)])
      BY <1>10 DEF TriggerCommand, m, c, old, t
    <2>4. /\ saw' = [r \in Roles |-> saw[r] \ {i}]
          /\ UNCHANGED <<cmd, row, now, up, due, maxId, maxTime, dwTime, last, boots>>
      BY <1>10 DEF TriggerCommand
    <2> HIDE DEF w
    <2>5. Triggered(w, t, o) \in {"running", "complete", "error"} /\ (o # "done" => Triggered(w, t, o) = "error")
      BY DEF Triggered, Ended
    <2>6. /\ [w EXCEPT !.status = Triggered(w, t, o)] \in MemType
          /\ [w EXCEPT !.status = Triggered(w, t, o)].status = Triggered(w, t, o)
      BY <2>2, <2>5 DEF MemType, Status
    <2>7. gmAuth' \in [Passports -> Nat] /\ runs' \in [Ids -> Nat] /\ applied' \in [Ids -> SUBSET Nat]
      <3>1. gmAuth' \in [Passports -> Nat]
        BY <1>4, <2>2, <2>3 DEF GmTypeOK
      <3>2. runs' \in [Ids -> Nat]
        BY <2>3 DEF GmTypeOK
      <3>3. applied' \in [Ids -> SUBSET Nat]
        BY <2>2, <2>3 DEF GmTypeOK
      <3> QED BY <3>1, <3>2, <3>3
    <2>8. fails' \in Nat /\ saw' \in [Roles -> SUBSET Ids]
      BY <2>3, <2>4 DEF CountFailure, GmTypeOK
    <2>9. VisitEffect(s, i) /\ mem' \in [Servers -> [Ids -> MemType]]
      BY <1>7, <2>1, <2>3, <2>4, <2>5, <2>6 DEF VisitEffect, old
    <2> QED BY <1>6, <2>7, <2>8, <2>9
  <1>11. CASE TickCommand(s, i)
    <2> DEFINE w == [m EXCEPT !.status = Ended(m, t)]
    <2>1. SetMem(s, i, w) /\ old.status = "running"
      BY <1>5, <1>11 DEF TickCommand, m, old, t
    <2>2. w \in MemType /\ w.status \in {"running", "complete"}
      BY <1>5 DEF MemType, Status, Ended
    <2>3. UNCHANGED <<rowVars, up, due, maxId, maxTime, dwTime, roleVars, histVars>>
      BY <1>11 DEF TickCommand
    <2> HIDE DEF w
    <2> QED BY <1>6, <1>7, <2>1, <2>2, <2>3 DEF VisitEffect, GmTypeOK, rowVars, roleVars, histVars, old
  <1> QED BY <1>8, <1>9, <1>10, <1>11

(* The steps of Next: what the lemmas below distinguish.                     *)
LEMMA NextCases ==
  ASSUME [GmNext]_gmVars
  PROVE  \/ \E i \in Ids, c \in Menu : Insert(i, c)
         \/ \E t \in 1 .. MaxTime : Tick(t)
         \/ \E s \in Servers : InitGmCommand(s) \/ ReadNewGmCommand(s)
         \/ \E s \in Servers : BeginUpdate(s) \/ BeginSave(s)
         \/ \E s \in Servers, i \in Ids :
              RejectCommand(s, i) \/ PendCommand(s, i) \/ TriggerCommand(s, i) \/ TickCommand(s, i)
         \/ \E s \in Servers, i \in Ids : SaveCommand(s, i)
         \/ \E s \in Servers : EndUpdate(s) \/ Crash(s)
         \/ \E s \in Servers, r \in Roles : HandleRole(s, r)
         \/ UNCHANGED gmVars
  <1>1. CASE UNCHANGED gmVars
    BY <1>1
  <1>2. ASSUME NEW s \in Servers, OnTimer5s(s)
        PROVE  \/ ReadNewGmCommand(s)
               \/ BeginUpdate(s) \/ BeginSave(s)
               \/ \E i \in Ids :
                    RejectCommand(s, i) \/ PendCommand(s, i) \/ TriggerCommand(s, i) \/ TickCommand(s, i)
               \/ \E i \in Ids : SaveCommand(s, i)
               \/ EndUpdate(s)
    BY <1>2, Zenon DEF OnTimer5s, UpdateGmCommand, RunCommand
  <1> QED BY <1>1, <1>2, Zenon DEF GmNext

(* SaveCommand changes no status in memory.                                  *)
LEMMA SaveMem ==
  ASSUME GmTypeOK, NEW s \in Servers, NEW i \in Ids, SaveCommand(s, i)
  PROVE  /\ mem' \in [Servers -> [Ids -> MemType]]
         /\ \A u \in Servers, j \in Ids :
              /\ mem'[u][j].status = mem[u][j].status /\ mem'[u][j].start = mem[u][j].start
              /\ IF u = s /\ j = i THEN ~mem'[u][j].dirty ELSE mem'[u][j] = mem[u][j]
  <1> DEFINE clean == [mem[s][i] EXCEPT !.dirty = FALSE]
  <1>1. mem' = [mem EXCEPT ![s] = [mem[s] EXCEPT ![i] = clean]]
    BY DEF SaveCommand
  <1>2. /\ clean \in MemType /\ clean.status = mem[s][i].status
        /\ clean.start = mem[s][i].start /\ clean.dirty = FALSE
    <2>1. mem[s][i] \in MemType
      BY DEF GmTypeOK
    <2> QED BY <2>1 DEF MemType
  <1> QED BY <1>1, <1>2 DEF GmTypeOK

(* EndUpdate and a crash only remove commands from memory.                   *)
LEMMA EndMem ==
  ASSUME GmTypeOK, NEW s \in Servers, EndUpdate(s) \/ Crash(s)
  PROVE  /\ mem' \in [Servers -> [Ids -> MemType]]
         /\ \A u \in Servers, i \in Ids : mem'[u][i].status \in {mem[u][i].status, "none"}
         /\ \A u \in Servers, i \in Ids : mem'[u][i] = mem[u][i] \/ mem'[u][i] = NotMem
  <1> DEFINE f == [i \in Ids |-> IF EndUpdate(s) /\ mem[s][i].status \notin Final THEN mem[s][i] ELSE NotMem]
  <1>1. mem' = [mem EXCEPT ![s] = f]
    BY DEF EndUpdate, Crash, GmTypeOK
  <1>2. /\ f \in [Ids -> MemType]
        /\ \A i \in Ids : f[i].status \in {mem[s][i].status, "none"} /\ f[i] \in {mem[s][i], NotMem}
    BY DEF GmTypeOK, MemType, NotMem, Status
  <1> HIDE DEF f
  <1> QED BY <1>1, <1>2 DEF GmTypeOK

(* Objects in memory keep belonging to commands for passports.               *)
LEMMA MemStays ==
  ASSUME GmTypeOK, UNCHANGED cmd,
         \A s \in Servers, i \in Ids : mem'[s][i].status \in {mem[s][i].status, "none"}
  PROVE  \A s \in Servers : \A i \in InMem(s)' : cmd'[i] # {} /\ (CmdOf(i).target)' = "passport"
  BY DEF GmTypeOK, InMem, CmdOf

(* Every step keeps the types.                                               *)
LEMMA TypeStep == ASSUME GmTypeOK, InvRow, [GmNext]_gmVars PROVE GmTypeOK'
  <1> DEFINE Mine == \A s \in Servers : \A i \in InMem(s) : cmd[i] # {} /\ CmdOf(i).target = "passport"
             Phase == {"down", "idle", "update", "run", "save"}
  <1>1. ASSUME NEW i \in Ids, NEW c \in Menu, Insert(i, c) PROVE GmTypeOK'
    <2>1. c.start \in Nat /\ c.end \in Nat
      BY GmAssumption
    <2>2. row' \in [Ids -> RowType] /\ cmd' \in [Ids -> {{}} \cup {{d} : d \in Menu}]
      BY <1>1, <2>1 DEF Insert, GmTypeOK, RowType, Status
    <2>3. \A j \in Ids : cmd[j] # {} => cmd'[j] = cmd[j]
      BY <1>1 DEF Insert, GmTypeOK
    <2>4. Mine'
      BY <1>1, <2>3 DEF Insert, GmTypeOK, InMem, CmdOf, pollVars
    <2> QED BY <1>1, <2>2, <2>4 DEF Insert, GmTypeOK, pollVars, roleVars, histVars
  <1>2. ASSUME NEW t \in 1 .. MaxTime, Tick(t) PROVE GmTypeOK'
    <2>1. now' \in Nat
      BY <1>2, GmAssumption DEF Tick
    <2>2. due' \in [Servers -> BOOLEAN]
      BY <1>2 DEF Tick
    <2>3. Mine'
      BY <1>2 DEF Tick, GmTypeOK, InMem, CmdOf
    <2> QED BY <1>2, <2>1, <2>2, <2>3 DEF Tick, GmTypeOK, roleVars, histVars
  <1>3. ASSUME NEW s \in Servers, InitGmCommand(s) \/ ReadNewGmCommand(s) PROVE GmTypeOK'
    <2>1. /\ mem' \in [Servers -> [Ids -> MemType]] /\ row' \in [Ids -> RowType]
          /\ maxId' \in [Servers -> Nat] /\ fails' \in Nat
      BY <1>3, LoadStep DEF LoadEffect
    <2>2. /\ UNCHANGED <<cmd, gmAuth, now, maxTime, dwTime, todo, roleVars, runs, applied>>
          /\ up' \in [Servers -> Phase]
          /\ due' \in [Servers -> BOOLEAN]
          /\ boots' \in Nat
      <3>1. CASE InitGmCommand(s)
        BY <3>1 DEF InitGmCommand, GmTypeOK
      <3>2. CASE ReadNewGmCommand(s)
        BY <3>2 DEF ReadNewGmCommand, GmTypeOK
      <3> QED BY <1>3, <3>1, <3>2
    <2>3. Mine'
      <3> SUFFICES ASSUME NEW u \in Servers, NEW i \in Ids, mem'[u][i].status # "none"
                   PROVE  cmd[i] # {} /\ CmdOf(i).target = "passport"
        BY <2>2 DEF InMem, CmdOf
      <3>1. \/ mem[u][i].status # "none"
            \/ row[i].status # "none" /\ CmdOf(i).target = "passport"
        BY <1>3, LoadStep DEF LoadEffect
      <3> QED BY <3>1 DEF GmTypeOK, InMem, InvRow
    <2> QED BY <2>1, <2>2, <2>3 DEF GmTypeOK, roleVars
  <1>4. ASSUME NEW s \in Servers, BeginUpdate(s) \/ BeginSave(s) PROVE GmTypeOK'
    <2>1. /\ UNCHANGED <<rowVars, due, maxId, maxTime, mem, roleVars, boots, runs, applied>>
          /\ dwTime' \in [Servers -> Nat] /\ fails' \in Nat
          /\ up' \in [Servers -> Phase]
          /\ todo' \in [Servers -> SUBSET Ids]
      <3>1. CASE BeginUpdate(s)
        <4>1. PICK t \in {now, 0} :
                /\ IF t = 0 THEN QueryFails ELSE UNCHANGED fails
                /\ IF t <= maxTime[s]
                     THEN up' = [up EXCEPT ![s] = "idle"] /\ UNCHANGED <<dwTime, todo>>
                     ELSE /\ up'     = [up EXCEPT ![s] = "run"]
                          /\ dwTime' = [dwTime EXCEPT ![s] = t]
                          /\ todo'   = [todo EXCEPT ![s] = InMem(s)]
          BY <3>1 DEF BeginUpdate
        <4>2. t \in Nat /\ InMem(s) \in SUBSET Ids
          BY DEF GmTypeOK, InMem
        <4>3. UNCHANGED <<rowVars, due, maxId, maxTime, mem, roleVars, boots, runs, applied>>
          BY <3>1 DEF BeginUpdate
        <4>4. fails' \in Nat
          BY <4>1 DEF QueryFails, GmTypeOK
        <4>5. up' \in [Servers -> Phase]
          BY <4>1 DEF GmTypeOK
        <4>6. dwTime' \in [Servers -> Nat]
          BY <4>1, <4>2 DEF GmTypeOK
        <4>7. todo' \in [Servers -> SUBSET Ids]
          BY <4>1, <4>2 DEF GmTypeOK
        <4> QED BY <4>3, <4>4, <4>5, <4>6, <4>7
      <3>2. CASE BeginSave(s)
        BY <3>2 DEF BeginSave, GmTypeOK, InMem, histVars
      <3> QED BY <1>4, <3>1, <3>2
    <2> QED BY <2>1 DEF GmTypeOK, InMem, CmdOf, rowVars, roleVars
  <1>5. ASSUME NEW s \in Servers, NEW i \in Ids,
               RejectCommand(s, i) \/ PendCommand(s, i) \/ TriggerCommand(s, i) \/ TickCommand(s, i)
        PROVE  GmTypeOK'
    <2>1. VisitEffect(s, i)
      BY <1>5, RunStep
    <2>2. Mine'
      <3> SUFFICES ASSUME NEW u \in Servers, NEW j \in Ids, mem'[u][j].status # "none"
                   PROVE  cmd[j] # {} /\ CmdOf(j).target = "passport"
        BY <2>1 DEF InMem, CmdOf, VisitEffect
      <3> QED BY <2>1 DEF VisitEffect, GmTypeOK, InMem
    <2> QED BY <1>5, <2>1, <2>2, RunStep DEF VisitEffect, GmTypeOK
  <1>6. ASSUME NEW s \in Servers, NEW i \in Ids, SaveCommand(s, i) PROVE GmTypeOK'
    <2>1. row' \in [Ids -> RowType]
      BY <1>6 DEF SaveCommand, GmTypeOK, RowType, MemType
    <2>2. fails' \in Nat
      BY <1>6 DEF SaveCommand, CountFailure, GmTypeOK
    <2>3. todo' \in [Servers -> SUBSET Ids]
      BY <1>6 DEF SaveCommand, Visit, GmTypeOK
    <2>4. /\ mem' \in [Servers -> [Ids -> MemType]]
          /\ \A u \in Servers, j \in Ids : mem'[u][j].status = mem[u][j].status
      BY <1>6, SaveMem
    <2>5. UNCHANGED <<cmd, gmAuth, now, up, due, maxId, maxTime, dwTime, roleVars, boots, runs, applied>>
      BY <1>6 DEF SaveCommand
    <2>6. Mine'
      BY <2>4, <2>5, MemStays
    <2> QED BY <2>1, <2>2, <2>3, <2>4, <2>5, <2>6 DEF GmTypeOK, roleVars
  <1>7. ASSUME NEW s \in Servers, EndUpdate(s) \/ Crash(s) PROVE GmTypeOK'
    <2>1. /\ mem' \in [Servers -> [Ids -> MemType]]
          /\ \A u \in Servers, i \in Ids : mem'[u][i].status \in {mem[u][i].status, "none"}
      BY <1>7, EndMem
    <2>2. UNCHANGED <<rowVars, roleVars, histVars>>
      BY <1>7 DEF EndUpdate, Crash
    <2>3. up' \in [Servers -> Phase] /\ due' \in [Servers -> BOOLEAN]
      <3>1. CASE EndUpdate(s)
        BY <3>1 DEF EndUpdate, GmTypeOK
      <3>2. CASE Crash(s)
        BY <3>2 DEF Crash, GmTypeOK
      <3> QED BY <1>7, <3>1, <3>2
    <2>4. maxId' \in [Servers -> Nat] /\ maxTime' \in [Servers -> Nat]
      <3>1. CASE EndUpdate(s)
        BY <3>1 DEF EndUpdate, GmTypeOK
      <3>2. CASE Crash(s)
        BY <3>2 DEF Crash, GmTypeOK
      <3> QED BY <1>7, <3>1, <3>2
    <2>5. dwTime' \in [Servers -> Nat] /\ todo' \in [Servers -> SUBSET Ids]
      <3>1. CASE EndUpdate(s)
        BY <3>1 DEF EndUpdate, GmTypeOK
      <3>2. CASE Crash(s)
        BY <3>2 DEF Crash, GmTypeOK
      <3> QED BY <1>7, <3>1, <3>2
    <2>6. Mine'
      BY <2>1, <2>2, MemStays DEF rowVars
    <2> QED BY <2>1, <2>2, <2>3, <2>4, <2>5, <2>6 DEF GmTypeOK, rowVars, roleVars, histVars
  <1>8. ASSUME NEW s \in Servers, NEW r \in Roles, HandleRole(s, r) PROVE GmTypeOK'
    BY <1>8 DEF HandleRole, ForRole, GmTypeOK, InMem, CmdOf, rowVars, pollVars, histVars
  <1>9. CASE UNCHANGED gmVars
    BY <1>9 DEF GmTypeOK, InMem, CmdOf, gmVars, rowVars, pollVars, roleVars, histVars
  <1> QED BY <1>1, <1>2, <1>3, <1>4, <1>5, <1>6, <1>7, <1>8, <1>9, NextCases

(* Rows change in Insert, in SaveCommand and when a command is refused.      *)
LEMMA RowStep == ASSUME GmTypeOK, InvRow, [GmNext]_gmVars PROVE InvRow'
  <1>1. ASSUME NEW i \in Ids, NEW c \in Menu, Insert(i, c) PROVE InvRow'
    BY <1>1 DEF Insert, InvRow, GmTypeOK
  <1>2. ASSUME NEW s \in Servers, InitGmCommand(s) \/ ReadNewGmCommand(s) PROVE InvRow'
    <2>1. UNCHANGED cmd
      BY <1>2 DEF InitGmCommand, ReadNewGmCommand
    <2>2. \A i \in Ids : row'[i].status = row[i].status \/ row[i].status # "none"
      BY <1>2, LoadStep DEF LoadEffect
    <2> QED BY <2>1, <2>2 DEF InvRow
  <1>3. ASSUME NEW s \in Servers, NEW i \in Ids, SaveCommand(s, i) PROVE InvRow'
    <2>1. UNCHANGED cmd
      BY <1>3 DEF SaveCommand
    <2>2. \A j \in Ids : row'[j] = row[j] \/ (j = i /\ row'[j].status = mem[s][i].status)
      BY <1>3 DEF SaveCommand, GmTypeOK
    <2>3. mem[s][i].status # "none" => cmd[i] # {}
      BY DEF GmTypeOK, InMem
    <2> QED BY <2>1, <2>2, <2>3 DEF InvRow
  <1>4. CASE UNCHANGED <<cmd, row>>
    BY <1>4 DEF InvRow
  <1>5. ASSUME NEW s \in Servers, NEW i \in Ids,
               RejectCommand(s, i) \/ PendCommand(s, i) \/ TriggerCommand(s, i) \/ TickCommand(s, i)
        PROVE  InvRow'
    BY <1>5, <1>4, RunStep DEF VisitEffect
  <1>6. ASSUME NEW s \in Servers,
               BeginUpdate(s) \/ BeginSave(s) \/ EndUpdate(s) \/ Crash(s) \/ \E r \in Roles : HandleRole(s, r)
        PROVE  InvRow'
    BY <1>6, <1>4 DEF BeginUpdate, BeginSave, EndUpdate, Crash, HandleRole, rowVars
  <1>7. ASSUME NEW t \in 1 .. MaxTime, Tick(t) PROVE InvRow'
    BY <1>7, <1>4 DEF Tick
  <1>8. CASE UNCHANGED gmVars
    BY <1>8, <1>4 DEF gmVars, rowVars
  <1> QED BY <1>1, <1>2, <1>3, <1>5, <1>6, <1>7, <1>8, NextCases

(* A command is loaded only with m_dwMaxHandledGmCommandId at or past it.    *)
LEMMA MemStep == ASSUME GmTypeOK, InvRow, InvMem, [GmNext]_gmVars PROVE InvMem'
  <1>1. CASE /\ UNCHANGED maxId
             /\ \A s \in Servers : up[s] # "down" => up'[s] # "down"
             /\ \A s \in Servers, i \in Ids : mem'[s][i].status # "none" => mem[s][i].status # "none"
    BY <1>1 DEF InvMem
  <1>2. ASSUME NEW i \in Ids, NEW c \in Menu, Insert(i, c) PROVE InvMem'
    BY <1>2, <1>1 DEF Insert, pollVars
  <1>3. ASSUME NEW t \in 1 .. MaxTime, Tick(t) PROVE InvMem'
    BY <1>3, <1>1 DEF Tick
  <1>4. ASSUME NEW s \in Servers, InitGmCommand(s) \/ ReadNewGmCommand(s) PROVE InvMem'
    <2>1. up'[s] # "down" /\ \A u \in Servers : u # s => up'[u] = up[u]
      BY <1>4 DEF InitGmCommand, ReadNewGmCommand, GmTypeOK
    <2> SUFFICES ASSUME NEW u \in Servers, NEW i \in Ids, mem'[u][i].status # "none"
                 PROVE  i <= maxId'[u] /\ up'[u] # "down"
      BY DEF InvMem
    <2>2. /\ maxId[u] <= maxId'[u] /\ maxId'[u] \in Nat
          /\ mem'[u][i] = mem[u][i] \/ (u = s /\ i <= maxId'[s])
      BY <1>4, LoadStep DEF LoadEffect
    <2>3. CASE mem'[u][i] = mem[u][i]
      <3>1. i <= maxId[u] /\ up[u] # "down"
        BY <2>3 DEF InvMem
      <3>2. maxId[u] \in Nat /\ i \in Nat
        BY GmAssumption DEF GmTypeOK, Ids
      <3> QED BY <2>1, <2>2, <3>1, <3>2
    <2> QED BY <2>1, <2>2, <2>3
  <1>5. ASSUME NEW s \in Servers, BeginUpdate(s) \/ BeginSave(s) PROVE InvMem'
    <2>1. \A u \in Servers : up[u] # "down" => up'[u] # "down"
      BY <1>5 DEF BeginUpdate, BeginSave, GmTypeOK
    <2>2. UNCHANGED <<maxId, mem>>
      BY <1>5 DEF BeginUpdate, BeginSave
    <2> QED BY <1>1, <2>1, <2>2
  <1>6. ASSUME NEW s \in Servers, NEW i \in Ids,
               RejectCommand(s, i) \/ PendCommand(s, i) \/ TriggerCommand(s, i) \/ TickCommand(s, i)
        PROVE  InvMem'
    BY <1>6, <1>1, RunStep DEF VisitEffect
  <1>7. ASSUME NEW s \in Servers, NEW i \in Ids, SaveCommand(s, i) PROVE InvMem'
    <2>1. UNCHANGED <<maxId, up>>
      BY <1>7 DEF SaveCommand
    <2> QED BY <1>7, <1>1, <2>1, SaveMem
  <1>8. ASSUME NEW s \in Servers, EndUpdate(s) PROVE InvMem'
    <2>1. UNCHANGED maxId /\ \A u \in Servers : up[u] # "down" => up'[u] # "down"
      BY <1>8 DEF EndUpdate, GmTypeOK
    <2> QED BY <1>8, <1>1, <2>1, EndMem
  <1>9. ASSUME NEW s \in Servers, Crash(s) PROVE InvMem'
    <2>1. \A i \in Ids : mem'[s][i].status = "none"
      BY <1>9 DEF Crash, NotMem, GmTypeOK
    <2>2. \A u \in Servers : u # s => mem'[u] = mem[u] /\ maxId'[u] = maxId[u] /\ up'[u] = up[u]
      BY <1>9 DEF Crash, GmTypeOK
    <2> QED BY <2>1, <2>2 DEF InvMem
  <1>10. ASSUME NEW s \in Servers, NEW r \in Roles, HandleRole(s, r) PROVE InvMem'
    BY <1>10, <1>1 DEF HandleRole, pollVars
  <1>11. CASE UNCHANGED gmVars
    BY <1>11, <1>1 DEF gmVars, pollVars
  <1> QED BY <1>2, <1>3, <1>4, <1>5, <1>6, <1>7, <1>8, <1>9, <1>10, <1>11, NextCases

(* What runs or is complete was applied: a status passes from the row to the *)
(* memory and back, and only TriggerCommand makes it up.                     *)
LEMMA AppliedStep == ASSUME GmTypeOK, InvRow, InvApplied, [GmNext]_gmVars PROVE InvApplied'
  <1>1. CASE /\ UNCHANGED runs
             /\ \A i \in Ids : row'[i].status \in {row[i].status, "new", "error"}
             /\ \A s \in Servers, i \in Ids : mem'[s][i].status \in {mem[s][i].status, row[i].status, "none"}
    BY <1>1 DEF InvApplied, RunningWasApplied
  <1>2. ASSUME NEW i \in Ids, NEW c \in Menu, Insert(i, c) PROVE InvApplied'
    <2>1. \A j \in Ids : row'[j].status \in {row[j].status, "new"}
      BY <1>2 DEF Insert, GmTypeOK
    <2> QED BY <1>2, <1>1, <2>1 DEF Insert, pollVars, histVars
  <1>3. ASSUME NEW s \in Servers, InitGmCommand(s) \/ ReadNewGmCommand(s) PROVE InvApplied'
    <2>1. UNCHANGED runs
      BY <1>3 DEF InitGmCommand, ReadNewGmCommand
    <2>2. /\ \A i \in Ids : row'[i].status \in {row[i].status, "error"}
          /\ \A u \in Servers, i \in Ids : mem'[u][i].status \in {mem[u][i].status, row[i].status}
      BY <1>3, LoadStep, CreateType DEF LoadEffect
    <2>3. \A i \in Ids : row'[i].status \in {row[i].status, "new", "error"}
      BY <2>2
    <2>4. \A u \in Servers, i \in Ids : mem'[u][i].status \in {mem[u][i].status, row[i].status, "none"}
      BY <2>2
    <2> QED BY <1>1, <2>1, <2>3, <2>4
  <1>4. ASSUME NEW s \in Servers, NEW i \in Ids,
               RejectCommand(s, i) \/ PendCommand(s, i) \/ TriggerCommand(s, i) \/ TickCommand(s, i)
        PROVE  InvApplied'
    <2>1. VisitEffect(s, i) /\ runs' \in [Ids -> Nat]
      BY <1>4, RunStep
    <2>2. ASSUME NEW j \in Ids PROVE runs[j] \in Nat /\ runs'[j] >= runs[j]
      <3>1. runs' = runs \/ runs' = [runs EXCEPT ![i] = @ + 1]
        BY <2>1 DEF VisitEffect
      <3>2. runs[j] \in Nat /\ runs \in [Ids -> Nat]
        BY DEF GmTypeOK
      <3>3. CASE runs' = runs
        BY <3>2, <3>3
      <3>4. CASE runs' = [runs EXCEPT ![i] = @ + 1]
        <4>1. runs'[j] = runs[j] \/ runs'[j] = runs[j] + 1
          BY <3>2, <3>4
        <4> QED BY <3>2, <4>1
      <3> QED BY <3>1, <3>3, <3>4
    <2>3. RunningWasApplied'
      BY <2>1, <2>2 DEF VisitEffect, InvApplied, RunningWasApplied
    <2>4. ASSUME NEW u \in Servers, NEW j \in Ids, mem'[u][j].status \in {"running", "complete"}
          PROVE  runs'[j] > 0
      <3>1. CASE u # s \/ j # i
        BY <2>1, <2>2, <2>4, <3>1 DEF VisitEffect, InvApplied
      <3>2. CASE u = s /\ j = i /\ mem[s][i].status = "running"
        <4>1. runs[i] > 0
          BY <3>2 DEF InvApplied
        <4> QED BY <2>1, <2>2, <3>2, <4>1
      <3>3. CASE u = s /\ j = i /\ runs' = [runs EXCEPT ![i] = @ + 1]
        BY <3>3 DEF GmTypeOK
      <3> QED BY <2>1, <2>4, <3>1, <3>2, <3>3 DEF VisitEffect
    <2> QED BY <2>3, <2>4 DEF InvApplied
  <1>5. ASSUME NEW s \in Servers, NEW i \in Ids, SaveCommand(s, i) PROVE InvApplied'
    <2>1. UNCHANGED runs
      BY <1>5 DEF SaveCommand
    <2>2. \A j \in Ids : row'[j] = row[j] \/ (j = i /\ row'[j].status = mem[s][i].status)
      BY <1>5 DEF SaveCommand, GmTypeOK
    <2>3. \A u \in Servers, j \in Ids : mem'[u][j].status = mem[u][j].status
      BY <1>5, SaveMem
    <2> QED BY <2>1, <2>2, <2>3 DEF InvApplied, RunningWasApplied
  <1>6. ASSUME NEW s \in Servers, EndUpdate(s) \/ Crash(s) PROVE InvApplied'
    <2>1. UNCHANGED <<row, runs>>
      BY <1>6 DEF EndUpdate, Crash, rowVars, histVars
    <2> QED BY <1>6, <1>1, <2>1, EndMem
  <1>7. CASE UNCHANGED <<row, mem, runs>>
    BY <1>7, <1>1
  <1>8. ASSUME NEW s \in Servers, BeginUpdate(s) \/ BeginSave(s) \/ \E r \in Roles : HandleRole(s, r)
        PROVE  InvApplied'
    BY <1>8, <1>7 DEF BeginUpdate, BeginSave, HandleRole, rowVars, pollVars, histVars
  <1>9. ASSUME NEW t \in 1 .. MaxTime, Tick(t) PROVE InvApplied'
    BY <1>9, <1>7 DEF Tick, histVars
  <1>10. CASE UNCHANGED gmVars
    BY <1>10, <1>7 DEF gmVars, rowVars, pollVars, histVars
  <1> QED BY <1>2, <1>3, <1>4, <1>5, <1>6, <1>8, <1>9, <1>10, NextCases

(* What a set of servers, such as MayTrigger(i), and a subset of it count.   *)
LEMMA MayCount ==
  ASSUME NEW A \in SUBSET Servers, NEW B \in SUBSET A
  PROVE  /\ Cardinality(A) \in Nat /\ Cardinality(B) \in Nat
         /\ Cardinality(B) <= Cardinality(A)
         /\ \A s \in A : s \notin B => Cardinality(B) + 1 <= Cardinality(A)
         /\ \A s \in Servers : Cardinality(B \cup {s}) \in Nat /\ Cardinality(B \cup {s}) <= Cardinality(A) + 1
  <1>1. IsFiniteSet(A) /\ IsFiniteSet(B)
    BY FS_Subset, GmAssumption
  <1>2. /\ Cardinality(A) \in Nat /\ Cardinality(B) \in Nat
        /\ Cardinality(B) <= Cardinality(A)
    BY <1>1, FS_Subset, FS_CardinalityType
  <1>3. ASSUME NEW s \in A, s \notin B PROVE Cardinality(B) + 1 <= Cardinality(A)
    <2>1. B \subseteq A \ {s}
      BY <1>3
    <2>2. IsFiniteSet(A \ {s}) /\ Cardinality(A \ {s}) = Cardinality(A) - 1
      BY <1>1, FS_RemoveElement
    <2>3. Cardinality(B) <= Cardinality(A \ {s})
      BY <2>1, <2>2, FS_Subset
    <2> QED BY <1>2, <2>2, <2>3
  <1>4. ASSUME NEW s \in Servers
        PROVE  Cardinality(B \cup {s}) \in Nat /\ Cardinality(B \cup {s}) <= Cardinality(A) + 1
    <2>1. Cardinality(B \cup {s}) = IF s \in B THEN Cardinality(B) ELSE Cardinality(B) + 1
      BY <1>1, FS_AddElement
    <2> QED BY <1>2, <2>1
  <1> QED BY <1>2, <1>3, <1>4

(* No start and no trigger, and no server more that may trigger.             *)
LEMMA OnceKeeps ==
  ASSUME GmTypeOK, InvOnce, UNCHANGED <<boots, runs>>,
         \A i \in Ids : MayTrigger(i)' \subseteq MayTrigger(i)
  PROVE  InvOnce'
  <1> SUFFICES ASSUME NEW i \in Ids PROVE runs[i] + Cardinality(MayTrigger(i)') <= boots
    BY DEF InvOnce
  <1>1. MayTrigger(i) \in SUBSET Servers /\ MayTrigger(i)' \in SUBSET MayTrigger(i)
    BY DEF MayTrigger
  <1>2. /\ Cardinality(MayTrigger(i)) \in Nat /\ Cardinality(MayTrigger(i)') \in Nat
        /\ Cardinality(MayTrigger(i)') <= Cardinality(MayTrigger(i))
    BY <1>1, MayCount
  <1>3. runs[i] + Cardinality(MayTrigger(i)) <= boots /\ runs[i] \in Nat /\ boots \in Nat
    BY DEF InvOnce, GmTypeOK
  <1> QED BY <1>2, <1>3

(* A start makes room for one more trigger of each command; a trigger takes  *)
(* the server out of those that may.                                         *)
LEMMA OnceStep == ASSUME GmTypeOK, InvRow, InvMem, InvOnce, [GmNext]_gmVars PROVE InvOnce'
  <1>1. CASE /\ UNCHANGED <<boots, runs, maxId>>
             /\ \A s \in Servers : up'[s] # "down" => up[s] # "down"
             /\ \A s \in Servers, i \in Ids : mem'[s][i].status \in {mem[s][i].status, "none"}
    <2>1. ASSUME NEW i \in Ids PROVE MayTrigger(i)' \subseteq MayTrigger(i)
      BY <1>1 DEF MayTrigger
    <2> QED BY <1>1, <2>1, OnceKeeps
  <1>2. ASSUME NEW i \in Ids, NEW c \in Menu, Insert(i, c) PROVE InvOnce'
    BY <1>2, <1>1 DEF Insert, pollVars, histVars
  <1>3. ASSUME NEW t \in 1 .. MaxTime, Tick(t) PROVE InvOnce'
    BY <1>3, <1>1 DEF Tick, histVars
  <1>4. ASSUME NEW s \in Servers, InitGmCommand(s) PROVE InvOnce'
    <2> SUFFICES ASSUME NEW i \in Ids PROVE runs'[i] + Cardinality(MayTrigger(i)') <= boots'
      BY DEF InvOnce
    <2> DEFINE B == MayTrigger(i)' \ {s}
    <2>1. MayTrigger(i) \in SUBSET Servers /\ B \in SUBSET MayTrigger(i)
      <3>1. ASSUME NEW u \in B PROVE u \in MayTrigger(i)
        <4>1. u \in Servers /\ u # s /\ up'[u] # "down"
              /\ (i > maxId'[u] \/ mem'[u][i].status \in {"new", "pending"})
          BY DEF MayTrigger
        <4>2. up'[u] = up[u]
          BY <1>4, <4>1 DEF InitGmCommand, GmTypeOK
        <4>4. maxId'[u] = maxId[u]
          BY <1>4, <4>1, LoadStep DEF LoadEffect
        <4>3. mem'[u][i] = mem[u][i]
          BY <1>4, <4>1, LoadStep DEF LoadEffect
        <4> QED BY <4>1, <4>2, <4>3, <4>4 DEF MayTrigger
      <3> QED BY <3>1 DEF MayTrigger
    <2>2. MayTrigger(i)' = B \/ MayTrigger(i)' = B \cup {s}
      OBVIOUS
    <2>3. /\ Cardinality(MayTrigger(i)) \in Nat /\ Cardinality(MayTrigger(i)') \in Nat
          /\ Cardinality(MayTrigger(i)') <= Cardinality(MayTrigger(i)) + 1
      <3> HIDE DEF B
      <3>1. /\ Cardinality(MayTrigger(i)) \in Nat /\ Cardinality(B) \in Nat
            /\ Cardinality(B) <= Cardinality(MayTrigger(i))
            /\ Cardinality(B \cup {s}) \in Nat /\ Cardinality(B \cup {s}) <= Cardinality(MayTrigger(i)) + 1
        BY <2>1, MayCount
      <3>2. Cardinality(B) <= Cardinality(MayTrigger(i)) + 1
        BY <3>1
      <3>3. CASE MayTrigger(i)' = B
        BY <3>1, <3>2, <3>3, Zenon
      <3>4. CASE MayTrigger(i)' = B \cup {s}
        BY <3>1, <3>4, Zenon
      <3> QED BY <2>2, <3>3, <3>4
    <2>4. runs' = runs /\ boots' = boots + 1
      BY <1>4 DEF InitGmCommand
    <2>5. runs[i] + Cardinality(MayTrigger(i)) <= boots /\ runs[i] \in Nat /\ boots \in Nat
      BY DEF InvOnce, GmTypeOK
    <2> QED BY <2>3, <2>4, <2>5
  <1>5. ASSUME NEW s \in Servers, ReadNewGmCommand(s) PROVE InvOnce'
    <2>1. UNCHANGED <<boots, runs>> /\ up[s] = "idle"
      BY <1>5 DEF ReadNewGmCommand
    <2>2. ASSUME NEW i \in Ids, NEW u \in MayTrigger(i)' PROVE u \in MayTrigger(i)
      <3>1. u \in Servers /\ up'[u] # "down" /\ (i > maxId'[u] \/ mem'[u][i].status \in {"new", "pending"})
        BY <2>2 DEF MayTrigger
      <3>2. up[u] # "down"
        BY <1>5, <2>1, <3>1 DEF ReadNewGmCommand, GmTypeOK
      <3>3. maxId[u] <= maxId'[u] /\ maxId[u] \in Nat /\ maxId'[u] \in Nat /\ i \in Nat
        <4>1. maxId' \in [Servers -> Nat] /\ maxId[u] <= maxId'[u]
          BY <1>5, <3>1, LoadStep DEF LoadEffect
        <4> QED BY <3>1, <4>1, GmAssumption DEF GmTypeOK, Ids
      <3>4. mem'[u][i] = mem[u][i] \/ (u = s /\ i > maxId[s])
        BY <1>5, <3>1, LoadStep DEF LoadEffect
      <3> QED BY <3>1, <3>2, <3>3, <3>4 DEF MayTrigger
    <2> QED BY <2>1, <2>2, OnceKeeps
  <1>6. ASSUME NEW s \in Servers, BeginUpdate(s) \/ BeginSave(s) PROVE InvOnce'
    <2>1. \A u \in Servers : up'[u] # "down" => up[u] # "down"
      BY <1>6 DEF BeginUpdate, BeginSave, GmTypeOK
    <2> QED BY <1>6, <1>1, <2>1 DEF BeginUpdate, BeginSave, histVars
  <1>7. ASSUME NEW s \in Servers, NEW i \in Ids,
               RejectCommand(s, i) \/ PendCommand(s, i) \/ TriggerCommand(s, i) \/ TickCommand(s, i)
        PROVE  InvOnce'
    <2>1. VisitEffect(s, i)
      BY <1>7, RunStep
    <2>2. ASSUME NEW j \in Ids, NEW u \in MayTrigger(j)' PROVE u \in MayTrigger(j)
      BY <2>1, <2>2 DEF VisitEffect, MayTrigger
    <2>3. CASE runs' = runs
      BY <2>1, <2>2, <2>3, OnceKeeps DEF VisitEffect
    <2>4. CASE /\ runs' = [runs EXCEPT ![i] = @ + 1]
               /\ mem[s][i].status \in {"new", "pending"} /\ mem'[s][i].status # "pending"
      <3> SUFFICES ASSUME NEW j \in Ids PROVE runs'[j] + Cardinality(MayTrigger(j)') <= boots'
        BY DEF InvOnce
      <3>1. MayTrigger(j) \in SUBSET Servers /\ MayTrigger(j)' \in SUBSET MayTrigger(j)
        BY <2>2 DEF MayTrigger
      <3>2. runs[j] + Cardinality(MayTrigger(j)) <= boots /\ runs[j] \in Nat /\ boots \in Nat /\ boots' = boots
        BY <2>1 DEF InvOnce, GmTypeOK, VisitEffect
      <3>3. /\ Cardinality(MayTrigger(j)) \in Nat /\ Cardinality(MayTrigger(j)') \in Nat
            /\ Cardinality(MayTrigger(j)') <= Cardinality(MayTrigger(j))
        BY <3>1, MayCount
      <3>4. CASE j # i
        <4>1. runs'[j] = runs[j]
          BY <2>4, <3>4 DEF GmTypeOK
        <4> QED BY <3>2, <3>3, <4>1
      <3>5. CASE j = i
        <4>1. runs'[j] = runs[j] + 1
          BY <2>4, <3>5 DEF GmTypeOK
        <4>2. i <= maxId[s] /\ up[s] # "down"
          BY <2>4 DEF InvMem
        <4>3. s \in MayTrigger(i)
          BY <2>4, <4>2 DEF MayTrigger
        <4>4. s \notin MayTrigger(i)'
          <5>1. maxId' = maxId /\ mem'[s][i].status \in {"running", "complete", "error"}
            BY <2>1, <2>4 DEF VisitEffect
          <5>2. maxId[s] \in Nat /\ i \in Nat
            BY GmAssumption DEF GmTypeOK, Ids
          <5> QED BY <4>2, <5>1, <5>2 DEF MayTrigger
        <4>5. Cardinality(MayTrigger(j)') + 1 <= Cardinality(MayTrigger(j))
          BY <3>1, <3>5, <4>3, <4>4, MayCount
        <4> QED BY <3>2, <3>3, <4>1, <4>5
      <3> QED BY <3>4, <3>5
    <2> QED BY <2>1, <2>3, <2>4 DEF VisitEffect
  <1>8. ASSUME NEW s \in Servers, NEW i \in Ids, SaveCommand(s, i) PROVE InvOnce'
    <2>1. UNCHANGED <<boots, runs, maxId, up>>
      BY <1>8 DEF SaveCommand
    <2> QED BY <1>8, <1>1, <2>1, SaveMem
  <1>9. ASSUME NEW s \in Servers, EndUpdate(s) PROVE InvOnce'
    <2>1. UNCHANGED <<boots, runs, maxId>> /\ \A u \in Servers : up'[u] # "down" => up[u] # "down"
      BY <1>9 DEF EndUpdate, histVars, GmTypeOK
    <2> QED BY <1>9, <1>1, <2>1, EndMem
  <1>10. ASSUME NEW s \in Servers, Crash(s) PROVE InvOnce'
    <2>1. UNCHANGED <<boots, runs>>
      BY <1>10 DEF Crash, histVars
    <2>2. ASSUME NEW i \in Ids, NEW u \in MayTrigger(i)' PROVE u \in MayTrigger(i)
      BY <1>10, <2>2 DEF Crash, MayTrigger, GmTypeOK
    <2> QED BY <2>1, <2>2, OnceKeeps
  <1>11. ASSUME NEW s \in Servers, NEW r \in Roles, HandleRole(s, r) PROVE InvOnce'
    BY <1>11, <1>1 DEF HandleRole, pollVars, histVars
  <1>12. CASE UNCHANGED gmVars
    BY <1>12, <1>1 DEF gmVars, pollVars, histVars
  <1> QED BY <1>2, <1>3, <1>4, <1>5, <1>6, <1>7, <1>8, <1>9, <1>10, <1>11, <1>12, NextCases

(* Initially nothing is inserted, no server runs and nothing was applied.    *)
LEMMA InitIInv == GmInit => IInv
  <1> SUFFICES ASSUME GmInit PROVE IInv
    OBVIOUS
  <1>1. GmTypeOK
    BY DEF GmInit, GmTypeOK, InMem, RowType, MemType, NoRow, NotMem, Status
  <1>2. InvRow /\ InvMem /\ InvApplied
    BY DEF GmInit, InvRow, InvMem, InvApplied, RunningWasApplied, NoRow, NotMem
  <1>3. InvOnce
    <2>1. \A i \in Ids : MayTrigger(i) = {}
      BY DEF GmInit, MayTrigger
    <2>2. Cardinality({}) = 0
      BY FS_EmptySet
    <2>3. \A i \in Ids : Cardinality(MayTrigger(i)) = 0
      BY <2>1, <2>2, Zenon
    <2> QED BY <2>3 DEF GmInit, InvOnce
  <1> QED BY <1>1, <1>2, <1>3 DEF IInv

(* The inductive invariant holds in every reachable state.                   *)
THEOREM GmInvariance == GmSpec => []IInv
  <1>1. IInv /\ [GmNext]_gmVars => IInv'
    BY TypeStep, RowStep, MemStep, AppliedStep, OnceStep DEF IInv
  <1> QED BY InitIInv, <1>1, PTL DEF GmSpec

(* The variables of the model keep their types, and a login server keeps in  *)
(* memory only commands for passports (CheckTargetType).                     *)
THEOREM GmTypeCorrect == GmSpec => []GmTypeOK
  <1>1. IInv => GmTypeOK
    BY DEF IInv
  <1> QED BY <1>1, GmInvariance, PTL

(* A row that says running or complete was applied to the passport, for      *)
(* every number of servers, crashes and failed statements.                   *)
THEOREM AppliedBeforeRunning == GmSpec => []RunningWasApplied
  <1>1. IInv => RunningWasApplied
    BY DEF IInv, InvApplied
  <1> QED BY <1>1, GmInvariance, PTL

(* No command is triggered more often than login servers were started.       *)
THEOREM AtMostOncePerBoot == GmSpec => []OncePerBoot
  <1>1. IInv => OncePerBoot
    <2> SUFFICES ASSUME IInv, NEW i \in Ids PROVE runs[i] <= boots
      BY DEF OncePerBoot
    <2>1. MayTrigger(i) \in SUBSET Servers
      BY DEF MayTrigger
    <2>2. Cardinality(MayTrigger(i)) \in Nat
      BY <2>1, MayCount
    <2> QED BY <2>2 DEF IInv, InvOnce, GmTypeOK
  <1> QED BY <1>1, GmInvariance, PTL

-----------------------------------------------------------------------------
(* One login server.  What the run gm_forward checks does not hold for two:  *)
(* each of them writes what it has in memory.                                *)
OneServer == \A s, u \in Servers : s = u

\* a may become b: the status moves on, and a final one stays.
Ahead(a, b) == Rank(a) <= Rank(b) /\ (a \in Final => b = a)

\* The command in memory is ahead of its row, and of a kind Create knows.
InvAhead ==
  \A s \in Servers, i \in Ids :
    /\ mem[s][i].status # "none" => Ahead(row[i].status, mem[s][i].status) /\ Supported(CmdOf(i))
    /\ mem[s][i].dirty => mem[s][i].status # "none"

LEMMA AheadFacts ==
  /\ \A a \in Status \cup {"none"} : Ahead(a, a) /\ Ahead("none", a)
  /\ \A a, b, c \in Status \cup {"none"} : Ahead(a, b) /\ Ahead(b, c) => Ahead(a, c)
  /\ \A a, b \in Status :
       Ahead(a, b) <=> \/ a = "new"
                       \/ a = "pending" /\ b # "new"
                       \/ a = "running" /\ b \notin {"new", "pending"}
                       \/ a = b
  BY DEF Ahead, Rank, Final, Status

(* SaveCommand writes what is in memory, if it changed.                      *)
LEMMA SaveRow ==
  ASSUME GmTypeOK, InvAhead, NEW s \in Servers, NEW i \in Ids, SaveCommand(s, i)
  PROVE  /\ \A j \in Ids : j # i => row'[j] = row[j]
         /\ \/ row'[i] = row[i]
            \/ /\ mem[s][i].status # "none"
               /\ row'[i].status = mem[s][i].status /\ row'[i].start = mem[s][i].start
         /\ fails' = 0 /\ mem[s][i].dirty =>
              row'[i].status = mem[s][i].status /\ row'[i].start = mem[s][i].start
  <1>1. PICK o \in Outcomes :
          /\ CountFailure(o)
          /\ row' = IF mem[s][i].dirty /\ o # "failed"
                      THEN [row EXCEPT ![i] = [status |-> mem[s][i].status, start |-> mem[s][i].start,
                                               end |-> mem[s][i].end]]
                      ELSE row
    BY DEF SaveCommand
  <1>2. fails' = 0 => o = "done"
    BY <1>1 DEF CountFailure, GmTypeOK
  <1>3. mem[s][i].dirty => mem[s][i].status # "none"
    BY DEF InvAhead
  <1>4. row \in [Ids -> RowType]
    BY DEF GmTypeOK
  <1>5. CASE mem[s][i].dirty /\ o # "failed"
    BY <1>1, <1>3, <1>4, <1>5
  <1>6. CASE ~(mem[s][i].dirty /\ o # "failed")
    BY <1>1, <1>2, <1>6
  <1> QED BY <1>5, <1>6

(* A command moves on in memory, and its row only to where memory is.        *)
LEMMA AheadStep ==
  ASSUME OneServer, GmTypeOK, InvRow, InvAhead, [GmNext]_gmVars
  PROVE  /\ InvAhead'
         /\ \A i \in Ids : Ahead(row[i].status, row'[i].status)
  <1> DEFINE Goal == InvAhead' /\ \A i \in Ids : Ahead(row[i].status, row'[i].status)
  <1>0. /\ \A i \in Ids : row[i].status \in Status \cup {"none"}
        /\ \A s \in Servers, i \in Ids : mem[s][i] \in MemType /\ mem[s][i].status \in Status \cup {"none"}
    BY DEF GmTypeOK, RowType, MemType
  <1>1. CASE /\ UNCHANGED <<cmd, row>>
             /\ \A s \in Servers, i \in Ids :
                  \/ mem'[s][i] = mem[s][i]
                  \/ mem'[s][i] = NotMem
    <2>1. InvAhead'
      BY <1>1 DEF InvAhead, CmdOf, NotMem
    <2> QED BY <1>0, <1>1, <2>1, AheadFacts
  <1>2. ASSUME NEW i \in Ids, NEW c \in Menu, Insert(i, c) PROVE Goal
    <2>1. /\ cmd[i] = {} /\ UNCHANGED mem
          /\ \A j \in Ids \ {i} : cmd'[j] = cmd[j] /\ row'[j] = row[j]
      BY <1>2 DEF Insert, GmTypeOK, pollVars
    <2>2. row[i].status = "none" /\ row'[i].status \in Status
      BY <1>2, <2>1 DEF Insert, InvRow, GmTypeOK, Status
    <2>3. \A s \in Servers : mem[s][i].status = "none"
      BY <2>1 DEF GmTypeOK, InMem
    <2>4. InvAhead'
      BY <2>1, <2>3 DEF InvAhead, CmdOf
    <2> QED BY <1>0, <2>1, <2>2, <2>4, AheadFacts
  <1>3. ASSUME NEW s \in Servers, InitGmCommand(s) \/ ReadNewGmCommand(s) PROVE Goal
    <2>1. LoadEffect(s) /\ UNCHANGED cmd
      BY <1>3, LoadStep DEF InitGmCommand, ReadNewGmCommand
    <2>2. \A i \in Ids : Ahead(row[i].status, row'[i].status)
      BY <1>0, <2>1, AheadFacts DEF LoadEffect, Status
    <2>3. ASSUME NEW u \in Servers, NEW i \in Ids, mem'[u][i] # mem[u][i]
          PROVE  /\ mem'[u][i].status = row[i].status /\ mem'[u][i].status # "none"
                 /\ row'[i] = row[i] /\ Supported(CmdOf(i))
      BY <2>1, <2>3, CreateType DEF LoadEffect
    <2>4. ASSUME NEW u \in Servers, NEW i \in Ids, mem'[u][i].status # "none"
          PROVE  Ahead(row'[i].status, mem'[u][i].status) /\ Supported(CmdOf(i))
      <3>1. CASE mem'[u][i] = mem[u][i]
        <4>1. Ahead(row[i].status, mem[u][i].status) /\ Supported(CmdOf(i))
          BY <2>4, <3>1 DEF InvAhead
        <4>2. row'[i] = row[i]
          BY <2>1, <4>1 DEF LoadEffect
        <4> QED BY <3>1, <4>1, <4>2
      <3>2. CASE mem'[u][i] # mem[u][i]
        BY <1>0, <2>3, <3>2, AheadFacts
      <3> QED BY <3>1, <3>2
    <2>5. InvAhead'
      BY <2>1, <2>3, <2>4 DEF InvAhead, CmdOf
    <2> QED BY <2>2, <2>5
  <1>4. ASSUME NEW s \in Servers, NEW i \in Ids,
               RejectCommand(s, i) \/ PendCommand(s, i) \/ TriggerCommand(s, i) \/ TickCommand(s, i)
        PROVE  Goal
    <2>1. VisitEffect(s, i)
      BY <1>4, RunStep
    <2>2. Ahead(row[i].status, mem'[s][i].status) /\ mem'[s][i].status # "none"
      <3>1. Ahead(row[i].status, mem[s][i].status)
        BY <2>1 DEF VisitEffect, InvAhead
      <3>2. Ahead(mem[s][i].status, mem'[s][i].status)
        BY <2>1, AheadFacts DEF VisitEffect, Status
      <3>3. mem'[s][i].status \in Status
        BY <2>1 DEF VisitEffect, Status
      <3> QED BY <1>0, <2>1, <3>1, <3>2, <3>3, AheadFacts DEF VisitEffect
    <2>3. \A u \in Servers, j \in Ids : u # s \/ j # i => mem'[u][j] = mem[u][j]
      BY <2>1 DEF VisitEffect
    <2>4. UNCHANGED <<cmd, row>> /\ Supported(CmdOf(i))
      BY <2>1 DEF VisitEffect, InvAhead
    <2>5. InvAhead'
      BY <2>2, <2>3, <2>4 DEF InvAhead, CmdOf
    <2> QED BY <1>0, <2>4, <2>5, AheadFacts
  <1>5. ASSUME NEW s \in Servers, NEW i \in Ids, SaveCommand(s, i) PROVE Goal
    <2>1. /\ \A u \in Servers, j \in Ids : mem'[u][j].status = mem[u][j].status
          /\ \A u \in Servers, j \in Ids : mem'[u][j].dirty => mem[u][j].dirty
          /\ UNCHANGED cmd
      BY <1>5, SaveMem DEF SaveCommand
    <2>2. /\ \A j \in Ids : j # i => row'[j] = row[j]
          /\ \/ row'[i] = row[i]
             \/ mem[s][i].status # "none" /\ row'[i].status = mem[s][i].status
      BY <1>5, SaveRow
    <2>3. \A j \in Ids : Ahead(row[j].status, row'[j].status)
      BY <1>0, <2>2, AheadFacts DEF InvAhead
    <2>4. ASSUME NEW u \in Servers, NEW j \in Ids, mem[u][j].status # "none"
          PROVE  Ahead(row'[j].status, mem[u][j].status)
      <3>1. u = s
        BY DEF OneServer
      <3> QED BY <1>0, <2>2, <2>4, <3>1, AheadFacts DEF InvAhead
    <2>5. InvAhead'
      BY <2>1, <2>4 DEF InvAhead, CmdOf
    <2> QED BY <2>3, <2>5
  <1>6. ASSUME NEW s \in Servers, EndUpdate(s) \/ Crash(s) PROVE Goal
    <2>1. UNCHANGED <<cmd, row>>
      BY <1>6 DEF EndUpdate, Crash, rowVars
    <2> QED BY <1>6, <1>1, <2>1, EndMem
  <1>7. CASE UNCHANGED <<cmd, row, mem>>
    BY <1>7, <1>1
  <1>8. ASSUME NEW s \in Servers, BeginUpdate(s) \/ BeginSave(s) \/ \E r \in Roles : HandleRole(s, r)
        PROVE  Goal
    BY <1>8, <1>7 DEF BeginUpdate, BeginSave, HandleRole, rowVars, pollVars
  <1>9. ASSUME NEW t \in 1 .. MaxTime, Tick(t) PROVE Goal
    BY <1>9, <1>7 DEF Tick
  <1>10. CASE UNCHANGED gmVars
    BY <1>10, <1>7 DEF gmVars, rowVars, pollVars
  <1> QED BY <1>2, <1>3, <1>4, <1>5, <1>6, <1>8, <1>9, <1>10, NextCases

LEMMA InitAhead == GmInit => InvAhead
  BY DEF GmInit, InvAhead, NotMem

(* With one login server the status of a row only moves on, whatever fails,  *)
(* however often the server crashes and wherever the clock is set.           *)
THEOREM StatusMovesForward == ASSUME OneServer PROVE GmSpec => StatusForward
  <1>1. IInv /\ InvAhead /\ [GmNext]_gmVars => InvAhead'
    BY AheadStep DEF IInv
  <1>2. IInv /\ InvAhead /\ [GmNext]_gmVars =>
          [\A i \in Ids :
             /\ Rank(row[i].status) <= Rank(row'[i].status)
             /\ row[i].status \in Final => row'[i].status = row[i].status]_gmVars
    BY AheadStep DEF IInv, Ahead
  <1> QED BY InitAhead, GmInvariance, <1>1, <1>2, PTL DEF GmSpec, StatusForward

-----------------------------------------------------------------------------
(* One login server and a clock that is not set back: what HandlerGmCommand- *)
(* Role promises to a role that keeps the time it was given.                 *)

\* What a visit of UpdateGmCommand's first loop does to the times.
VisitTimes(s, i) ==
  /\ up[s] = "run" /\ Visit(s, i)
  /\ mem'[s][i].dirty \/ mem'[s][i] = mem[s][i]
  /\ mem'[s][i].status = "pending" =>
       /\ mem'[s][i].start = IF mem[s][i].start = 0 THEN dwTime[s] ELSE mem[s][i].start
       /\ dwTime[s] <= mem'[s][i].start
  /\ mem[s][i].status = "running" =>
       /\ UNCHANGED saw /\ mem'[s][i].status \in {"running", "complete"}
       /\ mem[s][i].start # 0 => mem'[s][i].start = mem[s][i].start
  /\ mem[s][i].status # "running" /\ mem'[s][i].status \in {"running", "complete"} =>
       /\ mem'[s][i].start = dwTime[s]
       /\ mem[s][i].start # 0 /\ mem[s][i].start < dwTime[s]
       /\ \A r \in Roles : i \notin saw'[r]
  /\ \A r \in Roles : saw'[r] \in {saw[r], saw[r] \ {i}}

LEMMA TimesStep ==
  ASSUME GmTypeOK, NEW s \in Servers, NEW i \in Ids,
         RejectCommand(s, i) \/ PendCommand(s, i) \/ TriggerCommand(s, i) \/ TickCommand(s, i)
  PROVE  VisitTimes(s, i)
  <1> DEFINE t == dwTime[s]
             old == mem[s][i]
             m == Scheduled(old, t)
             c == CmdOf(i)
  <1>1. t \in Nat /\ old \in MemType
    BY DEF GmTypeOK
  <1>2. /\ m \in MemType /\ m.status = old.status
        /\ m.start = IF old.start = 0 THEN t ELSE old.start
    BY <1>1 DEF Scheduled, MemType
  <1>3. ASSUME NEW w, SetMem(s, i, w)
        PROVE  mem'[s][i] = [w EXCEPT !.dirty = old.dirty \/ w # old]
    BY <1>3 DEF SetMem, GmTypeOK
  <1>4. ASSUME NEW w \in MemType, SetMem(s, i, w)
        PROVE  /\ mem'[s][i].status = w.status /\ mem'[s][i].start = w.start
               /\ mem'[s][i].dirty \/ mem'[s][i] = old
    <2>1. mem'[s][i] = [w EXCEPT !.dirty = old.dirty \/ w # old]
      BY <1>3, <1>4
    <2>2. CASE w = old
      BY <1>1, <2>1, <2>2 DEF MemType
    <2>3. CASE w # old
      BY <1>1, <2>1, <2>3 DEF MemType
    <2> QED BY <2>2, <2>3
  <1>5. up[s] = "run" /\ Visit(s, i)
    BY DEF RejectCommand, PendCommand, TriggerCommand, TickCommand
  <1>6. saw \in [Roles -> SUBSET Ids]
    BY DEF GmTypeOK
  <1> HIDE DEF m, c, old, t
  <1>7. CASE RejectCommand(s, i)
    <2>1. SetMem(s, i, [m EXCEPT !.status = "error"]) /\ old.status = "new" /\ UNCHANGED saw
      BY <1>2, <1>7 DEF RejectCommand, m, old, t, roleVars
    <2>2. [m EXCEPT !.status = "error"] \in MemType /\ [m EXCEPT !.status = "error"].status = "error"
      BY <1>2 DEF MemType, Status
    <2> QED BY <1>4, <1>5, <2>1, <2>2 DEF VisitTimes, old
  <1>8. CASE PendCommand(s, i)
    <2>1. /\ SetMem(s, i, Validated(m, c)) /\ old.status \in {"new", "pending"}
          /\ m.start >= t /\ UNCHANGED saw
      BY <1>8 DEF PendCommand, Waits, m, old, t, c, roleVars
    <2>2. Validated(m, c) \in MemType /\ Validated(m, c).status = "pending" /\ Validated(m, c).start = m.start
      <3>1. cmd[i] # {}
        BY <2>1 DEF GmTypeOK, InMem, old
      <3>2. c.param \in Nat
        BY <3>1, CmdType DEF c
      <3> QED BY <1>2, <2>1, <3>2 DEF Validated, MemType, Status
    <2>3. /\ mem'[s][i].status = "pending" /\ mem'[s][i].start = m.start
          /\ mem'[s][i].dirty \/ mem'[s][i] = old
      BY <1>4, <2>1, <2>2
    <2> QED BY <1>1, <1>2, <1>5, <2>1, <2>3 DEF VisitTimes, old, t
  <1>9. CASE TriggerCommand(s, i)
    <2> DEFINE w == Started(Validated(m, c), t)
    <2>1. old.status \in {"new", "pending"} /\ m.start < t /\ saw' = [r \in Roles |-> saw[r] \ {i}]
      BY <1>9 DEF TriggerCommand, Waits, old, m, t
    <2>2. PICK o \in Outcomes : SetMem(s, i, [w EXCEPT !.status = Triggered(w, t, o)])
      BY <1>9 DEF TriggerCommand, m, c, old, t
    <2>3. w \in MemType /\ w.start = t
      <3>1. cmd[i] # {}
        BY <2>1 DEF GmTypeOK, InMem, old
      <3>2. c.param \in Nat
        BY <3>1, CmdType DEF c
      <3> QED BY <1>1, <1>2, <2>1, <3>2 DEF Validated, Started, MemType, Status
    <2> HIDE DEF w
    <2>4. Triggered(w, t, o) \in {"running", "complete", "error"}
      BY DEF Triggered, Ended
    <2>5. /\ [w EXCEPT !.status = Triggered(w, t, o)] \in MemType
          /\ [w EXCEPT !.status = Triggered(w, t, o)].start = t
          /\ [w EXCEPT !.status = Triggered(w, t, o)].status \in {"running", "complete", "error"}
      BY <2>3, <2>4 DEF MemType, Status
    <2>6. /\ mem'[s][i].status \in {"running", "complete", "error"} /\ mem'[s][i].start = t
          /\ mem'[s][i].dirty \/ mem'[s][i] = old
      BY <1>4, <2>2, <2>5
    <2>7. old.start # 0 /\ old.start < t
      BY <1>1, <1>2, <2>1 DEF MemType
    <2> QED BY <1>5, <1>6, <2>1, <2>6, <2>7 DEF VisitTimes, old, t
  <1>10. CASE TickCommand(s, i)
    <2> DEFINE w == [m EXCEPT !.status = Ended(m, t)]
    <2>1. SetMem(s, i, w) /\ old.status = "running" /\ UNCHANGED saw
      BY <1>2, <1>10 DEF TickCommand, m, old, t, roleVars
    <2>2. w \in MemType /\ w.status \in {"running", "complete"} /\ w.start = m.start
      BY <1>2 DEF MemType, Status, Ended
    <2> HIDE DEF w
    <2>3. /\ mem'[s][i].status \in {"running", "complete"} /\ mem'[s][i].start = m.start
          /\ mem'[s][i].dirty \/ mem'[s][i] = old
      BY <1>4, <2>1, <2>2
    <2> QED BY <1>2, <1>5, <2>1, <2>3 DEF VisitTimes, old
  <1> QED BY <1>7, <1>8, <1>9, <1>10

\* The readings of the clock: no role has a time of the future, and a poll that
\* gets past its first lines does so at a time after that of every role.
InvTime ==
  /\ now > 0
  /\ \A r \in Roles : last[r] <= now
  /\ \A s \in Servers :
       /\ up[s] = "down" => ~due[s] /\ maxTime[s] = 0
       /\ maxTime[s] <= now /\ dwTime[s] <= now
       /\ up[s] \in {"run", "save"} => maxTime[s] < dwTime[s]
       /\ \A r \in Roles :
            /\ due[s] \/ up[s] = "update" => last[r] < now \/ last[r] <= maxTime[s]
            /\ up[s] \in {"run", "save"} => last[r] < dwTime[s]

\* Running since: not later than the time the poll goes by, and the same time
\* in memory as in the table.
InvStart ==
  /\ \A i \in Ids : row[i].status = "running" => row[i].start \in 1 .. now
  /\ \A s \in Servers, i \in Ids : mem[s][i].status = "running" =>
       /\ mem[s][i].start \in 1 .. now
       /\ up[s] \in {"idle", "update"} => mem[s][i].start <= maxTime[s] \/ maxTime[s] = 0
       /\ up[s] \in {"run", "save"} => mem[s][i].start <= dwTime[s]
       /\ row[i].status = "running" => row[i].start = mem[s][i].start

\* A role that has handled a running command has a time at or past its start.
InvGiven ==
  \A r \in Roles : \A i \in saw[r] :
    /\ row[i].status = "running" => row[i].start <= last[r]
    /\ \A s \in Servers : mem[s][i].status = "running" => mem[s][i].start <= last[r]

(* Ticks, polls and calls of HandlerGmCommandRole move the times.            *)
LEMMA TimeStep ==
  ASSUME OneServer, ~ClockSteps, GmTypeOK, InvTime, [GmNext]_gmVars
  PROVE  InvTime'
  <1> USE DEF InvTime, GmTypeOK
  <1>1. CASE UNCHANGED <<now, up, due, maxTime, dwTime, last>>
    BY <1>1
  <1>2. ASSUME NEW t \in 1 .. MaxTime, Tick(t) PROVE InvTime'
    <2>1. t > now /\ now' = t /\ t \in Nat
      BY <1>2, GmAssumption DEF Tick
    <2>2. /\ UNCHANGED <<up, maxTime, dwTime, last>>
          /\ \A s \in Servers : due'[s] => up[s] # "down"
      BY <1>2 DEF Tick, roleVars
    <2> QED BY <2>1, <2>2
  <1>3. ASSUME NEW s \in Servers, InitGmCommand(s) PROVE InvTime'
    <2>1. UNCHANGED <<now, due, maxTime, dwTime, last>> /\ up' = [up EXCEPT ![s] = "idle"]
      BY <1>3 DEF InitGmCommand, roleVars
    <2> QED BY <2>1
  <1>4. ASSUME NEW s \in Servers, ReadNewGmCommand(s) PROVE InvTime'
    <2>1. /\ UNCHANGED <<now, maxTime, dwTime, last>> /\ due[s]
          /\ up' = [up EXCEPT ![s] = "update"] /\ due' = [due EXCEPT ![s] = FALSE]
      BY <1>4 DEF ReadNewGmCommand, roleVars
    <2> QED BY <2>1
  <1>5. ASSUME NEW s \in Servers, BeginUpdate(s) PROVE InvTime'
    <2>1. PICK t \in {now, 0} :
            IF t <= maxTime[s]
              THEN up' = [up EXCEPT ![s] = "idle"] /\ UNCHANGED <<dwTime, todo>>
              ELSE /\ up'     = [up EXCEPT ![s] = "run"]
                   /\ dwTime' = [dwTime EXCEPT ![s] = t]
                   /\ todo'   = [todo EXCEPT ![s] = InMem(s)]
      BY <1>5 DEF BeginUpdate
    <2>2. UNCHANGED <<now, due, maxTime, last>> /\ up[s] = "update"
      BY <1>5 DEF BeginUpdate, rowVars, roleVars
    <2>3. CASE t <= maxTime[s]
      BY <2>1, <2>2, <2>3
    <2>4. CASE ~(t <= maxTime[s])
      <3>1. t = now /\ maxTime[s] < now
        BY <2>1, <2>4
      <3>2. \A r \in Roles : last[r] < now
        BY <2>2, <3>1
      <3>3. up' = [up EXCEPT ![s] = "run"] /\ dwTime' = [dwTime EXCEPT ![s] = now]
        BY <2>1, <2>4, <3>1
      <3> QED BY <2>2, <3>1, <3>2, <3>3
    <2> QED BY <2>3, <2>4
  <1>6. ASSUME NEW s \in Servers, BeginSave(s) PROVE InvTime'
    <2>1. /\ UNCHANGED <<now, due, maxTime, dwTime, last>> /\ up[s] = "run"
          /\ up' = [up EXCEPT ![s] = "save"]
      BY <1>6 DEF BeginSave, rowVars, roleVars
    <2> QED BY <2>1
  <1>7. ASSUME NEW s \in Servers, EndUpdate(s) PROVE InvTime'
    <2>1. /\ UNCHANGED <<now, due, dwTime, last>> /\ up[s] = "save"
          /\ up' = [up EXCEPT ![s] = "idle"] /\ maxTime' = [maxTime EXCEPT ![s] = dwTime[s]]
      BY <1>7 DEF EndUpdate, rowVars, roleVars
    <2> QED BY <2>1
  <1>8. ASSUME NEW s \in Servers, Crash(s) PROVE InvTime'
    <2>1. /\ UNCHANGED <<now, last>>
          /\ up' = [up EXCEPT ![s] = "down"] /\ due' = [due EXCEPT ![s] = FALSE]
          /\ maxTime' = [maxTime EXCEPT ![s] = 0] /\ dwTime' = [dwTime EXCEPT ![s] = 0]
      BY <1>8 DEF Crash, rowVars, roleVars
    <2> QED BY <2>1
  <1>9. ASSUME NEW s \in Servers, NEW r \in Roles, HandleRole(s, r) PROVE InvTime'
    <2>1. /\ UNCHANGED <<now, up, due, maxTime, dwTime>> /\ up[s] = "idle"
          /\ last' = [last EXCEPT ![r] = maxTime[s]]
      BY <1>9 DEF HandleRole, rowVars, pollVars
    <2>2. \A u \in Servers : u = s
      BY DEF OneServer
    <2> QED BY <2>1, <2>2
  <1>10. ASSUME NEW i \in Ids, NEW c \in Menu, Insert(i, c) PROVE InvTime'
    BY <1>10, <1>1 DEF Insert, pollVars, roleVars
  <1>11. ASSUME NEW s \in Servers, NEW i \in Ids,
                RejectCommand(s, i) \/ PendCommand(s, i) \/ TriggerCommand(s, i) \/ TickCommand(s, i)
         PROVE  InvTime'
    BY <1>11, <1>1, RunStep DEF VisitEffect
  <1>12. ASSUME NEW s \in Servers, NEW i \in Ids, SaveCommand(s, i) PROVE InvTime'
    BY <1>12, <1>1 DEF SaveCommand, roleVars
  <1>13. CASE UNCHANGED gmVars
    BY <1>13, <1>1 DEF gmVars, rowVars, pollVars, roleVars
  <1> HIDE DEF InvTime, GmTypeOK
  <1> QED BY <1>2, <1>3, <1>4, <1>5, <1>6, <1>7, <1>8, <1>9, <1>10, <1>11, <1>12, <1>13, NextCases

(* Running commands keep the time of their trigger.                          *)
LEMMA StartStep ==
  ASSUME OneServer, ~ClockSteps, GmTypeOK, InvRow, InvAhead, InvTime, InvStart, [GmNext]_gmVars
  PROVE  InvStart'
  <1>0. /\ now \in Nat /\ \A s \in Servers : maxTime[s] \in Nat /\ dwTime[s] \in Nat
        /\ \A i \in Ids : row[i] \in RowType /\ row[i].start \in Nat
        /\ \A s \in Servers, i \in Ids : mem[s][i] \in MemType /\ mem[s][i].start \in Nat
    BY DEF GmTypeOK, RowType, MemType
  <1>1. CASE UNCHANGED <<now, row, mem, up, maxTime, dwTime>>
    BY <1>1 DEF InvStart
  <1>2. ASSUME NEW i \in Ids, NEW c \in Menu, Insert(i, c) PROVE InvStart'
    <2>1. /\ UNCHANGED <<now, mem, up, maxTime, dwTime>>
          /\ \A j \in Ids : row'[j] = row[j] \/ row'[j].status = "new"
      BY <1>2 DEF Insert, pollVars, GmTypeOK
    <2> QED BY <2>1 DEF InvStart
  <1>3. ASSUME NEW t \in 1 .. MaxTime, Tick(t) PROVE InvStart'
    <2>1. t > now /\ now' = t /\ t \in Nat /\ UNCHANGED <<row, mem, up, maxTime, dwTime>>
      BY <1>3, GmAssumption DEF Tick
    <2> QED BY <1>0, <2>1 DEF InvStart
  <1>4. ASSUME NEW s \in Servers, InitGmCommand(s) \/ ReadNewGmCommand(s) PROVE InvStart'
    <2>1. /\ LoadEffect(s) /\ UNCHANGED <<now, maxTime, dwTime>>
          /\ up[s] \in {"down", "idle"} /\ up'[s] \in {"idle", "update"}
          /\ up[s] = "down" => InitGmCommand(s) /\ maxTime[s] = 0
          /\ up[s] = "idle" => ReadNewGmCommand(s)
      BY <1>4, LoadStep DEF InitGmCommand, ReadNewGmCommand, GmTypeOK, InvTime
    <2>2. \A i \in Ids : row'[i] = row[i] \/ row'[i].status = "error"
      BY <2>1 DEF LoadEffect
    <2>3. ASSUME NEW i \in Ids, mem'[s][i].status = "running", mem'[s][i] # mem[s][i]
          PROVE  /\ row[i].status = "running" /\ mem'[s][i].start = row[i].start
                 /\ up[s] = "down"
      BY <2>1, <2>3, CreateType DEF LoadEffect
    <2>4. ASSUME NEW u \in Servers, NEW i \in Ids, mem'[u][i].status = "running"
          PROVE  /\ mem'[u][i].start \in 1 .. now
                 /\ mem'[u][i].start <= maxTime[u] \/ maxTime[u] = 0
                 /\ row[i].status = "running" => row[i].start = mem'[u][i].start
      <3>1. u = s
        BY DEF OneServer
      <3>2. CASE mem'[s][i] = mem[s][i]
        <4>1. (mem[s][i].status = "running" /\ up[s] = "idle") \/ maxTime[s] = 0
          BY <2>1, <2>4, <3>1, <3>2
        <4> QED BY <2>4, <3>1, <3>2, <4>1 DEF InvStart
      <3>3. CASE mem'[s][i] # mem[s][i]
        <4>1. row[i].status = "running" /\ mem'[s][i].start = row[i].start /\ maxTime[s] = 0
          BY <2>1, <2>3, <2>4, <3>1, <3>3
        <4> QED BY <3>1, <4>1 DEF InvStart
      <3> QED BY <3>2, <3>3
    <2>5. \A u \in Servers : up'[u] \notin {"run", "save"}
      BY <2>1 DEF OneServer
    <2> QED BY <2>1, <2>2, <2>4, <2>5 DEF InvStart
  <1>5. ASSUME NEW s \in Servers, BeginUpdate(s) \/ BeginSave(s) PROVE InvStart'
    <2>1. /\ UNCHANGED <<now, row, mem, maxTime>> /\ \A u \in Servers : u = s
          /\ \/ up[s] = "update" /\ up'[s] = "idle" /\ UNCHANGED dwTime
             \/ up[s] = "update" /\ up'[s] = "run" /\ dwTime'[s] = now
             \/ up[s] = "run" /\ up'[s] = "save" /\ UNCHANGED dwTime
      <3>1. CASE BeginUpdate(s)
        <4>1. PICK t \in {now, 0} :
                IF t <= maxTime[s]
                  THEN up' = [up EXCEPT ![s] = "idle"] /\ UNCHANGED <<dwTime, todo>>
                  ELSE /\ up'     = [up EXCEPT ![s] = "run"]
                       /\ dwTime' = [dwTime EXCEPT ![s] = t]
                       /\ todo'   = [todo EXCEPT ![s] = InMem(s)]
          BY <3>1 DEF BeginUpdate
        <4>2. t = now \/ t <= maxTime[s]
          BY <1>0, <4>1
        <4> QED BY <3>1, <4>1, <4>2 DEF BeginUpdate, OneServer, rowVars, GmTypeOK
      <3>2. CASE BeginSave(s)
        BY <3>2 DEF BeginSave, OneServer, rowVars, GmTypeOK
      <3> QED BY <1>5, <3>1, <3>2
    <2> QED BY <1>0, <2>1 DEF InvStart
  <1>6. ASSUME NEW s \in Servers, NEW i \in Ids,
               RejectCommand(s, i) \/ PendCommand(s, i) \/ TriggerCommand(s, i) \/ TickCommand(s, i)
        PROVE  InvStart'
    <2>1. VisitEffect(s, i) /\ VisitTimes(s, i)
      BY <1>6, RunStep, TimesStep
    <2>2. UNCHANGED <<now, row, up, maxTime, dwTime>> /\ up[s] = "run" /\ maxTime[s] < dwTime[s] /\ dwTime[s] <= now
      BY <2>1 DEF VisitEffect, VisitTimes, InvTime
    <2>3. ASSUME mem'[s][i].status = "running", mem[s][i].status # "running"
          PROVE  mem'[s][i].start = dwTime[s] /\ row[i].status # "running"
      <3>1. mem[s][i].status \in {"new", "pending"} /\ Ahead(row[i].status, mem[s][i].status)
        BY <2>1, <2>3 DEF VisitEffect, InvAhead
      <3>2. row[i].status # "running"
        BY <3>1 DEF Ahead, Rank, Final
      <3> QED BY <2>1, <2>3, <3>2 DEF VisitTimes
    <2>4. ASSUME mem'[s][i].status = "running", mem[s][i].status = "running"
          PROVE  mem'[s][i].start = mem[s][i].start
      <3>1. mem[s][i].start # 0
        BY <2>4 DEF InvStart
      <3> QED BY <2>1, <2>4, <3>1 DEF VisitTimes
    <2>5. ASSUME NEW u \in Servers, NEW j \in Ids, mem'[u][j].status = "running"
          PROVE  /\ mem'[u][j].start \in 1 .. now
                 /\ up[u] \in {"idle", "update"} => mem'[u][j].start <= maxTime[u] \/ maxTime[u] = 0
                 /\ up[u] \in {"run", "save"} => mem'[u][j].start <= dwTime[u]
                 /\ row[j].status = "running" => row[j].start = mem'[u][j].start
      <3>1. CASE u # s \/ j # i
        <4>1. mem'[u][j] = mem[u][j]
          BY <2>1, <3>1 DEF VisitEffect
        <4> QED BY <2>5, <4>1 DEF InvStart
      <3>2. CASE u = s /\ j = i /\ mem[s][i].status = "running"
        BY <2>4, <2>5, <3>2 DEF InvStart
      <3>3. CASE u = s /\ j = i /\ mem[s][i].status # "running"
        BY <1>0, <2>2, <2>3, <2>5, <3>3
      <3> QED BY <3>1, <3>2, <3>3
    <2> QED BY <2>2, <2>5 DEF InvStart
  <1>7. ASSUME NEW s \in Servers, NEW i \in Ids, SaveCommand(s, i) PROVE InvStart'
    <2>1. /\ UNCHANGED <<now, up, maxTime, dwTime>> /\ \A u \in Servers : u = s
          /\ \A u \in Servers, j \in Ids :
               mem'[u][j].status = mem[u][j].status /\ mem'[u][j].start = mem[u][j].start
          /\ \A j \in Ids :
               \/ row'[j] = row[j]
               \/ row'[j].status = mem[s][j].status /\ row'[j].start = mem[s][j].start
      BY <1>7, SaveMem, SaveRow DEF SaveCommand, OneServer
    <2> QED BY <2>1 DEF InvStart
  <1>8. ASSUME NEW s \in Servers, EndUpdate(s) \/ Crash(s) PROVE InvStart'
    <2>1. /\ UNCHANGED <<now, row>> /\ \A u \in Servers : u = s
          /\ up'[s] = "down" \/ (up[s] = "save" /\ up'[s] = "idle" /\ maxTime'[s] = dwTime[s])
          /\ \A u \in Servers, j \in Ids : mem'[u][j] = mem[u][j] \/ mem'[u][j] = NotMem
      BY <1>8, EndMem DEF EndUpdate, Crash, rowVars, OneServer, GmTypeOK
    <2> QED BY <2>1 DEF InvStart, NotMem
  <1>9. ASSUME NEW s \in Servers, NEW r \in Roles, HandleRole(s, r) PROVE InvStart'
    BY <1>9, <1>1 DEF HandleRole, rowVars, pollVars
  <1>10. CASE UNCHANGED gmVars
    BY <1>10, <1>1 DEF gmVars, rowVars, pollVars
  <1> QED BY <1>2, <1>3, <1>4, <1>5, <1>6, <1>7, <1>8, <1>9, <1>10, NextCases

(* A role handles a command at the start of the trigger or later.            *)
LEMMA GivenStep ==
  ASSUME OneServer, ~ClockSteps, GmTypeOK, InvRow, InvAhead, InvTime, InvStart, InvGiven,
         [GmNext]_gmVars
  PROVE  InvGiven'
  <1>0. /\ \A r \in Roles : last[r] \in Nat /\ saw[r] \in SUBSET Ids
        /\ \A s \in Servers : maxTime[s] \in Nat
        /\ \A i \in Ids : row[i].start \in Nat
        /\ \A s \in Servers, i \in Ids : mem[s][i].start \in Nat
    BY DEF GmTypeOK, RowType, MemType
  <1>1. CASE UNCHANGED <<row, mem, last, saw>>
    BY <1>1 DEF InvGiven
  <1>2. ASSUME NEW i \in Ids, NEW c \in Menu, Insert(i, c) PROVE InvGiven'
    <2>1. /\ UNCHANGED <<mem, last, saw>>
          /\ \A j \in Ids : row'[j] = row[j] \/ row'[j].status = "new"
      BY <1>2 DEF Insert, pollVars, roleVars, GmTypeOK
    <2> QED BY <1>0, <2>1 DEF InvGiven
  <1>3. ASSUME NEW s \in Servers, InitGmCommand(s) \/ ReadNewGmCommand(s) PROVE InvGiven'
    <2>1. LoadEffect(s) /\ UNCHANGED <<last, saw>>
      BY <1>3, LoadStep DEF InitGmCommand, ReadNewGmCommand, roleVars
    <2>2. \A i \in Ids : row'[i] = row[i] \/ row'[i].status = "error"
      BY <2>1 DEF LoadEffect
    <2>3. \A u \in Servers, i \in Ids :
            \/ mem'[u][i] = mem[u][i]
            \/ mem'[u][i].status = row[i].status /\ mem'[u][i].start = row[i].start
      BY <2>1, CreateType DEF LoadEffect
    <2> QED BY <1>0, <2>1, <2>2, <2>3 DEF InvGiven
  <1>4. ASSUME NEW s \in Servers, NEW i \in Ids,
               RejectCommand(s, i) \/ PendCommand(s, i) \/ TriggerCommand(s, i) \/ TickCommand(s, i)
        PROVE  InvGiven'
    <2>1. VisitEffect(s, i) /\ VisitTimes(s, i)
      BY <1>4, RunStep, TimesStep
    <2>2. UNCHANGED <<row, last>> /\ \A r \in Roles : saw'[r] \subseteq saw[r]
      BY <2>1 DEF VisitEffect, VisitTimes
    <2>3. ASSUME NEW r \in Roles, NEW j \in saw'[r], NEW u \in Servers, mem'[u][j].status = "running"
          PROVE  mem'[u][j].start <= last[r]
      <3>1. j \in Ids /\ j \in saw[r]
        BY <1>0, <2>2, <2>3
      <3>2. CASE u # s \/ j # i
        <4>1. mem'[u][j] = mem[u][j]
          BY <2>1, <3>1, <3>2 DEF VisitEffect
        <4> QED BY <2>3, <3>1, <4>1 DEF InvGiven
      <3>3. CASE u = s /\ j = i
        <4>1. mem[s][i].status = "running"
          BY <2>1, <2>3, <3>3 DEF VisitTimes
        <4>2. mem[s][i].start # 0
          BY <4>1 DEF InvStart
        <4>3. mem'[s][i].start = mem[s][i].start
          BY <2>1, <4>1, <4>2 DEF VisitTimes
        <4> QED BY <3>1, <3>3, <4>1, <4>3 DEF InvGiven
      <3> QED BY <3>2, <3>3
    <2> QED BY <2>2, <2>3 DEF InvGiven
  <1>5. ASSUME NEW s \in Servers, NEW i \in Ids, SaveCommand(s, i) PROVE InvGiven'
    <2>1. /\ UNCHANGED <<last, saw>>
          /\ \A u \in Servers, j \in Ids :
               mem'[u][j].status = mem[u][j].status /\ mem'[u][j].start = mem[u][j].start
          /\ \A j \in Ids :
               \/ row'[j] = row[j]
               \/ row'[j].status = mem[s][j].status /\ row'[j].start = mem[s][j].start
      BY <1>5, SaveMem, SaveRow DEF SaveCommand, roleVars
    <2> QED BY <1>0, <2>1 DEF InvGiven
  <1>6. ASSUME NEW s \in Servers, EndUpdate(s) \/ Crash(s) PROVE InvGiven'
    <2>1. /\ UNCHANGED <<row, last, saw>>
          /\ \A u \in Servers, j \in Ids : mem'[u][j] = mem[u][j] \/ mem'[u][j] = NotMem
      BY <1>6, EndMem DEF EndUpdate, Crash, rowVars, roleVars
    <2> QED BY <1>0, <2>1 DEF InvGiven, NotMem
  <1>7. ASSUME NEW s \in Servers, NEW r \in Roles, HandleRole(s, r) PROVE InvGiven'
    <2>1. /\ UNCHANGED <<row, mem>> /\ up[s] = "idle" /\ last[r] < maxTime[s]
          /\ last' = [last EXCEPT ![r] = maxTime[s]]
          /\ saw' = [saw EXCEPT ![r] = @ \cup ForRole(s, r)]
      BY <1>0, <1>7 DEF HandleRole, rowVars, pollVars
    <2>2. last'[r] = maxTime[s] /\ saw'[r] = saw[r] \cup ForRole(s, r)
      BY <2>1 DEF GmTypeOK
    <2>3. \A i \in ForRole(s, r) :
            /\ i \in Ids /\ mem[s][i].status = "running" /\ mem[s][i].start <= maxTime[s]
            /\ row[i].status = "running" => row[i].start = mem[s][i].start
      BY <1>0, <2>1 DEF ForRole, InvStart
    <2>4. ASSUME NEW i \in saw'[r]
          PROVE  /\ row[i].status = "running" => row[i].start <= last'[r]
                 /\ \A u \in Servers : mem[u][i].status = "running" => mem[u][i].start <= last'[r]
      <3>1. CASE i \in saw[r]
        <4>1. /\ row[i].status = "running" => row[i].start <= last[r]
              /\ \A u \in Servers : mem[u][i].status = "running" => mem[u][i].start <= last[r]
          BY <3>1 DEF InvGiven
        <4> QED BY <1>0, <2>1, <2>2, <3>1, <4>1
      <3>2. CASE i \in ForRole(s, r)
        BY <2>2, <2>3, <3>2 DEF OneServer
      <3> QED BY <2>2, <3>1, <3>2
    <2>5. \A q \in Roles \ {r} : last'[q] = last[q] /\ saw'[q] = saw[q]
      BY <2>1 DEF GmTypeOK
    <2> QED BY <2>1, <2>4, <2>5 DEF InvGiven
  <1>8. ASSUME NEW s \in Servers, BeginUpdate(s) \/ BeginSave(s) PROVE InvGiven'
    BY <1>8, <1>1 DEF BeginUpdate, BeginSave, rowVars, roleVars
  <1>9. ASSUME NEW t \in 1 .. MaxTime, Tick(t) PROVE InvGiven'
    BY <1>9, <1>1 DEF Tick, roleVars
  <1>10. CASE UNCHANGED gmVars
    BY <1>10, <1>1 DEF gmVars, rowVars, pollVars, roleVars
  <1> QED BY <1>2, <1>3, <1>4, <1>5, <1>6, <1>7, <1>8, <1>9, <1>10, NextCases

RoleInv == InvAhead /\ InvTime /\ InvStart /\ InvGiven

LEMMA InitRole == GmInit => RoleInv
  <1> SUFFICES ASSUME GmInit PROVE RoleInv
    OBVIOUS
  <1> USE DEF GmInit, NoRow, NotMem
  <1>1. InvTime
    BY DEF InvTime
  <1>2. InvStart /\ InvGiven
    BY DEF InvStart, InvGiven
  <1> QED BY <1>1, <1>2, InitAhead DEF RoleInv

(* With one login server whose database clock is not set back, a role is     *)
(* given a command at most once for each time it was triggered.              *)
THEOREM GivenOnce == ASSUME OneServer, ~ClockSteps PROVE GmSpec => RoleOnce
  <1>1. IInv /\ RoleInv /\ [GmNext]_gmVars => RoleInv'
    BY AheadStep, TimeStep, StartStep, GivenStep DEF IInv, RoleInv
  <1>2. IInv /\ RoleInv /\ [GmNext]_gmVars =>
          [\A s \in Servers, r \in Roles :
             last'[r] # last[r] /\ up[s] = "idle" => ForRole(s, r) \cap saw[r] = {}]_gmVars
    <2> SUFFICES ASSUME IInv, RoleInv, NEW s \in Servers, NEW r \in Roles,
                        NEW i \in ForRole(s, r), i \in saw[r]
                 PROVE  FALSE
      OBVIOUS
    <2>1. mem[s][i].status = "running" /\ last[r] < mem[s][i].start /\ i \in Ids
      BY DEF ForRole
    <2>2. mem[s][i].start <= last[r]
      BY <2>1 DEF RoleInv, InvGiven
    <2>3. last[r] \in Nat /\ mem[s][i].start \in Nat
      BY <2>1 DEF IInv, GmTypeOK, MemType
    <2> QED BY <2>1, <2>2, <2>3
  <1> QED BY InitRole, GmInvariance, <1>1, <1>2, PTL DEF GmSpec, RoleOnce

-----------------------------------------------------------------------------
(* One login server, until a statement fails for the first time: what is     *)
(* written back stays and what has to be loaded is loaded.                   *)

(* The statements that failed are counted, up to the bound of the model.     *)
LEMMA FailsStep ==
  ASSUME GmTypeOK, InvRow, [GmNext]_gmVars
  PROVE  fails <= fails' /\ (fails' = fails \/ fails' <= MaxFails)
  <1> DEFINE Goal == fails <= fails' /\ (fails' = fails \/ fails' <= MaxFails)
  <1>0. fails \in Nat /\ MaxFails \in Nat
    BY GmAssumption DEF GmTypeOK
  <1>1. CASE fails' = fails
    BY <1>0, <1>1
  <1>2. CASE QueryFails
    BY <1>0, <1>2 DEF QueryFails
  <1>3. ASSUME NEW o \in Outcomes, CountFailure(o) PROVE Goal
    BY <1>0, <1>3 DEF Outcomes, CountFailure
  <1>4. ASSUME NEW s \in Servers, NEW found \in SUBSET Ids, ReadCommands(s, found) PROVE Goal
    <2> DEFINE mine    == {i \in found : CheckTargetType(CmdOf(i))}
               load    == {i \in mine : Supported(CmdOf(i))}
               refused == mine \ load
    <2>1. PICK marked \in SUBSET refused :
            fails' = fails + Cardinality(refused \ marked) /\ fails' <= MaxFails
      BY <1>4 DEF ReadCommands
    <2>2. refused \ marked \in SUBSET Ids /\ IsFiniteSet(Ids)
      <3>1. refused \subseteq Ids
        OBVIOUS
      <3>2. IsFiniteSet(Ids)
        BY FS_Interval, GmAssumption DEF Ids
      <3> HIDE DEF mine, load, refused
      <3> QED BY <3>1, <3>2
    <2>3. Cardinality(refused \ marked) \in Nat
      BY <2>2, FS_Subset, FS_CardinalityType
    <2> HIDE DEF mine, load, refused
    <2> QED BY <1>0, <2>1, <2>3
  <1>5. ASSUME NEW s \in Servers, InitGmCommand(s) \/ ReadNewGmCommand(s) PROVE Goal
    <2>1. CASE InitGmCommand(s)
      <3>1. Unfinished \in SUBSET Ids
        BY DEF Unfinished
      <3>2. ReadCommands(s, Unfinished) \/ QueryFails
        BY <2>1 DEF InitGmCommand
      <3> QED BY <1>2, <1>4, <3>1, <3>2
    <2>2. CASE ReadNewGmCommand(s)
      <3> DEFINE found == {i \in Ids : row[i].status = "new" /\ i > maxId[s]}
      <3>1. found \in SUBSET Ids
        OBVIOUS
      <3>2. ReadCommands(s, found) \/ QueryFails
        BY <2>2 DEF ReadNewGmCommand
      <3> HIDE DEF found
      <3> QED BY <1>2, <1>4, <3>1, <3>2
    <2> QED BY <1>5, <2>1, <2>2
  <1>6. ASSUME NEW s \in Servers, BeginUpdate(s) \/ BeginSave(s) PROVE fails' = fails \/ QueryFails
    BY <1>6 DEF BeginUpdate, BeginSave, histVars
  <1>7. ASSUME NEW s \in Servers, NEW i \in Ids,
               RejectCommand(s, i) \/ PendCommand(s, i) \/ TriggerCommand(s, i) \/ TickCommand(s, i)
        PROVE  fails' = fails \/ QueryFails \/ \E o \in Outcomes : CountFailure(o)
    <2>1. CASE RejectCommand(s, i)
      BY <2>1 DEF RejectCommand
    <2>2. CASE TriggerCommand(s, i)
      BY <2>2 DEF TriggerCommand
    <2>3. CASE PendCommand(s, i) \/ TickCommand(s, i)
      BY <2>3 DEF PendCommand, TickCommand, histVars
    <2> QED BY <1>7, <2>1, <2>2, <2>3
  <1>8. ASSUME NEW s \in Servers, NEW i \in Ids, SaveCommand(s, i)
        PROVE  \E o \in Outcomes : CountFailure(o)
    BY <1>8 DEF SaveCommand
  <1>9. ASSUME NEW s \in Servers,
               EndUpdate(s) \/ Crash(s) \/ \E r \in Roles : HandleRole(s, r)
        PROVE  fails' = fails
    BY <1>9 DEF EndUpdate, Crash, HandleRole, histVars
  <1>10. ASSUME \/ \E i \in Ids, c \in Menu : Insert(i, c)
                \/ \E t \in 1 .. MaxTime : Tick(t)
                \/ UNCHANGED gmVars
         PROVE  fails' = fails
    BY <1>10 DEF Insert, Tick, gmVars, histVars
  <1> QED BY <1>1, <1>2, <1>3, <1>5, <1>6, <1>7, <1>8, <1>9, <1>10, NextCases

(* No more statements fail than the model allows.                            *)
FailsInBound == fails <= MaxFails

LEMMA FailsBounded == GmSpec => []FailsInBound
  <1>1. GmInit => FailsInBound
    BY GmAssumption DEF GmInit, FailsInBound
  <1>2. IInv /\ FailsInBound /\ [GmNext]_gmVars => FailsInBound'
    BY FailsStep DEF IInv, FailsInBound
  <1> QED BY GmInvariance, <1>1, <1>2, PTL DEF GmSpec

\* The command in memory has its row, or waits to be saved; what came to an
\* end leaves memory only after that.
InvSaved ==
  \A s \in Servers, i \in Ids :
    /\ mem[s][i].status # "none" /\ ~mem[s][i].dirty =>
         row[i].status = mem[s][i].status /\ row[i].start = mem[s][i].start
    /\ up[s] = "save" /\ i \in InMem(s) \ todo[s] => ~mem[s][i].dirty
    /\ mem[s][i].status \in Final => up[s] \in {"run", "save"}

\* Only commands a login server loads are moved on.
InvHeld == \A i \in Ids : row[i].status \in {"pending", "running", "complete"} => Loadable(i)

\* A running command is in the memory of the server, over its restarts.
InvKept ==
  \A s \in Servers, i \in Ids :
    up[s] # "down" /\ row[i].status = "running" =>
      mem[s][i].status \in {"running", "complete"} /\ mem[s][i].start = row[i].start

\* The time of a role that did not handle a running command is before its start.
InvSees ==
  \A r \in Roles : \A i \in Ids \ saw[r] :
    /\ row[i].status = "running" => last[r] < row[i].start
    /\ \A s \in Servers : mem[s][i].status = "running" => last[r] < mem[s][i].start

(* Without a failure InitGmCommand and ReadNewGmCommand load what they ask   *)
(* for.                                                                      *)
LoadsAll(s) ==
  \A i \in Ids :
    \/ InitGmCommand(s) /\ row[i].status \in {"new", "pending", "running"}
    \/ ReadNewGmCommand(s) /\ row[i].status = "new" /\ i > maxId[s]
    => i <= maxId'[s] /\ (Loadable(i) => mem'[s][i].status # "none")

LEMMA LoadsAllStep ==
  ASSUME GmTypeOK, InvRow, fails' = 0, NEW s \in Servers, InitGmCommand(s) \/ ReadNewGmCommand(s)
  PROVE  /\ LoadsAll(s)
         /\ maxId'[s] = maxId[s] \/ \E i \in Ids : maxId'[s] = i /\ cmd[i] # {}
  <1>1. ~QueryFails
    BY DEF QueryFails, GmTypeOK
  <1>2. ASSUME NEW found \in SUBSET Ids, ReadCommands(s, found),
               \A i \in found : row[i].status \in {"new", "pending", "running"}
        PROVE  /\ \A i \in found : i <= maxId'[s] /\ (Loadable(i) => mem'[s][i].status # "none")
               /\ maxId'[s] = maxId[s] \/ \E i \in Ids : maxId'[s] = i /\ cmd[i] # {}
    <2>1. /\ maxId' = [maxId EXCEPT ![s] = MaxHandled(s, found)]
          /\ \A i \in found : Loadable(i) => mem'[s][i].status # "none"
      BY <1>2, ReadStep
    <2>2. maxId'[s] = MaxHandled(s, found)
      BY <2>1 DEF GmTypeOK
    <2>3. MaxHandled(s, found) \in found \cup {maxId[s]}
      BY ReadMax
    <2>4. \A i \in found : cmd[i] # {}
      BY <1>2 DEF InvRow
    <2> QED BY <2>1, <2>2, <2>3, <2>4, ReadMax
  <1>3. CASE InitGmCommand(s)
    <2>1. ReadCommands(s, Unfinished)
      BY <1>1, <1>3 DEF InitGmCommand
    <2>2. /\ Unfinished \in SUBSET Ids
          /\ \A i \in Ids : i \in Unfinished <=> row[i].status \in {"new", "pending", "running"}
      BY DEF Unfinished
    <2>3. ~ReadNewGmCommand(s)
      BY <1>3 DEF InitGmCommand, ReadNewGmCommand
    <2> QED BY <1>2, <2>1, <2>2, <2>3 DEF LoadsAll
  <1>4. CASE ReadNewGmCommand(s)
    <2> DEFINE found == {i \in Ids : row[i].status = "new" /\ i > maxId[s]}
    <2>1. ReadCommands(s, found)
      BY <1>1, <1>4 DEF ReadNewGmCommand
    <2>2. /\ found \in SUBSET Ids
          /\ \A i \in Ids : i \in found <=> row[i].status = "new" /\ i > maxId[s]
      OBVIOUS
    <2>3. ~InitGmCommand(s)
      BY <1>4 DEF InitGmCommand, ReadNewGmCommand
    <2> HIDE DEF found
    <2> QED BY <1>2, <2>1, <2>2, <2>3 DEF LoadsAll
  <1> QED BY <1>3, <1>4

(* What EndUpdate keeps, and a crash does not.                               *)
LEMMA EndKeeps ==
  ASSUME GmTypeOK, NEW s \in Servers, NEW i \in Ids
  PROVE  /\ Crash(s) => mem'[s][i] = NotMem
         /\ EndUpdate(s) =>
              mem'[s][i] = IF mem[s][i].status \in Final THEN NotMem ELSE mem[s][i]
  BY DEF Crash, EndUpdate, GmTypeOK

(* Reading changes no command that is in memory.                             *)
LEMMA LoadRows ==
  ASSUME GmTypeOK, InvRow, InvAhead, InvMem, NEW s \in Servers,
         InitGmCommand(s) \/ ReadNewGmCommand(s)
  PROVE  /\ UNCHANGED <<cmd, now, maxTime, dwTime, todo, last, saw>>
         /\ up' = [up EXCEPT ![s] = IF InitGmCommand(s) THEN "idle" ELSE "update"]
         /\ InitGmCommand(s) => up[s] = "down" /\ \A i \in Ids : mem[s][i].status = "none"
         /\ ReadNewGmCommand(s) => up[s] = "idle"
         /\ \A i \in Ids : row'[i] = row[i] \/ (row'[i].status = "error" /\ ~Supported(CmdOf(i)))
         /\ \A u \in Servers : maxId[u] <= maxId'[u] /\ (u # s => maxId'[u] = maxId[u])
         /\ \A u \in Servers, i \in Ids :
              \/ mem'[u][i] = mem[u][i]
              \/ /\ u = s /\ mem[s][i].status = "none"
                 /\ ReadNewGmCommand(s) => i > maxId[s]
                 /\ row[i].status \in {"new", "pending", "running"}
                 /\ mem'[s][i].status = row[i].status /\ mem'[s][i].start = row[i].start
                 /\ mem'[s][i].dirty /\ row'[i] = row[i]
         /\ \A u \in Servers, i \in Ids : mem[u][i].status # "none" => row'[i] = row[i]
  <1>1. LoadEffect(s)
    BY LoadStep
  <1>2. /\ UNCHANGED <<cmd, now, maxTime, dwTime, todo, last, saw>>
        /\ up' = [up EXCEPT ![s] = IF InitGmCommand(s) THEN "idle" ELSE "update"]
        /\ InitGmCommand(s) => up[s] = "down"
        /\ ReadNewGmCommand(s) => up[s] = "idle"
    <2>1. CASE InitGmCommand(s)
      BY <2>1 DEF InitGmCommand, ReadNewGmCommand, roleVars
    <2>2. CASE ReadNewGmCommand(s)
      BY <2>2 DEF InitGmCommand, ReadNewGmCommand, roleVars
    <2> QED BY <2>1, <2>2
  <1>3. InitGmCommand(s) => \A i \in Ids : mem[s][i].status = "none"
    BY <1>2 DEF InvMem
  <1>4. \A i \in Ids : row'[i] = row[i] \/ (row'[i].status = "error" /\ ~Supported(CmdOf(i)))
    BY <1>1 DEF LoadEffect
  <1>5. \A u \in Servers : maxId[u] <= maxId'[u] /\ (u # s => maxId'[u] = maxId[u])
    BY <1>1 DEF LoadEffect
  <1>6. \A u \in Servers, i \in Ids :
          \/ mem'[u][i] = mem[u][i]
          \/ /\ u = s /\ mem[s][i].status = "none"
             /\ ReadNewGmCommand(s) => i > maxId[s]
             /\ row[i].status \in {"new", "pending", "running"}
             /\ mem'[s][i].status = row[i].status /\ mem'[s][i].start = row[i].start
             /\ mem'[s][i].dirty /\ row'[i] = row[i]
    <2> SUFFICES ASSUME NEW u \in Servers, NEW i \in Ids, mem'[u][i] # mem[u][i]
                 PROVE  /\ u = s /\ mem[s][i].status = "none"
                        /\ ReadNewGmCommand(s) => i > maxId[s]
                        /\ row[i].status \in {"new", "pending", "running"}
                        /\ mem'[s][i].status = row[i].status /\ mem'[s][i].start = row[i].start
                        /\ mem'[s][i].dirty /\ row'[i] = row[i]
      OBVIOUS
    <2>1. /\ u = s /\ mem[s][i].status = "none" /\ mem'[s][i] = Create(i)
          /\ ReadNewGmCommand(s) => i > maxId[s]
          /\ row[i].status \in {"new", "pending", "running"} /\ Supported(CmdOf(i))
      BY <1>1 DEF LoadEffect
    <2> QED BY <1>4, <2>1, CreateType
  <1>7. \A u \in Servers, i \in Ids : mem[u][i].status # "none" => row'[i] = row[i]
    BY <1>4 DEF InvAhead
  <1> QED BY <1>2, <1>3, <1>4, <1>5, <1>6, <1>7

(* A row that is inserted is new and in no memory.                           *)
LEMMA InsertStep ==
  ASSUME GmTypeOK, InvRow, NEW i \in Ids, NEW c \in Menu, Insert(i, c)
  PROVE  /\ cmd[i] = {} /\ cmd'[i] # {} /\ (CmdOf(i))' = c
         /\ row[i].status = "none" /\ row'[i].status = "new" /\ row'[i].start = c.start
         /\ \A j \in Ids \ {i} : cmd'[j] = cmd[j] /\ row'[j] = row[j] /\ (CmdOf(j))' = CmdOf(j)
         /\ \A s \in Servers : mem[s][i].status = "none"
         /\ UNCHANGED <<now, up, maxId, maxTime, mem, dwTime, todo, last, saw>>
  <1>1. /\ cmd[i] = {} /\ cmd'[i] = {c}
        /\ row'[i].status = "new" /\ row'[i].start = c.start
        /\ \A j \in Ids \ {i} : cmd'[j] = cmd[j] /\ row'[j] = row[j]
        /\ UNCHANGED <<now, up, maxId, maxTime, mem, dwTime, todo, last, saw>>
    BY DEF Insert, GmTypeOK, pollVars, roleVars
  <1>2. (CmdOf(i))' = c
    BY <1>1 DEF CmdOf, The
  <1>3. row[i].status = "none"
    BY <1>1 DEF InvRow
  <1>4. \A s \in Servers : mem[s][i].status = "none"
    BY <1>1 DEF GmTypeOK, InMem
  <1> QED BY <1>1, <1>2, <1>3, <1>4 DEF CmdOf

LEMMA SavedStep ==
  ASSUME OneServer, fails' = 0, GmTypeOK, InvRow, InvMem, InvAhead, InvSaved, [GmNext]_gmVars
  PROVE  InvSaved'
  <1>1. CASE UNCHANGED <<row, mem, up, todo>>
    BY <1>1 DEF InvSaved, InMem
  <1>2. ASSUME NEW i \in Ids, NEW c \in Menu, Insert(i, c) PROVE InvSaved'
    <2>1. /\ \A j \in Ids \ {i} : row'[j] = row[j]
          /\ \A s \in Servers : mem[s][i].status = "none"
          /\ UNCHANGED <<up, mem, todo>>
      BY <1>2, InsertStep DEF Insert, pollVars
    <2> QED BY <2>1 DEF InvSaved, InMem, Final
  <1>3. ASSUME NEW s \in Servers, InitGmCommand(s) \/ ReadNewGmCommand(s) PROVE InvSaved'
    <2>1. /\ up[s] \in {"down", "idle"} /\ up'[s] \in {"idle", "update"}
          /\ \A i \in Ids :
               \/ mem'[s][i] = mem[s][i]
               \/ mem'[s][i].status \notin Final /\ mem'[s][i].dirty
          /\ \A i \in Ids : mem[s][i].status # "none" => row'[i] = row[i]
      <3>1. up[s] \in {"down", "idle"} /\ up'[s] \in {"idle", "update"}
        <4>1. /\ up' = [up EXCEPT ![s] = IF InitGmCommand(s) THEN "idle" ELSE "update"]
              /\ up[s] \in {"down", "idle"}
          BY <1>3, LoadRows, Zenon
        <4> QED BY <4>1 DEF GmTypeOK
      <3>2. /\ \A i \in Ids :
                 \/ mem'[s][i] = mem[s][i]
                 \/ mem'[s][i].status \in {"new", "pending", "running"} /\ mem'[s][i].dirty
            /\ \A i \in Ids : mem[s][i].status # "none" => row'[i] = row[i]
        BY <1>3, LoadRows
      <3> QED BY <3>1, <3>2 DEF Final
    <2>2. \A u \in Servers : u = s
      BY DEF OneServer
    <2> QED BY <2>1, <2>2 DEF InvSaved
  <1>4. ASSUME NEW s \in Servers, BeginUpdate(s) \/ BeginSave(s) PROVE InvSaved'
    <2>1. /\ UNCHANGED <<row, mem>>
          /\ \/ up[s] = "update" /\ up'[s] \in {"idle", "run"}
             \/ up[s] = "run" /\ up'[s] = "save" /\ todo'[s] = InMem(s)
      BY <1>4 DEF BeginUpdate, BeginSave, rowVars, GmTypeOK
    <2>2. \A u \in Servers : u = s
      BY DEF OneServer
    <2> QED BY <2>1, <2>2 DEF InvSaved, InMem
  <1>5. ASSUME NEW s \in Servers, NEW i \in Ids,
               RejectCommand(s, i) \/ PendCommand(s, i) \/ TriggerCommand(s, i) \/ TickCommand(s, i)
        PROVE  InvSaved'
    <2>1. /\ UNCHANGED <<row, up>> /\ up[s] = "run"
          /\ mem'[s][i].dirty \/ mem'[s][i] = mem[s][i]
          /\ \A j \in Ids \ {i} : mem'[s][j] = mem[s][j]
      BY <1>5, RunStep, TimesStep DEF VisitEffect, VisitTimes
    <2>2. \A u \in Servers : u = s
      BY DEF OneServer
    <2> QED BY <2>1, <2>2 DEF InvSaved
  <1>6. ASSUME NEW s \in Servers, NEW i \in Ids, SaveCommand(s, i) PROVE InvSaved'
    <2>1. /\ UNCHANGED up /\ up[s] = "save" /\ todo'[s] = todo[s] \ {i}
          /\ \A j \in Ids :
               /\ mem'[s][j].status = mem[s][j].status /\ mem'[s][j].start = mem[s][j].start
               /\ IF j = i THEN ~mem'[s][j].dirty ELSE mem'[s][j] = mem[s][j]
      BY <1>6, SaveMem DEF SaveCommand, Visit, GmTypeOK
    <2>2. /\ \A j \in Ids : j # i => row'[j] = row[j]
          /\ \/ row'[i] = row[i] /\ ~mem[s][i].dirty
             \/ row'[i].status = mem[s][i].status /\ row'[i].start = mem[s][i].start
      BY <1>6, SaveRow
    <2>3. \A u \in Servers : u = s
      BY DEF OneServer
    <2> QED BY <2>1, <2>2, <2>3 DEF InvSaved, InMem
  <1>7. ASSUME NEW s \in Servers, EndUpdate(s) \/ Crash(s) PROVE InvSaved'
    <2>1. /\ UNCHANGED row /\ up'[s] # "save"
          /\ \A i \in Ids : mem'[s][i] = NotMem \/ (mem'[s][i] = mem[s][i] /\ mem[s][i].status \notin Final)
      BY <1>7, EndKeeps DEF EndUpdate, Crash, rowVars, GmTypeOK
    <2>2. \A u \in Servers : u = s
      BY DEF OneServer
    <2> QED BY <2>1, <2>2 DEF InvSaved, NotMem, Final
  <1>8. ASSUME NEW s \in Servers, NEW r \in Roles, HandleRole(s, r) PROVE InvSaved'
    BY <1>8, <1>1 DEF HandleRole, rowVars, pollVars
  <1>9. ASSUME NEW t \in 1 .. MaxTime, Tick(t) PROVE InvSaved'
    BY <1>9, <1>1 DEF Tick
  <1>10. CASE UNCHANGED gmVars
    BY <1>10, <1>1 DEF gmVars, rowVars, pollVars
  <1> QED BY <1>2, <1>3, <1>4, <1>5, <1>6, <1>7, <1>8, <1>9, <1>10, NextCases

LEMMA HeldStep ==
  ASSUME GmTypeOK, InvRow, InvMem, InvAhead, InvHeld, [GmNext]_gmVars
  PROVE  InvHeld'
  <1>1. CASE UNCHANGED <<cmd, row>>
    BY <1>1 DEF InvHeld, Loadable, CmdOf
  <1>2. ASSUME NEW i \in Ids, NEW c \in Menu, Insert(i, c) PROVE InvHeld'
    <2>1. /\ row'[i].status = "new"
          /\ \A j \in Ids \ {i} : row'[j] = row[j] /\ (CmdOf(j))' = CmdOf(j)
      BY <1>2, InsertStep
    <2> QED BY <2>1 DEF InvHeld, Loadable
  <1>3. ASSUME NEW s \in Servers, InitGmCommand(s) \/ ReadNewGmCommand(s) PROVE InvHeld'
    <2>1. UNCHANGED cmd /\ \A i \in Ids : row'[i] = row[i] \/ row'[i].status = "error"
      BY <1>3, LoadRows
    <2> QED BY <2>1 DEF InvHeld, Loadable, CmdOf
  <1>4. ASSUME NEW s \in Servers, NEW i \in Ids, SaveCommand(s, i) PROVE InvHeld'
    <2>1. /\ UNCHANGED cmd /\ \A j \in Ids : j # i => row'[j] = row[j]
          /\ row'[i] = row[i] \/ mem[s][i].status # "none"
      BY <1>4, SaveRow DEF SaveCommand
    <2>2. mem[s][i].status # "none" => Loadable(i)
      BY DEF InvAhead, GmTypeOK, InMem, Loadable, CheckTargetType
    <2> QED BY <2>1, <2>2 DEF InvHeld, Loadable, CmdOf
  <1>5. ASSUME NEW s \in Servers, NEW i \in Ids,
               RejectCommand(s, i) \/ PendCommand(s, i) \/ TriggerCommand(s, i) \/ TickCommand(s, i)
        PROVE  InvHeld'
    BY <1>5, <1>1, RunStep DEF VisitEffect
  <1>6. ASSUME NEW s \in Servers,
               \/ BeginUpdate(s) \/ BeginSave(s) \/ EndUpdate(s) \/ Crash(s)
               \/ \E r \in Roles : HandleRole(s, r)
        PROVE  InvHeld'
    BY <1>6, <1>1 DEF BeginUpdate, BeginSave, EndUpdate, Crash, HandleRole, rowVars
  <1>7. ASSUME NEW t \in 1 .. MaxTime, Tick(t) PROVE InvHeld'
    BY <1>7, <1>1 DEF Tick
  <1>8. CASE UNCHANGED gmVars
    BY <1>8, <1>1 DEF gmVars, rowVars
  <1> QED BY <1>2, <1>3, <1>4, <1>5, <1>6, <1>7, <1>8, NextCases

LEMMA KeptStep ==
  ASSUME OneServer, fails' = 0, GmTypeOK, InvRow, InvMem, InvAhead, InvStart, InvSaved, InvHeld,
         InvKept, [GmNext]_gmVars
  PROVE  InvKept'
  <1>0. ASSUME NEW s \in Servers
        PROVE  \A u \in Servers : u = s
    BY DEF OneServer
  <1>1. CASE UNCHANGED <<row, mem>> /\ \A s \in Servers : up[s] = "down" => up'[s] = "down"
    BY <1>1 DEF InvKept
  <1>2. ASSUME NEW i \in Ids, NEW c \in Menu, Insert(i, c) PROVE InvKept'
    <2>1. /\ row'[i].status = "new" /\ UNCHANGED <<up, mem>>
          /\ \A j \in Ids \ {i} : row'[j] = row[j]
      BY <1>2, InsertStep
    <2> QED BY <2>1 DEF InvKept
  <1>3. ASSUME NEW s \in Servers, InitGmCommand(s) PROVE InvKept'
    <2>1. ASSUME NEW i \in Ids, row'[i].status = "running"
          PROVE  mem'[s][i].status = "running" /\ mem'[s][i].start = row'[i].start
      <3>1. row'[i] = row[i]
        BY <1>3, <2>1, LoadRows
      <3>2. mem'[s][i].status # "none"
        BY <1>3, <2>1, <3>1, LoadsAllStep DEF LoadsAll, InvHeld
      <3>3. mem[s][i].status = "none"
        BY <1>3, LoadRows
      <3>4. mem'[s][i].status = row[i].status /\ mem'[s][i].start = row[i].start
        BY <1>3, <3>2, <3>3, LoadRows
      <3> QED BY <2>1, <3>1, <3>4
    <2> QED BY <1>0, <2>1 DEF InvKept
  <1>4. ASSUME NEW s \in Servers, ReadNewGmCommand(s) PROVE InvKept'
    <2>1. /\ up[s] = "idle"
          /\ \A i \in Ids : row'[i] = row[i] \/ row'[i].status = "error"
          /\ \A i \in Ids : mem'[s][i] = mem[s][i] \/ mem[s][i].status = "none"
      BY <1>4, LoadRows
    <2> QED BY <1>0, <2>1 DEF InvKept
  <1>5. ASSUME NEW s \in Servers, NEW i \in Ids,
               RejectCommand(s, i) \/ PendCommand(s, i) \/ TriggerCommand(s, i) \/ TickCommand(s, i)
        PROVE  InvKept'
    <2>1. VisitEffect(s, i) /\ VisitTimes(s, i)
      BY <1>5, RunStep, TimesStep
    <2>2. /\ UNCHANGED <<row, up>> /\ up[s] = "run" /\ mem[s][i].status # "complete"
          /\ \A j \in Ids \ {i} : mem'[s][j] = mem[s][j]
      BY <2>1 DEF VisitEffect, VisitTimes
    <2>3. ASSUME mem[s][i].status = "running"
          PROVE  mem'[s][i].status \in {"running", "complete"} /\ mem'[s][i].start = mem[s][i].start
      <3>1. mem[s][i].start # 0
        BY <2>3 DEF InvStart
      <3> QED BY <2>1, <2>3, <3>1 DEF VisitTimes
    <2> QED BY <1>0, <2>2, <2>3 DEF InvKept
  <1>6. ASSUME NEW s \in Servers, NEW i \in Ids, SaveCommand(s, i) PROVE InvKept'
    <2>1. /\ UNCHANGED up
          /\ \A j \in Ids :
               mem'[s][j].status = mem[s][j].status /\ mem'[s][j].start = mem[s][j].start
          /\ \A j \in Ids :
               \/ row'[j] = row[j]
               \/ row'[j].status = mem[s][j].status /\ row'[j].start = mem[s][j].start
      BY <1>6, SaveMem, SaveRow DEF SaveCommand
    <2> QED BY <1>0, <2>1 DEF InvKept
  <1>7. ASSUME NEW s \in Servers, EndUpdate(s) PROVE InvKept'
    <2>1. /\ UNCHANGED row /\ up[s] = "save" /\ todo[s] = {}
          /\ \A i \in Ids : mem'[s][i] = IF mem[s][i].status \in Final THEN NotMem ELSE mem[s][i]
      BY <1>7, EndKeeps DEF EndUpdate, rowVars
    <2>2. ASSUME NEW i \in Ids, row[i].status = "running"
          PROVE  mem'[s][i].status = "running" /\ mem'[s][i].start = row[i].start
      <3>1. mem[s][i].status \in {"running", "complete"} /\ mem[s][i].start = row[i].start
        BY <2>1, <2>2 DEF InvKept
      <3>2. row[i].status = mem[s][i].status
        BY <2>1, <3>1 DEF InvSaved, InMem
      <3> QED BY <2>1, <2>2, <3>1, <3>2 DEF Final
    <2> QED BY <1>0, <2>1, <2>2 DEF InvKept
  <1>8. ASSUME NEW s \in Servers, Crash(s) PROVE InvKept'
    <2>1. up'[s] = "down"
      BY <1>8 DEF Crash, GmTypeOK
    <2> QED BY <1>0, <2>1 DEF InvKept
  <1>9. ASSUME NEW s \in Servers, BeginUpdate(s) \/ BeginSave(s) PROVE InvKept'
    <2>1. UNCHANGED <<row, mem>> /\ up[s] # "down"
      BY <1>9 DEF BeginUpdate, BeginSave, rowVars
    <2> QED BY <1>0, <2>1 DEF InvKept
  <1>10. ASSUME NEW s \in Servers, NEW r \in Roles, HandleRole(s, r) PROVE InvKept'
    BY <1>10, <1>1 DEF HandleRole, rowVars, pollVars
  <1>11. ASSUME NEW t \in 1 .. MaxTime, Tick(t) PROVE InvKept'
    BY <1>11, <1>1 DEF Tick
  <1>12. CASE UNCHANGED gmVars
    BY <1>12, <1>1 DEF gmVars, rowVars, pollVars
  <1> QED BY <1>2, <1>3, <1>4, <1>5, <1>6, <1>7, <1>8, <1>9, <1>10, <1>11, <1>12, NextCases

LEMMA SeesStep ==
  ASSUME OneServer, fails' = 0, ~ClockSteps, GmTypeOK, InvRow, InvMem, InvAhead, InvTime, InvStart,
         InvSaved, InvKept, InvSees, [GmNext]_gmVars
  PROVE  InvSees'
  <1>0. /\ \A r \in Roles : last[r] \in Nat /\ saw[r] \in SUBSET Ids
        /\ \A s \in Servers : dwTime[s] \in Nat
        /\ \A i \in Ids : row[i].start \in Nat
        /\ \A s \in Servers, i \in Ids : mem[s][i].start \in Nat
        /\ \A s \in Servers, u \in Servers : u = s
    BY DEF GmTypeOK, RowType, MemType, OneServer
  <1>1. CASE UNCHANGED <<row, mem, last, saw>>
    BY <1>1 DEF InvSees
  <1>2. ASSUME NEW i \in Ids, NEW c \in Menu, Insert(i, c) PROVE InvSees'
    <2>1. /\ row'[i].status = "new" /\ UNCHANGED <<mem, last, saw>>
          /\ \A j \in Ids \ {i} : row'[j] = row[j]
      BY <1>2, InsertStep
    <2> QED BY <2>1 DEF InvSees
  <1>3. ASSUME NEW s \in Servers, InitGmCommand(s) \/ ReadNewGmCommand(s) PROVE InvSees'
    <2>1. /\ UNCHANGED <<last, saw>>
          /\ \A i \in Ids : row'[i] = row[i] \/ row'[i].status = "error"
          /\ \A i \in Ids :
               \/ mem'[s][i] = mem[s][i]
               \/ mem'[s][i].status = row[i].status /\ mem'[s][i].start = row[i].start
      BY <1>3, LoadRows
    <2> QED BY <1>0, <2>1 DEF InvSees
  <1>4. ASSUME NEW s \in Servers, NEW i \in Ids,
               RejectCommand(s, i) \/ PendCommand(s, i) \/ TriggerCommand(s, i) \/ TickCommand(s, i)
        PROVE  InvSees'
    <2>1. VisitEffect(s, i) /\ VisitTimes(s, i)
      BY <1>4, RunStep, TimesStep
    <2>2. /\ UNCHANGED <<row, last>> /\ \A r \in Roles : last[r] < dwTime[s]
          /\ \A j \in Ids \ {i} : mem'[s][j] = mem[s][j]
          /\ \A r \in Roles : \A j \in Ids \ {i} : j \in saw'[r] <=> j \in saw[r]
      BY <1>0, <2>1 DEF VisitEffect, VisitTimes, InvTime
    <2>3. CASE mem[s][i].status = "running"
      <3>1. mem[s][i].start # 0
        BY <2>3 DEF InvStart
      <3>2. UNCHANGED saw /\ mem'[s][i].start = mem[s][i].start
        BY <2>1, <2>3, <3>1 DEF VisitTimes
      <3> QED BY <1>0, <2>2, <2>3, <3>2 DEF InvSees
    <2>4. CASE mem[s][i].status # "running"
      <3>1. mem[s][i].status \in {"new", "pending"} /\ Ahead(row[i].status, mem[s][i].status)
        BY <2>1, <2>4 DEF VisitEffect, InvAhead
      <3>2. row[i].status # "running"
        BY <3>1 DEF Ahead, Rank, Final
      <3>3. mem'[s][i].status = "running" => mem'[s][i].start = dwTime[s]
        BY <2>1, <2>4 DEF VisitTimes
      <3> QED BY <1>0, <2>2, <3>2, <3>3 DEF InvSees
    <2> QED BY <2>3, <2>4
  <1>5. ASSUME NEW s \in Servers, NEW i \in Ids, SaveCommand(s, i) PROVE InvSees'
    <2>1. /\ UNCHANGED <<last, saw>>
          /\ \A j \in Ids :
               mem'[s][j].status = mem[s][j].status /\ mem'[s][j].start = mem[s][j].start
          /\ \A j \in Ids :
               \/ row'[j] = row[j]
               \/ row'[j].status = mem[s][j].status /\ row'[j].start = mem[s][j].start
      BY <1>5, SaveMem, SaveRow DEF SaveCommand, roleVars
    <2> QED BY <1>0, <2>1 DEF InvSees
  <1>6. ASSUME NEW s \in Servers, EndUpdate(s) \/ Crash(s) PROVE InvSees'
    <2>1. /\ UNCHANGED <<row, last, saw>>
          /\ \A i \in Ids : mem'[s][i] = mem[s][i] \/ mem'[s][i] = NotMem
      BY <1>6, EndMem DEF EndUpdate, Crash, rowVars, roleVars
    <2> QED BY <1>0, <2>1 DEF InvSees, NotMem
  <1>7. ASSUME NEW s \in Servers, NEW r \in Roles, HandleRole(s, r) PROVE InvSees'
    <2>1. /\ UNCHANGED <<row, mem>> /\ up[s] = "idle"
          /\ saw'[r] = saw[r] \cup ForRole(s, r)
          /\ \A q \in Roles \ {r} : last'[q] = last[q] /\ saw'[q] = saw[q]
      BY <1>7 DEF HandleRole, rowVars, pollVars, GmTypeOK
    <2>2. ASSUME NEW i \in Ids \ saw'[r]
          PROVE  mem[s][i].status # "running" /\ row[i].status # "running"
      <3>1. i \notin saw[r] /\ i \notin ForRole(s, r)
        BY <2>1
      <3>2. mem[s][i].status # "running"
        BY <3>1 DEF InvSees, ForRole
      <3>3. mem[s][i].status # "complete"
        BY <2>1 DEF InvSaved, Final
      <3> QED BY <2>1, <3>2, <3>3 DEF InvKept
    <2> QED BY <1>0, <2>1, <2>2 DEF InvSees
  <1>8. ASSUME NEW s \in Servers, BeginUpdate(s) \/ BeginSave(s) PROVE InvSees'
    BY <1>8, <1>1 DEF BeginUpdate, BeginSave, rowVars, roleVars
  <1>9. ASSUME NEW t \in 1 .. MaxTime, Tick(t) PROVE InvSees'
    BY <1>9, <1>1 DEF Tick, roleVars
  <1>10. CASE UNCHANGED gmVars
    BY <1>10, <1>1 DEF gmVars, rowVars, pollVars, roleVars
  <1> QED BY <1>2, <1>3, <1>4, <1>5, <1>6, <1>7, <1>8, <1>9, <1>10, NextCases

SeesInv == InvSaved /\ InvHeld /\ InvKept /\ InvSees

LEMMA InitSees == GmInit => SeesInv
  <1> SUFFICES ASSUME GmInit PROVE SeesInv
    OBVIOUS
  <1> QED BY DEF GmInit, NoRow, NotMem, SeesInv, InvSaved, InvHeld, InvKept, InvSees, Final, InMem

\* No statement has failed so far.
NoneFailed == fails = 0

LEMMA NoneFailedStep ==
  ASSUME IInv, [GmNext]_gmVars, NoneFailed'
  PROVE  NoneFailed /\ fails' = 0
  <1>1. fails <= fails' /\ fails' = 0 /\ fails \in Nat
    BY FailsStep DEF IInv, GmTypeOK, NoneFailed
  <1> QED BY <1>1 DEF NoneFailed

LEMMA SeesInvariance ==
  ASSUME OneServer, ~ClockSteps
  PROVE  GmSpec => [](RoleInv /\ (NoneFailed => SeesInv))
  <1>1. IInv /\ RoleInv /\ [GmNext]_gmVars => RoleInv'
    BY AheadStep, TimeStep, StartStep, GivenStep DEF IInv, RoleInv
  <1>2. IInv /\ RoleInv /\ (NoneFailed => SeesInv) /\ [GmNext]_gmVars => (NoneFailed => SeesInv)'
    <2> SUFFICES ASSUME IInv, RoleInv, NoneFailed => SeesInv, [GmNext]_gmVars, NoneFailed'
                 PROVE  SeesInv'
      OBVIOUS
    <2>1. SeesInv /\ fails' = 0
      BY NoneFailedStep
    <2> QED BY <2>1, SavedStep, HeldStep, KeptStep, SeesStep DEF IInv, RoleInv, SeesInv
  <1> QED BY InitRole, InitSees, GmInvariance, <1>1, <1>2, PTL DEF GmSpec

(* With one login server and a clock that is not set back, over crashes,     *)
(* and until a statement fails for the first time: a role whose time is past *)
(* the start of a running command was given it.                              *)
THEOREM GivenUntilFailure ==
  ASSUME OneServer, ~ClockSteps PROVE GmSpec => [](NoneFailed => RoleSees)
  <1>1. IInv /\ SeesInv => RoleSees
    <2> SUFFICES ASSUME IInv, SeesInv, NEW s \in Servers, NEW r \in Roles, NEW i \in Ids,
                        mem[s][i].status = "running", last[r] >= mem[s][i].start, i \notin saw[r]
                 PROVE  FALSE
      BY DEF RoleSees
    <2>1. last[r] < mem[s][i].start
      BY DEF SeesInv, InvSees
    <2>2. last[r] \in Nat /\ mem[s][i].start \in Nat
      BY DEF IInv, GmTypeOK, MemType
    <2> QED BY <2>1, <2>2
  <1> QED BY SeesInvariance, GmInvariance, <1>1, PTL

(* Where statements do not fail, it always was.                              *)
THEOREM GivenToAll == ASSUME OneServer, ~ClockSteps, MaxFails = 0 PROVE GmSpec => []RoleSees
  <1>1. IInv /\ FailsInBound => NoneFailed
    BY DEF IInv, GmTypeOK, NoneFailed, FailsInBound
  <1> QED BY GivenUntilFailure, GmInvariance, FailsBounded, <1>1, PTL

-----------------------------------------------------------------------------
(* One login server, a clock that is not set back and auto_ids committed in  *)
(* order, until a statement fails for the first time: commands without a start time take  *)
(* effect in the order of their auto_id.                                     *)

\* A command that starts when the server first sees it.
StartsAtOnce(i) == cmd[i] # {} /\ CmdOf(i).start = 0

Begun == {"pending", "running", "complete"}

\* a, of the older command, is no less far than b.
NotBehind(a, b) ==
  b.status \in Begun =>
    /\ a.status # "new"
    /\ a.status = "pending" => b.status = "pending" /\ a.start <= b.start

\* The auto_ids of the table have no gap, nor those the server has read.
InvGap ==
  /\ \A i, j \in Ids : i < j /\ cmd[j] # {} => cmd[i] # {}
  /\ \A s \in Servers, i \in Ids : i <= maxId[s] => cmd[i] # {}
  /\ \A i \in Ids : cmd[i] # {} => row[i].status # "none"

\* Nothing is forgotten: what was read and is not final is in memory, and what
\* was not read did not begin.
InvLoaded ==
  \A s \in Servers, i \in Ids : up[s] # "down" =>
    /\ i <= maxId[s] /\ Loadable(i) => mem[s][i].status # "none" \/ row[i].status \in Final
    /\ maxId[s] < i => row[i].status \in {"none", "new"} \cup Final

\* A command without a start time gets the time of the first visit.
InvFirst ==
  \A i \in Ids : StartsAtOnce(i) =>
    /\ row[i].status = "new" => row[i].start = 0
    /\ row[i].status = "pending" => row[i].start \in 1 .. now
    /\ \A s \in Servers :
         /\ mem[s][i].status = "new" => mem[s][i].start = 0
         /\ mem[s][i].status = "pending" => mem[s][i].start \in 1 .. now
         /\ up[s] = "run" /\ i \notin todo[s] =>
              /\ mem[s][i].status # "new"
              /\ mem[s][i].status = "pending" => dwTime[s] <= mem[s][i].start
         /\ up[s] \in {"run", "save"} /\ mem[s][i].status = "pending" =>
              mem[s][i].start <= dwTime[s]

\* The older of two such commands is not behind: in the table, in memory, and
\* in memory against the table.
InvOrder ==
  \A i, j \in Ids : i < j /\ StartsAtOnce(i) /\ StartsAtOnce(j) /\ Loadable(i) =>
    /\ NotBehind(row[i], row[j])
    /\ \A s \in Servers : NotBehind(mem[s][i], row[j]) /\ NotBehind(mem[s][i], mem[s][j])

LEMMA GapStep ==
  ASSUME ~IdGaps, fails' = 0, GmTypeOK, InvRow, InvMem, InvAhead, InvGap, [GmNext]_gmVars
  PROVE  InvGap'
  <1>0. \A i \in Ids : i \in Nat
    BY DEF Ids
  <1>1. CASE UNCHANGED <<cmd, row, maxId>>
    BY <1>1 DEF InvGap
  <1>2. ASSUME NEW i \in Ids, NEW c \in Menu, Insert(i, c) PROVE InvGap'
    <2>1. /\ cmd'[i] # {} /\ row'[i].status = "new" /\ UNCHANGED maxId
          /\ \A j \in Ids \ {i} : cmd'[j] = cmd[j] /\ row'[j] = row[j]
      BY <1>2, InsertStep
    <2>2. \A j \in Ids : j < i => cmd[j] # {}
      <3>1. \A j \in 1 .. (i - 1) : cmd[j] # {}
        BY <1>2 DEF Insert
      <3> QED BY <3>1 DEF Ids
    <2> QED BY <1>0, <2>1, <2>2 DEF InvGap
  <1>3. ASSUME NEW s \in Servers, InitGmCommand(s) \/ ReadNewGmCommand(s) PROVE InvGap'
    <2>1. /\ UNCHANGED cmd /\ \A u \in Servers : u # s => maxId'[u] = maxId[u]
          /\ \A i \in Ids : row'[i] = row[i] \/ row'[i].status = "error"
      BY <1>3, LoadRows
    <2>2. maxId'[s] = maxId[s] \/ \E i \in Ids : maxId'[s] = i /\ cmd[i] # {}
      BY <1>3, LoadsAllStep
    <2>3. ASSUME NEW i \in Ids, i <= maxId'[s] PROVE cmd[i] # {}
      <3>1. CASE maxId'[s] = maxId[s]
        BY <2>3, <3>1 DEF InvGap
      <3>2. CASE \E j \in Ids : maxId'[s] = j /\ cmd[j] # {}
        <4>1. PICK j \in Ids : maxId'[s] = j /\ cmd[j] # {}
          BY <3>2
        <4>2. i = j \/ i < j
          BY <1>0, <2>3, <4>1
        <4> QED BY <4>1, <4>2 DEF InvGap
      <3> QED BY <2>2, <3>1, <3>2
    <2>4. \A u \in Servers, i \in Ids : i <= maxId'[u] => cmd[i] # {}
      BY <2>1, <2>3 DEF InvGap
    <2> QED BY <2>1, <2>4 DEF InvGap
  <1>4. ASSUME NEW s \in Servers, NEW i \in Ids, SaveCommand(s, i) PROVE InvGap'
    <2>1. /\ UNCHANGED <<cmd, maxId>> /\ \A j \in Ids : j # i => row'[j] = row[j]
          /\ \/ row'[i] = row[i]
             \/ mem[s][i].status # "none" /\ row'[i].status = mem[s][i].status
      BY <1>4, SaveRow DEF SaveCommand
    <2> QED BY <2>1 DEF InvGap
  <1>5. ASSUME NEW s \in Servers, Crash(s) PROVE InvGap'
    <2>1. UNCHANGED <<cmd, row>> /\ \A u \in Servers : maxId'[u] \in {maxId[u], 0}
      BY <1>5 DEF Crash, rowVars, GmTypeOK
    <2>2. \A i \in Ids : ~(i <= 0)
      BY DEF Ids
    <2> QED BY <2>1, <2>2 DEF InvGap
  <1>6. ASSUME NEW s \in Servers, NEW i \in Ids,
               RejectCommand(s, i) \/ PendCommand(s, i) \/ TriggerCommand(s, i) \/ TickCommand(s, i)
        PROVE  InvGap'
    BY <1>6, <1>1, RunStep DEF VisitEffect
  <1>7. ASSUME NEW s \in Servers,
               \/ BeginUpdate(s) \/ BeginSave(s) \/ EndUpdate(s)
               \/ \E r \in Roles : HandleRole(s, r)
        PROVE  InvGap'
    BY <1>7, <1>1 DEF BeginUpdate, BeginSave, EndUpdate, HandleRole, rowVars, pollVars
  <1>8. ASSUME NEW t \in 1 .. MaxTime, Tick(t) PROVE InvGap'
    BY <1>8, <1>1 DEF Tick
  <1>9. CASE UNCHANGED gmVars
    BY <1>9, <1>1 DEF gmVars, rowVars, pollVars
  <1> QED BY <1>2, <1>3, <1>4, <1>5, <1>6, <1>7, <1>8, <1>9, NextCases

LEMMA LoadedStep ==
  ASSUME OneServer, ~IdGaps, fails' = 0, GmTypeOK, InvRow, InvMem, InvAhead, InvSaved, InvGap,
         InvLoaded, [GmNext]_gmVars
  PROVE  InvLoaded'
  <1>0. /\ \A i \in Ids : i \in Nat
        /\ \A s \in Servers : maxId[s] \in Nat /\ \A u \in Servers : u = s
    BY DEF Ids, GmTypeOK, OneServer
  <1>1. CASE /\ UNCHANGED <<cmd, row, maxId>> /\ \A s \in Servers : up[s] = "down" => up'[s] = "down"
             /\ \A s \in Servers, i \in Ids : mem[s][i].status # "none" => mem'[s][i].status # "none"
    BY <1>1 DEF InvLoaded, Loadable, CmdOf
  <1>2. ASSUME NEW i \in Ids, NEW c \in Menu, Insert(i, c) PROVE InvLoaded'
    <2>1. /\ cmd[i] = {} /\ row'[i].status = "new" /\ UNCHANGED <<up, maxId, mem>>
          /\ \A j \in Ids \ {i} : row'[j] = row[j] /\ (CmdOf(j))' = CmdOf(j)
      BY <1>2, InsertStep
    <2>2. \A s \in Servers : ~(i <= maxId[s])
      BY <2>1 DEF InvGap
    <2> QED BY <2>1, <2>2 DEF InvLoaded, Loadable
  <1>3. ASSUME NEW s \in Servers, InitGmCommand(s) PROVE InvLoaded'
    <2>1. /\ UNCHANGED cmd /\ \A i \in Ids : row'[i] = row[i] \/ row'[i].status = "error"
          /\ maxId[s] <= maxId'[s]
      BY <1>3, LoadRows
    <2>2. LoadsAll(s) /\ (maxId'[s] = maxId[s] \/ \E i \in Ids : maxId'[s] = i /\ cmd[i] # {})
      BY <1>3, LoadsAllStep
    <2>3. \A i \in Ids : row[i].status \in {"new", "pending", "running"} =>
            i <= maxId'[s] /\ (Loadable(i) => mem'[s][i].status # "none")
      BY <1>3, <2>2 DEF LoadsAll
    <2>4. \A i \in Ids : row[i].status \in {"none", "new", "pending", "running"} \cup Final
      BY DEF GmTypeOK, RowType, Status, Final
    <2>5. ASSUME NEW i \in Ids, i <= maxId'[s], Loadable(i)
          PROVE  mem'[s][i].status # "none" \/ row'[i].status \in Final
      <3>1. cmd[i] # {}
        BY <1>0, <2>2, <2>5 DEF InvGap
      <3>2. row[i].status # "none"
        BY <3>1 DEF InvGap
      <3> QED BY <2>1, <2>3, <2>4, <2>5, <3>2 DEF Final
    <2>6. ASSUME NEW i \in Ids, maxId'[s] < i PROVE row'[i].status \in {"none", "new"} \cup Final
      <3>1. maxId'[s] \in Nat
        BY <1>0, <2>2
      <3>2. row[i].status \in {"none"} \cup Final
        BY <1>0, <2>3, <2>4, <2>6, <3>1
      <3> QED BY <2>1, <3>2 DEF Final
    <2> QED BY <1>0, <2>1, <2>5, <2>6 DEF InvLoaded, Loadable, CmdOf
  <1>4. ASSUME NEW s \in Servers, ReadNewGmCommand(s) PROVE InvLoaded'
    <2>1. /\ UNCHANGED cmd /\ \A i \in Ids : row'[i] = row[i] \/ row'[i].status = "error"
          /\ maxId[s] <= maxId'[s] /\ up[s] # "down"
          /\ \A i \in Ids : mem[s][i].status # "none" => mem'[s][i] = mem[s][i]
      <3>1. up[s] = "idle" /\ maxId[s] <= maxId'[s] /\ UNCHANGED cmd
        BY <1>4, LoadRows
      <3>2. /\ \A i \in Ids : row'[i] = row[i] \/ row'[i].status = "error"
            /\ \A i \in Ids : mem[s][i].status # "none" => mem'[s][i] = mem[s][i]
        BY <1>4, LoadRows
      <3> QED BY <3>1, <3>2
    <2>2. \A i \in Ids : row[i].status = "new" /\ i > maxId[s] =>
            i <= maxId'[s] /\ (Loadable(i) => mem'[s][i].status # "none")
      BY <1>4, LoadsAllStep DEF LoadsAll
    <2>3. maxId'[s] = maxId[s] \/ \E i \in Ids : maxId'[s] = i /\ cmd[i] # {}
      BY <1>4, LoadsAllStep
    <2>4. maxId'[s] \in Nat
      BY <1>0, <2>3
    <2>5. ASSUME NEW i \in Ids, i <= maxId'[s], Loadable(i)
          PROVE  mem'[s][i].status # "none" \/ row'[i].status \in Final
      <3>1. CASE i <= maxId[s]
        BY <2>1, <2>5, <3>1 DEF InvLoaded, Final
      <3>2. CASE maxId[s] < i
        <4>1. \E j \in Ids : maxId'[s] = j /\ cmd[j] # {}
          BY <1>0, <2>3, <2>5, <3>2
        <4>2. cmd[i] # {}
          BY <1>0, <2>5, <4>1 DEF InvGap
        <4>3. row[i].status \in {"new"} \cup Final
          BY <2>1, <3>2, <4>2 DEF InvGap, InvLoaded
        <4> QED BY <1>0, <2>1, <2>2, <2>5, <3>2, <4>3 DEF Final
      <3> QED BY <1>0, <3>1, <3>2
    <2>6. ASSUME NEW i \in Ids, maxId'[s] < i PROVE row'[i].status \in {"none", "new"} \cup Final
      <3>1. maxId[s] < i
        BY <1>0, <2>1, <2>4, <2>6
      <3> QED BY <2>1, <3>1 DEF InvLoaded, Final
    <2> QED BY <1>0, <2>1, <2>5, <2>6 DEF InvLoaded, Loadable, CmdOf
  <1>5. ASSUME NEW s \in Servers, NEW i \in Ids,
               RejectCommand(s, i) \/ PendCommand(s, i) \/ TriggerCommand(s, i) \/ TickCommand(s, i)
        PROVE  InvLoaded'
    <2>1. /\ UNCHANGED <<cmd, row, up, maxId>> /\ mem'[s][i].status # "none"
          /\ \A u \in Servers, j \in Ids : u # s \/ j # i => mem'[u][j] = mem[u][j]
      BY <1>5, RunStep DEF VisitEffect
    <2> QED BY <1>1, <2>1
  <1>6. ASSUME NEW s \in Servers, NEW i \in Ids, SaveCommand(s, i) PROVE InvLoaded'
    <2>1. /\ UNCHANGED <<cmd, up, maxId>>
          /\ \A u \in Servers, j \in Ids : mem'[u][j].status = mem[u][j].status
          /\ \A j \in Ids : j # i => row'[j] = row[j]
          /\ row'[i] = row[i] \/ mem[s][i].status # "none"
      <3>1. UNCHANGED <<cmd, up, maxId>>
        BY <1>6 DEF SaveCommand
      <3>2. \A u \in Servers, j \in Ids : mem'[u][j].status = mem[u][j].status
        BY <1>6, SaveMem
      <3>3. /\ \A j \in Ids : j # i => row'[j] = row[j]
            /\ row'[i] = row[i] \/ mem[s][i].status # "none"
        BY <1>6, SaveRow
      <3> QED BY <3>1, <3>2, <3>3
    <2>2. mem[s][i].status # "none" => i <= maxId[s]
      BY DEF InvMem
    <2> QED BY <1>0, <2>1, <2>2 DEF InvLoaded, Loadable, CmdOf
  <1>7. ASSUME NEW s \in Servers, EndUpdate(s) PROVE InvLoaded'
    <2>1. /\ UNCHANGED <<cmd, row, maxId>> /\ up[s] = "save" /\ todo[s] = {}
          /\ \A i \in Ids : mem'[s][i] = IF mem[s][i].status \in Final THEN NotMem ELSE mem[s][i]
      BY <1>7, EndKeeps DEF EndUpdate, rowVars
    <2>2. \A i \in Ids : mem[s][i].status \in Final => row[i].status \in Final
      BY <2>1 DEF InvSaved, InMem, Final
    <2> QED BY <1>0, <2>1, <2>2 DEF InvLoaded, Loadable, CmdOf
  <1>8. ASSUME NEW s \in Servers, Crash(s) PROVE InvLoaded'
    <2>1. up'[s] = "down"
      BY <1>8 DEF Crash, GmTypeOK
    <2> QED BY <1>0, <2>1 DEF InvLoaded
  <1>9. ASSUME NEW s \in Servers, BeginUpdate(s) \/ BeginSave(s) PROVE InvLoaded'
    <2>1. UNCHANGED <<cmd, row, mem, maxId>> /\ up[s] # "down"
      BY <1>9 DEF BeginUpdate, BeginSave, rowVars
    <2> QED BY <1>0, <1>1, <2>1
  <1>10. ASSUME NEW s \in Servers, NEW r \in Roles, HandleRole(s, r) PROVE InvLoaded'
    BY <1>10, <1>1 DEF HandleRole, rowVars, pollVars
  <1>11. ASSUME NEW t \in 1 .. MaxTime, Tick(t) PROVE InvLoaded'
    BY <1>11, <1>1 DEF Tick
  <1>12. CASE UNCHANGED gmVars
    BY <1>12, <1>1 DEF gmVars, rowVars, pollVars
  <1> QED BY <1>2, <1>3, <1>4, <1>5, <1>6, <1>7, <1>8, <1>9, <1>10, <1>11, <1>12, NextCases

LEMMA FirstStep ==
  ASSUME OneServer, ~ClockSteps, GmTypeOK, InvRow, InvMem, InvAhead, InvTime, InvFirst, [GmNext]_gmVars
  PROVE  InvFirst'
  <1>0. /\ now \in Nat
        /\ \A s \in Servers : dwTime[s] \in Nat /\ maxTime[s] \in Nat /\ \A u \in Servers : u = s
        /\ \A i \in Ids : row[i].start \in Nat
        /\ \A s \in Servers, i \in Ids : mem[s][i].start \in Nat
    BY DEF GmTypeOK, RowType, MemType, OneServer
  <1>1. CASE UNCHANGED <<cmd, row, now, up, mem, dwTime, todo>>
    BY <1>1 DEF InvFirst, StartsAtOnce, CmdOf
  <1>2. ASSUME NEW i \in Ids, NEW c \in Menu, Insert(i, c) PROVE InvFirst'
    <2>1. /\ (CmdOf(i))' = c /\ row'[i].status = "new" /\ row'[i].start = c.start
          /\ \A s \in Servers : mem[s][i].status = "none"
          /\ UNCHANGED <<now, up, mem, dwTime>>
      BY <1>2, InsertStep
    <2>2. /\ \A j \in Ids \ {i} : cmd'[j] = cmd[j] /\ row'[j] = row[j] /\ (CmdOf(j))' = CmdOf(j)
          /\ UNCHANGED todo
      BY <1>2, InsertStep DEF Insert, pollVars
    <2> QED BY <2>1, <2>2 DEF InvFirst, StartsAtOnce
  <1>3. ASSUME NEW t \in 1 .. MaxTime, Tick(t) PROVE InvFirst'
    <2>1. t > now /\ now' = t /\ t \in Nat /\ UNCHANGED <<cmd, row, up, mem, dwTime, todo>>
      BY <1>3, GmAssumption DEF Tick
    <2> QED BY <1>0, <2>1 DEF InvFirst, StartsAtOnce, CmdOf
  <1>4. ASSUME NEW s \in Servers, InitGmCommand(s) \/ ReadNewGmCommand(s) PROVE InvFirst'
    <2>1. /\ UNCHANGED <<cmd, now, dwTime, todo>>
          /\ up' = [up EXCEPT ![s] = IF InitGmCommand(s) THEN "idle" ELSE "update"]
      BY <1>4, LoadRows
    <2>2. up'[s] \notin {"run", "save"}
      BY <2>1 DEF GmTypeOK
    <2>3. \A i \in Ids : row'[i] = row[i] \/ row'[i].status = "error"
      BY <1>4, LoadRows
    <2>4. \A i \in Ids :
            \/ mem'[s][i] = mem[s][i]
            \/ mem'[s][i].status = row[i].status /\ mem'[s][i].start = row[i].start
      BY <1>4, LoadRows
    <2> QED BY <1>0, <2>1, <2>2, <2>3, <2>4 DEF InvFirst, StartsAtOnce, CmdOf
  <1>5. ASSUME NEW s \in Servers, BeginUpdate(s) PROVE InvFirst'
    <2>1. PICK t \in {now, 0} :
            IF t <= maxTime[s]
              THEN up' = [up EXCEPT ![s] = "idle"] /\ UNCHANGED <<dwTime, todo>>
              ELSE /\ up'     = [up EXCEPT ![s] = "run"]
                   /\ dwTime' = [dwTime EXCEPT ![s] = t]
                   /\ todo'   = [todo EXCEPT ![s] = InMem(s)]
      BY <1>5 DEF BeginUpdate
    <2>2. t = now \/ t <= maxTime[s]
      BY <1>0, <2>1
    <2>3. \/ up'[s] = "idle"
          \/ up'[s] = "run" /\ dwTime'[s] = now /\ todo'[s] = InMem(s)
      BY <2>1, <2>2 DEF GmTypeOK
    <2>4. UNCHANGED <<cmd, row, now, mem>>
      BY <1>5 DEF BeginUpdate, rowVars
    <2> QED BY <1>0, <2>3, <2>4 DEF InvFirst, StartsAtOnce, CmdOf, InMem
  <1>6. ASSUME NEW s \in Servers, BeginSave(s) PROVE InvFirst'
    <2>1. UNCHANGED <<cmd, row, now, mem, dwTime>> /\ up[s] = "run" /\ up'[s] = "save"
      BY <1>6 DEF BeginSave, rowVars, GmTypeOK
    <2> QED BY <1>0, <2>1 DEF InvFirst, StartsAtOnce, CmdOf
  <1>7. ASSUME NEW s \in Servers, NEW i \in Ids,
               RejectCommand(s, i) \/ PendCommand(s, i) \/ TriggerCommand(s, i) \/ TickCommand(s, i)
        PROVE  InvFirst'
    <2>1. VisitEffect(s, i) /\ VisitTimes(s, i)
      BY <1>7, RunStep, TimesStep
    <2>2. /\ UNCHANGED <<cmd, row, now, up, dwTime>> /\ up[s] = "run"
          /\ \A j \in Ids \ {i} : mem'[s][j] = mem[s][j] /\ (j \in todo'[s] <=> j \in todo[s])
      BY <2>1 DEF VisitEffect, VisitTimes, Visit, GmTypeOK
    <2>3. dwTime[s] > 0 /\ dwTime[s] <= now
      BY <1>0, <2>2 DEF InvTime
    <2>4. mem'[s][i].status \in {"pending", "running", "complete", "error"}
      BY <2>1 DEF VisitEffect
    <2>5. ASSUME StartsAtOnce(i), mem'[s][i].status = "pending"
          PROVE  mem'[s][i].start = dwTime[s]
      <3>1. mem'[s][i].start = (IF mem[s][i].start = 0 THEN dwTime[s] ELSE mem[s][i].start)
            /\ dwTime[s] <= mem'[s][i].start
        BY <2>1, <2>5 DEF VisitTimes
      <3>2. mem[s][i].status \in {"new", "pending"}
        BY <2>1, <2>5 DEF VisitEffect
      <3>3. mem[s][i].start = 0 \/ mem[s][i].start <= dwTime[s]
        BY <2>2, <2>5, <3>2 DEF InvFirst
      <3> QED BY <1>0, <3>1, <3>3
    <2> QED BY <1>0, <2>2, <2>3, <2>4, <2>5 DEF InvFirst, StartsAtOnce, CmdOf
  <1>8. ASSUME NEW s \in Servers, NEW i \in Ids, SaveCommand(s, i) PROVE InvFirst'
    <2>1. UNCHANGED <<cmd, now, up, dwTime>> /\ up[s] = "save"
      BY <1>8 DEF SaveCommand
    <2>2. \A j \in Ids : mem'[s][j].status = mem[s][j].status /\ mem'[s][j].start = mem[s][j].start
      BY <1>8, SaveMem
    <2>3. \A j \in Ids :
            \/ row'[j] = row[j]
            \/ row'[j].status = mem[s][j].status /\ row'[j].start = mem[s][j].start
      BY <1>8, SaveRow
    <2> QED BY <1>0, <2>1, <2>2, <2>3 DEF InvFirst, StartsAtOnce, CmdOf
  <1>9. ASSUME NEW s \in Servers, EndUpdate(s) \/ Crash(s) PROVE InvFirst'
    <2>1. UNCHANGED <<cmd, row, now>> /\ up'[s] \in {"idle", "down"}
      BY <1>9 DEF EndUpdate, Crash, rowVars, GmTypeOK
    <2>2. \A i \in Ids : mem'[s][i] = mem[s][i] \/ mem'[s][i] = NotMem
      BY <1>9, EndMem
    <2> QED BY <1>0, <2>1, <2>2 DEF InvFirst, StartsAtOnce, CmdOf, NotMem
  <1>10. ASSUME NEW s \in Servers, NEW r \in Roles, HandleRole(s, r) PROVE InvFirst'
    BY <1>10, <1>1 DEF HandleRole, rowVars, pollVars
  <1>11. CASE UNCHANGED gmVars
    BY <1>11, <1>1 DEF gmVars, rowVars, pollVars
  <1> QED BY <1>2, <1>3, <1>4, <1>5, <1>6, <1>7, <1>8, <1>9, <1>10, <1>11, NextCases

LEMMA OrderStep ==
  ASSUME OneServer, ~ClockSteps, ~IdGaps, fails' = 0, GmTypeOK, InvRow, InvMem, InvAhead, InvTime,
         InvSaved, InvGap, InvLoaded, InvFirst, InvOrder, [GmNext]_gmVars
  PROVE  InvOrder'
  <1>0. /\ \A i, j \in Ids : i \in Nat /\ (i < j => i # j /\ ~(j <= i))
        /\ \A s \in Servers : dwTime[s] \in Nat /\ maxId[s] \in Nat /\ \A u \in Servers : u = s
        /\ \A i \in Ids : row[i].start \in Nat
        /\ \A s \in Servers, i \in Ids : mem[s][i].start \in Nat
    <2>1. \A i, j \in Ids : i \in Nat /\ (i < j => i # j /\ ~(j <= i))
      BY GmAssumption DEF Ids
    <2>2. \A s \in Servers : dwTime[s] \in Nat /\ maxId[s] \in Nat /\ \A u \in Servers : u = s
      BY DEF GmTypeOK, OneServer
    <2>3. /\ \A i \in Ids : row[i].start \in Nat
          /\ \A s \in Servers, i \in Ids : mem[s][i].start \in Nat
      BY DEF GmTypeOK, RowType, MemType
    <2> QED BY <2>1, <2>2, <2>3
  <1>1. CASE UNCHANGED <<cmd, row, mem>>
    BY <1>1 DEF InvOrder, StartsAtOnce, Loadable, CmdOf
  <1>2. ASSUME NEW k \in Ids, NEW c \in Menu, Insert(k, c) PROVE InvOrder'
    <2>1. /\ cmd[k] = {} /\ row'[k].status = "new" /\ UNCHANGED mem
          /\ \A s \in Servers : mem[s][k].status = "none"
          /\ \A j \in Ids \ {k} : cmd'[j] = cmd[j] /\ row'[j] = row[j] /\ (CmdOf(j))' = CmdOf(j)
      BY <1>2, InsertStep
    <2> SUFFICES ASSUME NEW i \in Ids, NEW j \in Ids, i < j, StartsAtOnce(i)', StartsAtOnce(j)', Loadable(i)'
                 PROVE  /\ NotBehind(row[i], row[j])'
                        /\ \A s \in Servers : NotBehind(mem[s][i], row[j])' /\ NotBehind(mem[s][i], mem[s][j])'
      BY DEF InvOrder
    <2>2. CASE j = k
      BY <2>1, <2>2 DEF NotBehind, Begun
    <2>3. CASE j # k
      <3>1. cmd[j] # {} /\ i # k
        BY <2>1, <2>3 DEF StartsAtOnce, InvGap
      <3>2. StartsAtOnce(i) /\ StartsAtOnce(j) /\ Loadable(i)
        BY <2>1, <2>3, <3>1 DEF StartsAtOnce, Loadable
      <3> QED BY <2>1, <2>3, <3>1, <3>2 DEF InvOrder, NotBehind
    <2> QED BY <2>2, <2>3
  <1>3. ASSUME UNCHANGED cmd,
               \A i \in Ids, j \in Ids, s \in Servers :
                 /\ i < j /\ StartsAtOnce(i) /\ StartsAtOnce(j) /\ Loadable(i)
                 /\ NotBehind(row[i], row[j])
                 /\ NotBehind(mem[s][i], row[j]) /\ NotBehind(mem[s][i], mem[s][j])
                 => /\ NotBehind(row'[i], row'[j])
                    /\ NotBehind(mem'[s][i], row'[j]) /\ NotBehind(mem'[s][i], mem'[s][j]),
               NEW s \in Servers
        PROVE  InvOrder'
    <2> SUFFICES ASSUME NEW i \in Ids, NEW j \in Ids, i < j, StartsAtOnce(i)', StartsAtOnce(j)', Loadable(i)'
                 PROVE  /\ NotBehind(row[i], row[j])'
                        /\ \A u \in Servers : NotBehind(mem[u][i], row[j])' /\ NotBehind(mem[u][i], mem[u][j])'
      BY DEF InvOrder
    <2>1. StartsAtOnce(i) /\ StartsAtOnce(j) /\ Loadable(i)
      BY <1>3 DEF StartsAtOnce, Loadable, CmdOf
    <2>2. /\ NotBehind(row[i], row[j])
          /\ \A u \in Servers : NotBehind(mem[u][i], row[j]) /\ NotBehind(mem[u][i], mem[u][j])
      BY <2>1 DEF InvOrder
    <2>3. /\ NotBehind(row'[i], row'[j])
          /\ \A u \in Servers : NotBehind(mem'[u][i], row'[j]) /\ NotBehind(mem'[u][i], mem'[u][j])
      BY <1>3, <2>1, <2>2
    <2> QED BY <2>3 DEF NotBehind
  <1>4. ASSUME NEW s \in Servers, InitGmCommand(s) \/ ReadNewGmCommand(s) PROVE InvOrder'
    <2>1. UNCHANGED cmd /\ \A i \in Ids : row'[i] = row[i] \/ row'[i].status = "error"
      BY <1>4, LoadRows
    <2>2. \A i \in Ids :
            \/ mem'[s][i] = mem[s][i]
            \/ /\ mem[s][i].status = "none" /\ (ReadNewGmCommand(s) => i > maxId[s])
               /\ mem'[s][i].status = row[i].status /\ mem'[s][i].start = row[i].start
      BY <1>4, LoadRows
    <2>3. ASSUME NEW i \in Ids, NEW j \in Ids, i < j, mem[s][j].status # "none"
          PROVE  mem'[s][i] = mem[s][i]
      <3>1. ~InitGmCommand(s)
        BY <2>3, LoadRows
      <3>2. ReadNewGmCommand(s) /\ j <= maxId[s]
        BY <1>4, <2>3, <3>1 DEF InvMem
      <3>3. ~(i > maxId[s])
        BY <1>0, <2>3, <3>2
      <3> QED BY <2>2, <3>2, <3>3
    <2>4. ASSUME NEW i \in Ids, NEW j \in Ids, i < j, NotBehind(row[i], row[j]),
                 NotBehind(mem[s][i], row[j]), NotBehind(mem[s][i], mem[s][j])
          PROVE  /\ NotBehind(row'[i], row'[j])
                 /\ NotBehind(mem'[s][i], row'[j]) /\ NotBehind(mem'[s][i], mem'[s][j])
      <3>1. \A a : NotBehind(a, row[j]) => NotBehind(a, row'[j])
        BY <2>1 DEF NotBehind, Begun
      <3>2. NotBehind(row'[i], row[j])
        BY <2>1, <2>4 DEF NotBehind
      <3>3. NotBehind(mem'[s][i], row[j])
        BY <2>2, <2>4 DEF NotBehind
      <3>4. NotBehind(mem'[s][i], mem'[s][j])
        <4>1. CASE mem'[s][j] = mem[s][j] /\ mem[s][j].status = "none"
          BY <4>1 DEF NotBehind, Begun
        <4>2. CASE mem'[s][j] = mem[s][j] /\ mem[s][j].status # "none"
          BY <2>3, <2>4, <4>2
        <4>3. CASE mem'[s][j].status = row[j].status /\ mem'[s][j].start = row[j].start
          BY <3>3, <4>3 DEF NotBehind
        <4> QED BY <2>2, <4>1, <4>2, <4>3
      <3> QED BY <3>1, <3>2, <3>3, <3>4
    <2> QED BY <1>0, <1>3, <2>1, <2>4
  <1>5. ASSUME NEW s \in Servers, NEW k \in Ids,
               RejectCommand(s, k) \/ PendCommand(s, k) \/ TriggerCommand(s, k) \/ TickCommand(s, k)
        PROVE  InvOrder'
    <2>1. VisitEffect(s, k) /\ VisitTimes(s, k)
      BY <1>5, RunStep, TimesStep
    <2>2. /\ UNCHANGED <<cmd, row>> /\ up[s] = "run" /\ k \in todo[s] /\ \A j \in todo[s] : k <= j
          /\ \A j \in Ids \ {k} : mem'[s][j] = mem[s][j]
          /\ mem'[s][k].status # "new"
      BY <2>1 DEF VisitEffect, VisitTimes, Visit
    \* The command visited is the older one: it was not behind and moves on.
    <2>3. ASSUME StartsAtOnce(k), NEW b, NotBehind(mem[s][k], b) PROVE NotBehind(mem'[s][k], b)
      <3>1. CASE mem'[s][k].status = "pending" /\ b.status \in Begun
        <4>1. mem[s][k].status = "pending"
          BY <2>1, <2>3, <3>1 DEF VisitEffect, NotBehind
        <4>2. mem[s][k].start \in 1 .. now
          BY <2>3, <4>1 DEF InvFirst
        <4>3. mem'[s][k].start = mem[s][k].start
          BY <2>1, <3>1, <4>2 DEF VisitTimes
        <4> QED BY <2>3, <3>1, <4>1, <4>3 DEF NotBehind
      <3> QED BY <2>2, <3>1 DEF NotBehind
    \* It is the newer one: the older one was visited before.
    <2>4. ASSUME NEW i \in Ids, i < k, StartsAtOnce(i), StartsAtOnce(k), NotBehind(mem[s][i], mem[s][k]),
                 mem'[s][k].status \in Begun
          PROVE  NotBehind(mem[s][i], mem'[s][k])
      <3>1. i \notin todo[s]
        BY <1>0, <2>2, <2>4
      <3>2. /\ mem[s][i].status # "new"
            /\ mem[s][i].status = "pending" => mem[s][i].start = dwTime[s]
        BY <1>0, <2>2, <2>4, <3>1 DEF InvFirst
      <3>3. CASE mem'[s][k].status = "pending"
        <4>1. dwTime[s] <= mem'[s][k].start
          BY <2>1, <3>3 DEF VisitTimes
        <4> QED BY <3>2, <3>3, <4>1 DEF NotBehind
      <3>4. CASE mem'[s][k].status # "pending" /\ mem[s][k].status = "running"
        BY <2>4, <3>4 DEF NotBehind, Begun
      <3>5. CASE mem'[s][k].status # "pending" /\ mem[s][k].status # "running"
        <4>1. mem[s][k].start # 0 /\ mem[s][k].start < dwTime[s]
          BY <2>1, <2>4, <3>5 DEF VisitTimes, Begun
        <4>2. mem[s][k].status \in {"new", "pending"}
          BY <2>1, <3>5 DEF VisitEffect
        <4>3. mem[s][k].status = "pending"
          BY <2>4, <4>1, <4>2 DEF InvFirst
        <4>4. mem[s][i].status = "pending" => mem[s][i].start <= mem[s][k].start
          BY <2>4, <4>3 DEF NotBehind, Begun
        <4>5. mem[s][i].status # "pending"
          BY <1>0, <3>2, <4>1, <4>4
        <4> QED BY <3>2, <4>5 DEF NotBehind
      <3> QED BY <3>3, <3>4, <3>5
    <2>5. ASSUME NEW i \in Ids, NEW j \in Ids, i < j, StartsAtOnce(i), StartsAtOnce(j),
                 NotBehind(mem[s][i], row[j]), NotBehind(mem[s][i], mem[s][j])
          PROVE  NotBehind(mem'[s][i], row[j]) /\ NotBehind(mem'[s][i], mem'[s][j])
      <3>1. CASE i = k
        <4>1. mem'[s][j] = mem[s][j]
          BY <1>0, <2>2, <2>5, <3>1
        <4> QED BY <2>3, <2>5, <3>1, <4>1
      <3>2. CASE j = k
        <4>1. mem'[s][i] = mem[s][i]
          BY <1>0, <2>2, <2>5, <3>2
        <4>2. mem'[s][k].status \notin Begun => NotBehind(mem[s][i], mem'[s][k])
          BY DEF NotBehind
        <4> QED BY <2>4, <2>5, <3>2, <4>1, <4>2
      <3>3. CASE i # k /\ j # k
        BY <2>2, <2>5, <3>3
      <3> QED BY <3>1, <3>2, <3>3
    <2> QED BY <1>0, <1>3, <2>2, <2>5
  <1>6. ASSUME NEW s \in Servers, NEW k \in Ids, SaveCommand(s, k) PROVE InvOrder'
    <2>1. /\ UNCHANGED cmd /\ up[s] = "save" /\ k \in todo[s] /\ \A j \in todo[s] : k <= j
          /\ \A j \in Ids : mem'[s][j].status = mem[s][j].status /\ mem'[s][j].start = mem[s][j].start
      BY <1>6, SaveMem DEF SaveCommand, Visit
    <2>2. /\ \A j \in Ids : j # k => row'[j] = row[j]
          /\ \/ row'[k] = row[k]
             \/ /\ mem[s][k].status # "none"
                /\ row'[k].status = mem[s][k].status /\ row'[k].start = mem[s][k].start
      BY <1>6, SaveRow
    <2>3. \A a, b : \A j \in Ids :
            /\ NotBehind(mem[s][j], b) => NotBehind(mem'[s][j], b)
            /\ NotBehind(a, mem[s][j]) => NotBehind(a, mem'[s][j])
      BY <2>1 DEF NotBehind
    \* The older command was written before, or is final.
    <2>4. ASSUME NEW i \in Ids, i < k, StartsAtOnce(i), Loadable(i), NotBehind(mem[s][i], mem[s][k]),
                 mem[s][k].status # "none"
          PROVE  NotBehind(row[i], mem[s][k])
      <3>1. i \notin todo[s]
        BY <1>0, <2>1, <2>4
      <3>2. CASE mem[s][i].status # "none"
        <4>1. ~mem[s][i].dirty
          BY <2>1, <3>1, <3>2 DEF InvSaved, InMem
        <4>2. row[i].status = mem[s][i].status /\ row[i].start = mem[s][i].start
          BY <3>2, <4>1 DEF InvSaved
        <4> QED BY <2>4, <4>2 DEF NotBehind
      <3>3. CASE mem[s][i].status = "none"
        <4>1. k <= maxId[s]
          BY <2>4 DEF InvMem
        <4>2. i <= maxId[s]
          BY <1>0, <2>4, <4>1
        <4>3. row[i].status \in Final
          BY <2>1, <2>4, <3>3, <4>2 DEF InvLoaded
        <4> QED BY <4>3 DEF NotBehind, Final
      <3> QED BY <3>2, <3>3
    <2>5. ASSUME NEW i \in Ids, NEW j \in Ids, i < j, StartsAtOnce(i), StartsAtOnce(j), Loadable(i),
                 NotBehind(row[i], row[j]), NotBehind(mem[s][i], row[j]), NotBehind(mem[s][i], mem[s][j])
          PROVE  NotBehind(row'[i], row'[j]) /\ NotBehind(mem[s][i], row'[j])
      <3>1. CASE i = k
        <4>1. row'[j] = row[j]
          BY <1>0, <2>2, <2>5, <3>1
        <4> QED BY <2>2, <2>5, <3>1, <4>1 DEF NotBehind
      <3>2. CASE j = k
        <4>1. row'[i] = row[i]
          BY <1>0, <2>2, <2>5, <3>2
        <4>2. CASE row'[k] = row[k]
          BY <2>5, <3>2, <4>1, <4>2
        <4>3. CASE /\ mem[s][k].status # "none"
                   /\ row'[k].status = mem[s][k].status /\ row'[k].start = mem[s][k].start
          <5>1. NotBehind(row[i], mem[s][k])
            BY <2>4, <2>5, <3>2, <4>3
          <5> QED BY <2>5, <3>2, <4>1, <4>3, <5>1 DEF NotBehind
        <4> QED BY <2>2, <4>2, <4>3
      <3>3. CASE i # k /\ j # k
        BY <2>2, <2>5, <3>3
      <3> QED BY <3>1, <3>2, <3>3
    <2> QED BY <1>0, <1>3, <2>1, <2>3, <2>5
  <1>7. ASSUME NEW s \in Servers, EndUpdate(s) \/ Crash(s) PROVE InvOrder'
    <2>1. UNCHANGED <<cmd, row>>
      BY <1>7 DEF EndUpdate, Crash, rowVars
    <2>2. \A i \in Ids : mem'[s][i] = mem[s][i] \/ mem'[s][i].status = "none"
      BY <1>7, EndMem DEF NotMem
    <2>3. ASSUME NEW i \in Ids, NEW j \in Ids, NotBehind(mem[s][i], row[j]), NotBehind(mem[s][i], mem[s][j])
          PROVE  NotBehind(mem'[s][i], row[j]) /\ NotBehind(mem'[s][i], mem'[s][j])
      BY <2>2, <2>3 DEF NotBehind, Begun
    <2> QED BY <1>0, <1>3, <2>1, <2>3
  <1>8. ASSUME NEW s \in Servers, BeginUpdate(s) \/ BeginSave(s) \/ \E r \in Roles : HandleRole(s, r)
        PROVE  InvOrder'
    BY <1>8, <1>1 DEF BeginUpdate, BeginSave, HandleRole, rowVars, pollVars
  <1>9. ASSUME NEW t \in 1 .. MaxTime, Tick(t) PROVE InvOrder'
    BY <1>9, <1>1 DEF Tick
  <1>10. CASE UNCHANGED gmVars
    BY <1>10, <1>1 DEF gmVars, rowVars, pollVars
  <1> QED BY <1>2, <1>4, <1>5, <1>6, <1>7, <1>8, <1>9, <1>10, NextCases

OrderInv == InvGap /\ InvLoaded /\ InvFirst /\ InvOrder

LEMMA InitOrder == GmInit => OrderInv
  <1> SUFFICES ASSUME GmInit PROVE OrderInv
    OBVIOUS
  <1>1. InvGap
    BY DEF GmInit, InvGap, Ids
  <1> QED BY <1>1 DEF GmInit, NoRow, NotMem, OrderInv, InvLoaded, InvFirst, InvOrder, StartsAtOnce

(* An older command is applied to a passport after the table says that a     *)
(* newer one was.                                                            *)
OutOfOrder ==
  \E i, j \in Ids :
    /\ i < j /\ cmd[i] # {} /\ cmd[j] # {}
    /\ CmdOf(i).start = 0 /\ CmdOf(j).start = 0
    /\ CmdOf(i).passport = CmdOf(j).passport
    /\ row[j].status \in {"running", "complete"}
    /\ runs'[i] # runs[i]

(* With one login server, a clock that is not set back and auto_ids          *)
(* committed in order, over crashes, and until a statement fails for the     *)
(* first time: a command without a start time is not applied to a passport   *)
(* any more once the table says that a newer one was.                        *)
THEOREM OrderedUntilFailure ==
  ASSUME OneServer, ~ClockSteps, ~IdGaps PROVE GmSpec => [][NoneFailed => ~OutOfOrder]_gmVars
  <1>1. /\ IInv /\ RoleInv /\ (NoneFailed => SeesInv) /\ (NoneFailed => OrderInv)
        /\ [GmNext]_gmVars
        => (NoneFailed => OrderInv)'
    <2> SUFFICES ASSUME IInv, RoleInv, NoneFailed => SeesInv, NoneFailed => OrderInv,
                        [GmNext]_gmVars, NoneFailed'
                 PROVE  OrderInv'
      OBVIOUS
    <2>1. SeesInv /\ OrderInv /\ fails' = 0
      BY NoneFailedStep
    <2> QED BY <2>1, GapStep, LoadedStep, FirstStep, OrderStep DEF IInv, RoleInv, SeesInv, OrderInv
  <1>2. /\ IInv /\ RoleInv /\ (NoneFailed => OrderInv) /\ [GmNext]_gmVars
        => [NoneFailed => ~OutOfOrder]_gmVars
    <2> SUFFICES ASSUME IInv, RoleInv, OrderInv, GmNext, NEW i \in Ids, NEW j \in Ids,
                        i < j, StartsAtOnce(i), StartsAtOnce(j),
                        row[j].status \in {"running", "complete"}, runs'[i] # runs[i]
                 PROVE  FALSE
      BY DEF StartsAtOnce, OutOfOrder
    <2>1. PICK s \in Servers : mem[s][i].status \in {"new", "pending"}
      <3>1. ASSUME NEW s \in Servers, NEW k \in Ids,
                   RejectCommand(s, k) \/ PendCommand(s, k) \/ TriggerCommand(s, k) \/ TickCommand(s, k)
            PROVE  mem[s][i].status \in {"new", "pending"}
        <4>1. GmTypeOK
          BY DEF IInv
        <4>2. VisitEffect(s, k)
          BY <3>1, <4>1, RunStep
        <4>3. runs' = [runs EXCEPT ![k] = @ + 1] /\ mem[s][k].status \in {"new", "pending"}
          BY <4>2 DEF VisitEffect
        <4>4. k = i
          BY <4>1, <4>3 DEF GmTypeOK
        <4> QED BY <4>3, <4>4
      <3>2. ASSUME UNCHANGED runs PROVE FALSE
        BY <3>2
      <3>3. ASSUME NEW s \in Servers,
                   \/ InitGmCommand(s) \/ ReadNewGmCommand(s) \/ BeginUpdate(s) \/ BeginSave(s)
                   \/ EndUpdate(s) \/ Crash(s) \/ \E k \in Ids : SaveCommand(s, k)
                   \/ \E r \in Roles : HandleRole(s, r)
            PROVE  UNCHANGED runs
        BY <3>3 DEF InitGmCommand, ReadNewGmCommand, BeginUpdate, BeginSave, EndUpdate, Crash,
                    SaveCommand, HandleRole, histVars
      <3>4. ASSUME \/ \E k \in Ids, c \in Menu : Insert(k, c)
                   \/ \E t \in 1 .. MaxTime : Tick(t)
            PROVE  UNCHANGED runs
        BY <3>4 DEF Insert, Tick, histVars
      <3>5. ~UNCHANGED gmVars
        BY <3>2 DEF gmVars, histVars
      <3> QED BY <3>1, <3>2, <3>3, <3>4, <3>5, NextCases
    <2>2. Loadable(i)
      BY <2>1 DEF IInv, RoleInv, InvAhead, GmTypeOK, InMem, Loadable, CheckTargetType
    <2>3. NotBehind(mem[s][i], row[j])
      BY <2>2 DEF OrderInv, InvOrder
    <2> QED BY <2>1, <2>3 DEF NotBehind, Begun
  <1> QED BY InitOrder, SeesInvariance, GmInvariance, <1>1, <1>2, PTL DEF GmSpec

(* Where statements do not fail, they take effect in order.                  *)
THEOREM AppliedInOrder ==
  ASSUME OneServer, ~ClockSteps, ~IdGaps, MaxFails = 0 PROVE GmSpec => InOrder
  <1>1. IInv /\ FailsInBound => NoneFailed
    BY DEF IInv, GmTypeOK, NoneFailed, FailsInBound
  <1>2. NoneFailed /\ [NoneFailed => ~OutOfOrder]_gmVars =>
          [\A i, j \in Ids :
             /\ i < j /\ cmd[i] # {} /\ cmd[j] # {}
             /\ CmdOf(i).start = 0 /\ CmdOf(j).start = 0
             /\ CmdOf(i).passport = CmdOf(j).passport
             /\ row[j].status \in {"running", "complete"}
             => runs'[i] = runs[i]]_gmVars
    BY DEF OutOfOrder
  <1> QED BY OrderedUntilFailure, GmInvariance, FailsBounded, <1>1, <1>2, PTL DEF InOrder

-----------------------------------------------------------------------------
(* What a command sets.  Only Validate knows the authority that the operator *)
(* asked for, and a command that is loaded as pending never meets it.        *)

\* The authorities command i may set: what was asked for, and 0 if it may be
\* loaded after Validate.
Asked(i, lost) == {CmdOf(i).param} \cup (IF lost THEN {0} ELSE {})

InvAuth(lost) ==
  /\ \A s \in Servers, i \in Ids :
       mem[s][i].status = "pending" => mem[s][i].auth \in Asked(i, lost)
  /\ \A i \in Ids : applied[i] # {} => cmd[i] # {} /\ applied[i] \subseteq Asked(i, lost)

\* A server starts only while no command waits for its start.
NonePendingAtStart ==
  \A s \in Servers : InitGmCommand(s) => \A i \in Ids : row[i].status # "pending"

(* A visit of the first loop: a new command gets its authority, a pending    *)
(* one keeps it, and TriggerCommand sets it.                                 *)
LEMMA AuthVisit ==
  ASSUME GmTypeOK, NEW lost \in BOOLEAN, InvAuth(lost), NEW s \in Servers, NEW i \in Ids,
         RejectCommand(s, i) \/ PendCommand(s, i) \/ TriggerCommand(s, i) \/ TickCommand(s, i)
  PROVE  /\ mem'[s][i].status = "pending" => mem'[s][i].auth \in Asked(i, lost)
         /\ \A j \in Ids : applied'[j] = applied[j] \/ (j = i /\ applied'[j] \subseteq applied[j] \cup Asked(j, lost))
  <1> DEFINE old == mem[s][i]
             t == dwTime[s]
             m == Scheduled(old, t)
             c == CmdOf(i)
             v == Validated(m, c)
             Goal == /\ mem'[s][i].status = "pending" => mem'[s][i].auth \in Asked(i, lost)
                     /\ \A j \in Ids : \/ applied'[j] = applied[j]
                                       \/ j = i /\ applied'[j] \subseteq applied[j] \cup Asked(j, lost)
  <1>1. old \in MemType /\ t \in Nat
    BY DEF GmTypeOK
  <1>2. old.status = "pending" => old.auth \in Asked(i, lost)
    BY DEF InvAuth
  <1>3. c.param \in Asked(i, lost)
    BY DEF Asked
  <1>4. m \in MemType /\ m.status = old.status /\ m.auth = old.auth
    BY <1>1 DEF Scheduled, MemType
  <1>5. ASSUME old.status # "none" PROVE c.param \in Nat
    BY <1>5, CmdType DEF GmTypeOK, InMem
  <1> HIDE DEF old, t, m, c
  <1>6. ASSUME old.status \in {"new", "pending"} PROVE v \in MemType /\ v.auth \in Asked(i, lost)
    <2>1. CASE old.status = "new"
      BY <1>3, <1>4, <1>5, <2>1 DEF Validated, MemType, Status
    <2>2. CASE old.status = "pending"
      BY <1>2, <1>4, <2>2 DEF Validated
    <2> QED BY <1>6, <2>1, <2>2
  <1> HIDE DEF v
  <1>7. ASSUME NEW w \in MemType, SetMem(s, i, w)
        PROVE  mem'[s][i].status = w.status /\ mem'[s][i].auth = w.auth
    <2> DEFINE x == [w EXCEPT !.dirty = mem[s][i].dirty \/ w # mem[s][i]]
    <2>1. mem' = [mem EXCEPT ![s] = [mem[s] EXCEPT ![i] = x]]
      BY <1>7 DEF SetMem, GmTypeOK
    <2>2. x.status = w.status /\ x.auth = w.auth
      BY <1>7 DEF MemType
    <2> HIDE DEF x
    <2> QED BY <2>1, <2>2 DEF GmTypeOK
  <1>8. CASE RejectCommand(s, i)
    <2>1. SetMem(s, i, [m EXCEPT !.status = "error"]) /\ UNCHANGED applied
      BY <1>8 DEF RejectCommand, m, old, t
    <2>2. [m EXCEPT !.status = "error"] \in MemType /\ [m EXCEPT !.status = "error"].status = "error"
      BY <1>4 DEF MemType, Status
    <2> QED BY <1>7, <2>1, <2>2
  <1>9. CASE PendCommand(s, i)
    <2>1. /\ SetMem(s, i, v) /\ UNCHANGED applied
          /\ old.status \in {"new", "pending"}
      BY <1>9 DEF PendCommand, Waits, histVars, m, old, t, c, v
    <2> QED BY <1>6, <1>7, <2>1
  <1>10. CASE TriggerCommand(s, i)
    <2> DEFINE w == Started(v, t)
    <2>1. old.status \in {"new", "pending"}
      BY <1>10 DEF TriggerCommand, Waits, old
    <2>2. w \in MemType /\ w.auth \in Asked(i, lost)
      BY <1>1, <1>6, <2>1 DEF Started, MemType
    <2>3. PICK o \in Outcomes :
            /\ applied' = IF o = "failed" THEN applied ELSE [applied EXCEPT ![i] = @ \cup {w.auth}]
            /\ SetMem(s, i, [w EXCEPT !.status = Triggered(w, t, o)])
      BY <1>10 DEF TriggerCommand, m, c, old, t, v
    <2> HIDE DEF w
    <2>4. Triggered(w, t, o) \in {"running", "complete", "error"}
      BY DEF Triggered, Ended
    <2>5. /\ [w EXCEPT !.status = Triggered(w, t, o)] \in MemType
          /\ [w EXCEPT !.status = Triggered(w, t, o)].status = Triggered(w, t, o)
      BY <2>2, <2>4 DEF MemType, Status
    <2>6. mem'[s][i].status # "pending"
      BY <1>7, <2>3, <2>4, <2>5
    <2>7. \A j \in Ids : \/ applied'[j] = applied[j]
                         \/ j = i /\ applied'[j] \subseteq applied[j] \cup Asked(j, lost)
      BY <2>2, <2>3 DEF GmTypeOK
    <2> QED BY <2>6, <2>7
  <1>11. CASE TickCommand(s, i)
    <2> DEFINE w == [m EXCEPT !.status = Ended(m, t)]
    <2>1. SetMem(s, i, w) /\ UNCHANGED applied
      BY <1>11 DEF TickCommand, histVars, m, old, t
    <2>2. w \in MemType /\ w.status \in {"running", "complete"}
      BY <1>4 DEF MemType, Status, Ended
    <2> HIDE DEF w
    <2> QED BY <1>7, <2>1, <2>2
  <1> QED BY <1>8, <1>9, <1>10, <1>11

(* The authority a command waits with is the one asked for, or 0 once a      *)
(* server may have loaded it as pending.                                     *)
LEMMA AuthStep ==
  ASSUME GmTypeOK, InvRow, NEW lost \in BOOLEAN, InvAuth(lost), [GmNext]_gmVars,
         lost \/ NonePendingAtStart
  PROVE  InvAuth(lost)'
  <1> DEFINE Keeps(s, i) == \/ mem'[s][i].status # "pending"
                            \/ mem'[s][i].status = mem[s][i].status /\ mem'[s][i].auth = mem[s][i].auth
  <1>1. CASE UNCHANGED <<cmd, applied>> /\ \A s \in Servers, i \in Ids : Keeps(s, i)
    BY <1>1 DEF InvAuth, Asked, CmdOf
  <1>2. ASSUME NEW i \in Ids, NEW c \in Menu, Insert(i, c) PROVE InvAuth(lost)'
    <2>1. cmd[i] = {} /\ (\A j \in Ids : j # i => cmd'[j] = cmd[j]) /\ UNCHANGED <<mem, applied>>
      BY <1>2 DEF Insert, GmTypeOK, pollVars, histVars
    <2>2. applied[i] = {} /\ \A s \in Servers : mem[s][i].status = "none"
      BY <2>1 DEF InvAuth, GmTypeOK, InMem
    <2> QED BY <2>1, <2>2 DEF InvAuth, Asked, CmdOf
  <1>3. ASSUME NEW s \in Servers, InitGmCommand(s) \/ ReadNewGmCommand(s) PROVE InvAuth(lost)'
    <2>1. UNCHANGED <<cmd, applied>>
      BY <1>3 DEF InitGmCommand, ReadNewGmCommand
    <2> SUFFICES ASSUME NEW u \in Servers, NEW i \in Ids, mem'[u][i].status = "pending"
                 PROVE  mem'[u][i].auth \in Asked(i, lost)
      BY <2>1 DEF InvAuth, Asked, CmdOf
    <2>2. CASE mem'[u][i] = mem[u][i]
      BY <2>2 DEF InvAuth
    <2>3. CASE mem'[u][i] = Create(i) /\ u = s /\ (ReadNewGmCommand(s) => row[i].status = "new")
      <3>1. row[i].status = "pending" /\ mem'[u][i].auth = 0
        BY <2>3, CreateType DEF Create
      <3>2. lost
        BY <1>3, <2>3, <3>1 DEF NonePendingAtStart
      <3> QED BY <3>1, <3>2 DEF Asked
    <2> QED BY <1>3, <2>2, <2>3, LoadStep DEF LoadEffect
  <1>4. ASSUME NEW s \in Servers, NEW i \in Ids,
               RejectCommand(s, i) \/ PendCommand(s, i) \/ TriggerCommand(s, i) \/ TickCommand(s, i)
        PROVE  InvAuth(lost)'
    <2>1. VisitEffect(s, i)
      BY <1>4, RunStep
    <2>2. cmd[i] # {}
      BY <2>1 DEF VisitEffect, GmTypeOK, InMem
    <2>3. /\ UNCHANGED cmd
          /\ \A u \in Servers, j \in Ids : u # s \/ j # i => mem'[u][j] = mem[u][j]
      BY <2>1 DEF VisitEffect
    <2>4. /\ mem'[s][i].status = "pending" => mem'[s][i].auth \in Asked(i, lost)
          /\ \A j \in Ids : \/ applied'[j] = applied[j]
                            \/ j = i /\ applied'[j] \subseteq applied[j] \cup Asked(j, lost)
      BY <1>4, AuthVisit
    <2>5. \A u \in Servers, j \in Ids :
            mem'[u][j].status = "pending" => mem'[u][j].auth \in Asked(j, lost)
      BY <2>3, <2>4 DEF InvAuth
    <2>6. \A j \in Ids : applied'[j] # {} => cmd[j] # {} /\ applied'[j] \subseteq Asked(j, lost)
      BY <2>2, <2>4 DEF InvAuth
    <2>7. \A j \in Ids : Asked(j, lost)' = Asked(j, lost)
      BY <2>3 DEF Asked, CmdOf
    <2> QED BY <2>3, <2>5, <2>6, <2>7 DEF InvAuth
  <1>5. ASSUME NEW s \in Servers, NEW i \in Ids, SaveCommand(s, i) PROVE InvAuth(lost)'
    <2>1. \A u \in Servers, j \in Ids :
            mem'[u][j].status = mem[u][j].status /\ mem'[u][j].auth = mem[u][j].auth
      <3> DEFINE clean == [mem[s][i] EXCEPT !.dirty = FALSE]
      <3>1. mem' = [mem EXCEPT ![s] = [mem[s] EXCEPT ![i] = clean]]
        BY <1>5 DEF SaveCommand
      <3>2. clean.status = mem[s][i].status /\ clean.auth = mem[s][i].auth
        BY DEF GmTypeOK, MemType
      <3> HIDE DEF clean
      <3> QED BY <3>1, <3>2 DEF GmTypeOK
    <2>2. UNCHANGED <<cmd, applied>>
      BY <1>5 DEF SaveCommand
    <2> QED BY <1>1, <2>1, <2>2
  <1>6. ASSUME NEW s \in Servers, EndUpdate(s) \/ Crash(s) PROVE InvAuth(lost)'
    <2>1. UNCHANGED <<cmd, applied>>
      BY <1>6 DEF EndUpdate, Crash, rowVars, histVars
    <2>2. \A u \in Servers, j \in Ids : mem'[u][j] = mem[u][j] \/ mem'[u][j] = NotMem
      BY <1>6, EndMem
    <2>3. NotMem.status # "pending"
      BY DEF NotMem
    <2> QED BY <1>1, <2>1, <2>2, <2>3
  <1>7. CASE UNCHANGED <<cmd, mem, applied>>
    BY <1>1, <1>7
  <1>8. ASSUME NEW s \in Servers, BeginUpdate(s) \/ BeginSave(s) \/ \E r \in Roles : HandleRole(s, r)
        PROVE  InvAuth(lost)'
    BY <1>8, <1>7 DEF BeginUpdate, BeginSave, HandleRole, rowVars, pollVars, histVars
  <1>9. ASSUME NEW t \in 1 .. MaxTime, Tick(t) PROVE InvAuth(lost)'
    BY <1>9, <1>7 DEF Tick, histVars
  <1>10. CASE UNCHANGED gmVars
    BY <1>10, <1>7 DEF gmVars, rowVars, pollVars, histVars
  <1> QED BY <1>2, <1>3, <1>4, <1>5, <1>6, <1>8, <1>9, <1>10, NextCases

LEMMA InitAuth == ASSUME NEW lost \in BOOLEAN PROVE GmInit => InvAuth(lost)
  BY DEF GmInit, InvAuth, NotMem

\* What has been set for a command is what was asked for, or 0.
AuthAskedOrNone ==
  \A i \in Ids : applied[i] # {} => applied[i] \subseteq {CmdOf(i).param, 0}

(* UpdatePassportGmAuth sets the authority that the operator asked for or    *)
(* takes it away (0), never that of another command, for any number of       *)
(* servers and over crashes and failed statements.                           *)
THEOREM AuthNeverForeign == GmSpec => []AuthAskedOrNone
  <1> DEFINE I == InvAuth(TRUE)
  <1>1. GmInit => I
    BY InitAuth
  <1>2. IInv /\ I /\ [GmNext]_gmVars => I'
    BY AuthStep DEF IInv
  <1>3. I => AuthAskedOrNone
    BY DEF InvAuth, Asked, AuthAskedOrNone
  <1> QED BY <1>1, <1>2, <1>3, GmInvariance, PTL DEF GmSpec

(* It is what the operator asked for as long as no server is started while a *)
(* command waits for its start: loading such a command (GmCommandExt.cpp:56) *)
(* is the only way to lose it.                                               *)
THEOREM AuthUntilRestart ==
  GmSpec /\ [][NonePendingAtStart]_gmVars => []AuthAsRequested
  <1> DEFINE I == InvAuth(FALSE)
  <1>1. GmInit => I
    BY InitAuth
  <1>2. IInv /\ I /\ [GmNext]_gmVars /\ [NonePendingAtStart]_gmVars => I'
    <2> SUFFICES ASSUME IInv, I, [GmNext]_gmVars, [NonePendingAtStart]_gmVars PROVE I'
      OBVIOUS
    <2>1. CASE NonePendingAtStart
      BY <2>1, AuthStep DEF IInv
    <2>2. CASE UNCHANGED gmVars
      BY <2>2 DEF gmVars, rowVars, pollVars, histVars, InvAuth, Asked, CmdOf
    <2> QED BY <2>1, <2>2
  <1>3. I => AuthAsRequested
    BY DEF InvAuth, Asked, AuthAsRequested
  <1> QED BY <1>1, <1>2, <1>3, GmInvariance, PTL DEF GmSpec
=============================================================================
