--------------------------- MODULE ComponentsProofs ---------------------------
(***************************************************************************)
(* The run of the components that keep their state to themselves implements*)
(* the specification of each of them: every step is a step of one component*)
(* and leaves the variables of the others alone.  So what the proofs say of*)
(* a component holds of the run, and what TLC finds in the run is said of  *)
(* the component.                                                          *)
(***************************************************************************)
EXTENDS MCComponents, DelayedWritesProofs, GameServersProofs, PoolProofs, StreamProofs

\* One step of a component, and none of the others.
LEMMA StepOfEach ==
  ASSUME [Next]_allVars
  PROVE  /\ [CacheNext]_cacheVars /\ [BufferNext]_bufferVars /\ [RelayNext]_relayVars
         /\ [RangeNext]_rangeVars /\ [ObjNext]_objVars /\ [ServersNext]_serverVars
  <1>1. CASE UNCHANGED allVars
    BY <1>1 DEF allVars
  <1>2. CASE CacheStep
    <2>1. CacheNext
      BY <1>2 DEF CacheStep, Cache, CacheNext
    <2>2. UNCHANGED <<bufferVars, relayVars, rangeVars, objVars, serverVars>>
      BY <1>2 DEF CacheStep, Cache
    <2> QED BY <2>1, <2>2
  <1>3. CASE BufferStep
    <2>1. BufferNext
      BY <1>3 DEF BufferStep, Buffer, BufferNext
    <2>2. UNCHANGED <<cacheVars, relayVars, rangeVars, objVars, serverVars>>
      BY <1>3 DEF BufferStep, Buffer
    <2> QED BY <2>1, <2>2
  <1>4. CASE RelayStep
    <2>1. RelayNext
      BY <1>4 DEF RelayStep, Relay, RelayNext, RelayThread, SendGoesOn
    <2>2. UNCHANGED <<cacheVars, bufferVars, rangeVars, objVars, serverVars>>
      BY <1>4 DEF RelayStep, Relay
    <2> QED BY <2>1, <2>2
  <1>5. CASE IdsStep
    <2>1. RangeNext
      BY <1>5 DEF IdsStep, Ids, RangeNext
    <2>2. UNCHANGED <<cacheVars, bufferVars, relayVars, objVars, serverVars>>
      BY <1>5 DEF IdsStep, Ids
    <2> QED BY <2>1, <2>2
  <1>6. CASE ObjsStep
    <2>1. ObjNext
      BY <1>6 DEF ObjsStep, Objs, ObjNext
    <2>2. UNCHANGED <<cacheVars, bufferVars, relayVars, rangeVars, serverVars>>
      BY <1>6 DEF ObjsStep, Objs
    <2> QED BY <2>1, <2>2
  <1>7. CASE StatusStep
    <2>1. ServersNext
      BY <1>7 DEF StatusStep, Status, ServersNext
    <2>2. UNCHANGED <<cacheVars, bufferVars, relayVars, rangeVars, objVars>>
      BY <1>7 DEF StatusStep, Status
    <2> QED BY <2>1, <2>2
  <1> QED BY <1>1, <1>2, <1>3, <1>4, <1>5, <1>6, <1>7 DEF Next

\* The run implements each of its components.
THEOREM ComponentsImplemented ==
  Spec => /\ CacheSpec /\ BufferSpec /\ RelaySpec
          /\ RangeSpec /\ ObjSpec /\ ServersSpec
  <1>1. Init => /\ CacheInit /\ BufferInit /\ RelayInit
                /\ RangeInit /\ ObjInit /\ ServersInit
    BY DEF Init
  <1>2. [Next]_allVars =>
          /\ [CacheNext]_cacheVars /\ [BufferNext]_bufferVars /\ [RelayNext]_relayVars
          /\ [RangeNext]_rangeVars /\ [ObjNext]_objVars /\ [ServersNext]_serverVars
    BY StepOfEach
  <1>3. Spec => Init /\ [][Next]_allVars
    BY DEF Spec
  <1> QED BY <1>1, <1>2, <1>3, PTL
          DEF CacheSpec, BufferSpec, RelaySpec, RangeSpec, ObjSpec, ServersSpec

\* The variables of all components have their types in every state of the run.
THEOREM ComponentsTypeCorrect == Spec => []ComponentsTypeOK
  BY ComponentsImplemented, CacheTypeCorrect, BufferTypeCorrect, RelayTypeCorrect,
     RangeTypeCorrect, ObjTypeCorrect, ServersTypeCorrect, PTL DEF ComponentsTypeOK
=============================================================================
