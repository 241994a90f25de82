--------------------------- MODULE SupervisorProofs ---------------------------
(***************************************************************************)
(* Proofs about Supervisor, for every set of runtimes, any displays and any  *)
(* faults, overlapping runtimes included.                                   *)
(***************************************************************************)
EXTENDS Supervisor, TLAPS

(* Past the reaping a runtime has no child, and spawns none.                *)
ReapedInv == \A r \in Runtimes : phase[r] \in {"compare", "unlink", "dropping", "ended"} =>
               \A k \in Kinds : child[r][k] = "none"

(* A runtime that has compared and unlinked is not named any more, unless its  *)
(* descriptor could not be removed, and only it could have named itself.     *)
UnnamedInv == \A r \in Runtimes :
  phase[r] \in {"dropping", "ended"} /\ store = r => failed[r] /\ r \in spoiled

Inv == TypeOK /\ ReapedInv /\ UnnamedInv

(* Before the first runtime nothing runs that could be left behind.            *)
LEMMA InvInit == Init => Inv
  <1> SUFFICES ASSUME Init PROVE Inv
    OBVIOUS
  <1>1. \A r \in Runtimes : phase[r] = "off" /\ server[r] = "none"
    BY DEF Init
  <1>2. ReapedInv /\ UnnamedInv
    BY <1>1 DEF ReapedInv, UnnamedInv
  <1>3. trouble \in 0..MaxFaults
    BY FaultsAssumption DEF Init
  <1>4. TypeOK
    BY <1>3 DEF Init, TypeOK, Phases
  <1> QED
    BY <1>2, <1>4 DEF Inv

(* A fault is counted up to its bound.                                      *)
LEMMA FaultType ==
  ASSUME TypeOK, NEW kind, NEW r \in Runtimes, Fault(kind, r)
  PROVE  /\ trouble' \in 0..MaxFaults /\ spoiled' \subseteq Runtimes
         /\ UNCHANGED <<signaled, crowded>>
  BY FaultsAssumption DEF TypeOK, Fault

(* The ways a supervisor moves on: what happens to the others stays theirs.   *)
LEMMA ToType ==
  ASSUME TypeOK, NEW r \in Runtimes, NEW p \in Phases, To(r, p)
  PROVE  phase' \in [Runtimes -> Phases]
  BY DEF TypeOK, To

(* Giving up, whether the start or the run failed.                            *)
LEMMA GivesType ==
  ASSUME TypeOK, NEW r \in Runtimes, Gives(r)
  PROVE  phase' \in [Runtimes -> Phases] /\ failed' \in [Runtimes -> BOOLEAN]
  BY ToType DEF TypeOK, Gives, Phases, Closing

(* The exit of a process is noticed.                                         *)
LEMMA NoticedType ==
  ASSUME TypeOK, NEW r \in Runtimes, Noticed(r)
  PROVE  child' \in [Runtimes -> [Kinds -> {"none", "starting", "serving", "exited"}]]
  BY DEF TypeOK, Noticed

(* A process is started.                                                     *)
LEMMA SpawnType ==
  ASSUME TypeOK, NEW r \in Runtimes, NEW k \in Kinds, Spawn(r, k)
  PROVE  child' \in [Runtimes -> [Kinds -> {"none", "starting", "serving", "exited"}]]
  BY DEF TypeOK, Spawn

(* A supervisor exits.                                                       *)
LEMMA ExitsType ==
  ASSUME TypeOK, NEW r \in Runtimes, Exits(r)
  PROVE  /\ phase' \in [Runtimes -> Phases]
         /\ server' \in [Runtimes -> {"none", "binding", "serving", "finished"}]
  BY DEF TypeOK, Exits, To, Phases

(* It returns from run, with an error or without.                            *)
LEMMA ReturnsType ==
  ASSUME TypeOK, NEW r \in Runtimes, Returns(r) \/ RemoveFails(r)
  PROVE  /\ phase' \in [Runtimes -> Phases]
         /\ server' \in [Runtimes -> {"none", "binding", "serving", "finished"}]
         /\ failed' \in [Runtimes -> BOOLEAN]
  <1>1. failed' \in [Runtimes -> BOOLEAN]
    BY DEF TypeOK, Returns, RemoveFails
  <1>2. CASE Exits(r)
    BY <1>1, <1>2, ExitsType
  <1>3. CASE To(r, "dropping") /\ UNCHANGED server
    BY <1>1, <1>3, ToType DEF Phases, TypeOK
  <1> QED
    BY <1>2, <1>3 DEF Returns, RemoveFails

-----------------------------------------------------------------------------
(* Every step keeps the types.                                              *)
LEMMA TypeNext == TypeOK /\ [Next]_vars => TypeOK'
  <1> SUFFICES ASSUME TypeOK, [Next]_vars PROVE TypeOK'
    OBVIOUS
  <1> USE DEF TypeOK, runtime, shared, history
  <1>1. ASSUME NEW r \in Runtimes, Start(r) PROVE TypeOK'
    <2>1. phase' \in [Runtimes -> Phases]
      BY <1>1, ToType DEF Start, Phases, Starting
    <2>2. child' \in [Runtimes -> [Kinds -> {"none", "starting", "serving", "exited"}]]
      BY <1>1, SpawnType DEF Start, Kinds
    <2> QED
      BY <1>1, <2>1, <2>2 DEF Start
  <1>2. ASSUME NEW r \in Runtimes, Proceed(r) PROVE TypeOK'
    <2>1. phase[r] \in Kinds /\ To(r, Following[phase[r]])
      BY <1>2 DEF Proceed
    <2>2. Following[phase[r]] \in Phases
      BY <2>1 DEF Following, Kinds, Phases, Starting
    <2>3. phase' \in [Runtimes -> Phases]
      BY <2>1, <2>2, ToType
    <2>4. child' \in [Runtimes -> [Kinds -> {"none", "starting", "serving", "exited"}]]
      BY <1>2, SpawnType DEF Proceed
    <2> QED
      BY <1>2, <2>3, <2>4 DEF Proceed
  <1>3. ASSUME NEW r \in Runtimes, Notice(r) PROVE TypeOK'
    BY <1>3, GivesType, NoticedType DEF Notice
  <1>4. ASSUME NEW r \in Runtimes, Deadline(r) PROVE TypeOK'
    <2>1. phase' \in [Runtimes -> Phases] /\ failed' \in [Runtimes -> BOOLEAN]
      BY <1>4, GivesType DEF Deadline
    <2>2. Fault("slow", r) \/ UNCHANGED history
      BY <1>4 DEF Deadline
    <2> QED
      BY <1>4, <2>1, <2>2, FaultType DEF Deadline
  <1>5. ASSUME NEW r \in Runtimes, Publish(r) PROVE TypeOK'
    <2>1. CASE /\ To(r, "handlers") /\ store' = r
               /\ server' = [server EXCEPT ![r] = "binding"]
               /\ UNCHANGED <<failed, history>>
      BY <1>5, <2>1, ToType DEF Publish, Phases, Starting
    <2>2. CASE /\ Gives(r) /\ UNCHANGED <<store, server>>
               /\ UNCHANGED history \/ Fault("slow", r)
      BY <1>5, <2>2, GivesType, FaultType DEF Publish
    <2> QED
      BY <1>5, <2>1, <2>2 DEF Publish
  <1>6. ASSUME NEW r \in Runtimes, InstallHandlers(r) PROVE TypeOK'
    BY <1>6, ToType DEF InstallHandlers, Phases
  <1>7. ASSUME NEW r \in Runtimes, Serve(r) PROVE TypeOK'
    BY <1>7 DEF Serve
  <1>8. ASSUME NEW r \in Runtimes, ServerFails(r) PROVE TypeOK'
    BY <1>8, FaultType DEF ServerFails
  <1>9. ASSUME NEW r \in Runtimes, NoticeServer(r) PROVE TypeOK'
    BY <1>9, GivesType DEF NoticeServer
  <1>10. ASSUME NEW r \in Runtimes, Signal(r) PROVE TypeOK'
    <2>1. phase' \in [Runtimes -> Phases]
      BY <1>10, ToType DEF Signal, Dies, Phases, Closing
    <2>2. server' \in [Runtimes -> {"none", "binding", "serving", "finished"}]
      BY <1>10 DEF Signal, Dies
    <2> QED
      BY <1>10, <2>1, <2>2 DEF Signal, Dies
  <1>11. ASSUME NEW r \in Runtimes, Crash(r) PROVE TypeOK'
    <2>1. CASE Dies(r)
      <3>1. phase' \in [Runtimes -> Phases]
        BY <2>1, ToType DEF Dies, Phases
      <3> QED
        BY <1>11, <2>1, <3>1, FaultType DEF Crash, Dies
    <2>2. CASE Exits(r) /\ UNCHANGED child
      BY <1>11, <2>2, ExitsType, FaultType DEF Crash
    <2> QED
      BY <1>11, <2>1, <2>2 DEF Crash
  <1>12. ASSUME NEW r \in Runtimes, ServerFinishes(r) PROVE TypeOK'
    BY <1>12 DEF ServerFinishes
  <1>13. ASSUME NEW r \in Runtimes, Drained(r) \/ Reaped(r) PROVE TypeOK'
    BY <1>13, ToType DEF Drained, Reaped, Phases, Closing
  <1>14. ASSUME NEW r \in Runtimes, Terminate(r) PROVE TypeOK'
    <2>1. child' \in [Runtimes -> [Kinds -> {"none", "starting", "serving", "exited"}]]
      BY <1>14 DEF Terminate, Remaining, Unreaped
    <2>2. bus' \in Runtimes \cup {NoRuntime}
      BY <1>14 DEF Terminate
    <2> QED
      BY <1>14, <2>1, <2>2 DEF Terminate
  <1>15. ASSUME NEW r \in Runtimes, CompareOwn(r) PROVE TypeOK'
    <2>1. CASE store = r /\ To(r, "unlink") /\ UNCHANGED <<server, failed, history>>
      BY <1>15, <2>1, ToType DEF CompareOwn, Phases, Closing
    <2>2. CASE (Returns(r) \/ RemoveFails(r)) /\ (UNCHANGED history \/ Fault("remove", r))
      BY <1>15, <2>2, ReturnsType, FaultType DEF CompareOwn
    <2> QED
      BY <1>15, <2>1, <2>2 DEF CompareOwn
  <1>16. ASSUME NEW r \in Runtimes, UnlinkOwn(r) PROVE TypeOK'
    <2>1. /\ Returns(r) \/ RemoveFails(r)
          /\ UNCHANGED history \/ Fault("remove", r)
          /\ store' \in {store, NoRuntime}
          /\ UNCHANGED <<child, bus, human, survivors>>
      BY <1>16 DEF UnlinkOwn
    <2> QED
      BY <2>1, ReturnsType, FaultType
  <1>17. ASSUME NEW r \in Runtimes, NEW k \in Kinds, ChildUp(r, k) PROVE TypeOK'
    BY <1>17 DEF ChildUp
  <1>18. ASSUME NEW r \in Runtimes, NEW k \in Kinds, ChildExits(r, k) PROVE TypeOK'
    <2>1. child' \in [Runtimes -> [Kinds -> {"none", "starting", "serving", "exited"}]]
      BY <1>18 DEF ChildExits
    <2>2. bus' \in {bus, NoRuntime}
      BY <1>18 DEF ChildExits
    <2>3. /\ trouble' \in 0..MaxFaults /\ spoiled' \subseteq Runtimes
          /\ UNCHANGED <<signaled, crowded>>
      BY <1>18, FaultType DEF ChildExits
    <2>4. UNCHANGED <<phase, server, failed, human, store, survivors>>
      BY <1>18 DEF ChildExits
    <2>5. bus' \in Runtimes \cup {NoRuntime}
      BY <2>2
    <2> QED
      BY <2>1, <2>3, <2>4, <2>5
  <1>20. ASSUME NEW r \in Runtimes, Dropped(r) PROVE TypeOK'
    BY <1>20, ExitsType DEF Dropped
  <1>21. ASSUME NEW r \in Runtimes, KillFails(r) \/ ProcessExits(r) PROVE TypeOK'
    BY <1>21, FaultType DEF KillFails, ProcessExits
  <1>22. CASE UNCHANGED vars
    BY <1>22 DEF vars
  <1> QED
    BY <1>1, <1>2, <1>3, <1>4, <1>5, <1>6, <1>7, <1>8, <1>9, <1>10, <1>11, <1>12,
       <1>13, <1>14, <1>15, <1>16, <1>17, <1>18, <1>20, <1>21, <1>22
    DEF Next, Step, Finished

(* A child is spawned only on the way up.                                   *)
LEMMA ReapedNext == TypeOK /\ ReapedInv /\ [Next]_vars => ReapedInv'
  <1> SUFFICES ASSUME TypeOK, ReapedInv, [Next]_vars PROVE ReapedInv'
    OBVIOUS
  <1> USE DEF ReapedInv
  <1>0. /\ phase \in [Runtimes -> Phases]
        /\ child \in [Runtimes -> [Kinds -> {"none", "starting", "serving", "exited"}]]
    BY DEF TypeOK
  <1>1. ASSUME NEW r \in Runtimes, UNCHANGED child,
               \A o \in Runtimes \ {r} : phase'[o] = phase[o],
               phase'[r] \in {"compare", "unlink", "dropping", "ended"} =>
                 phase[r] \in {"compare", "unlink", "dropping"} \/ Unreaped(r) = {}
        PROVE  ReapedInv'
    BY <1>1 DEF Unreaped
  <1>2. ASSUME NEW r \in Runtimes, NEW p, To(r, p)
        PROVE  phase'[r] = p /\ \A o \in Runtimes \ {r} : phase'[o] = phase[o]
    BY <1>0, <1>2 DEF To
  <1>3. ASSUME NEW r \in Runtimes, NEW p, To(r, p),
               p \notin {"compare", "unlink", "dropping", "ended"},
               \A o \in Runtimes \ {r} : child'[o] = child[o]
        PROVE  ReapedInv'
    BY <1>2, <1>3
  <1>4. ASSUME NEW r \in Runtimes, Start(r) \/ Proceed(r) PROVE ReapedInv'
    <2>1. \A o \in Runtimes \ {r} : child'[o] = child[o]
      BY <1>0, <1>4 DEF Start, Proceed, Spawn
    <2>2. \E p : p \notin {"compare", "unlink", "dropping", "ended"} /\ To(r, p)
      BY <1>4 DEF Start, Proceed, Following, Kinds
    <2> QED
      BY <1>3, <2>1, <2>2
  <1>5. ASSUME NEW r \in Runtimes, Notice(r) \/ Deadline(r) \/ NoticeServer(r) PROVE ReapedInv'
    <2>1. \A o \in Runtimes \ {r} : child'[o] = child[o]
      BY <1>0, <1>5 DEF Notice, Noticed, Deadline, NoticeServer
    <2>2. \E p \in {"reap", "drain"} : To(r, p)
      BY <1>5 DEF Notice, Deadline, NoticeServer, Gives
    <2> QED
      BY <1>3, <2>1, <2>2
  <1>6. ASSUME NEW r \in Runtimes, Publish(r) \/ InstallHandlers(r) \/ Drained(r) PROVE ReapedInv'
    <2>1. \E p \in {"handlers", "running", "reap", "drain"} : To(r, p)
      BY <1>6 DEF Publish, InstallHandlers, Drained, Gives
    <2>2. UNCHANGED child
      BY <1>6 DEF Publish, InstallHandlers, Drained
    <2> QED
      BY <1>3, <2>1, <2>2
  <1>7. ASSUME NEW r \in Runtimes, Signal(r) \/ Crash(r) PROVE ReapedInv'
    <2>1. UNCHANGED child
      BY <1>7 DEF Signal, Crash, Dies
    <2>2. CASE \E p \in {"killed", "drain"} : To(r, p)
      BY <1>3, <2>1, <2>2
    <2>3. CASE phase[r] = "dropping" /\ To(r, "ended")
      BY <1>1, <1>2, <2>1, <2>3
    <2> QED
      BY <1>7, <2>2, <2>3 DEF Signal, Crash, Dies, Exits
  <1>8. ASSUME NEW r \in Runtimes, Reaped(r) PROVE ReapedInv'
    BY <1>1, <1>2, <1>8 DEF Reaped, Remaining
  <1>9. ASSUME NEW r \in Runtimes, CompareOwn(r) \/ UnlinkOwn(r) \/ Dropped(r)
        PROVE  ReapedInv'
    <2>1. /\ phase[r] \in {"compare", "unlink", "dropping"} /\ UNCHANGED child
          /\ \E p \in {"unlink", "dropping", "ended"} : To(r, p)
      BY <1>9 DEF CompareOwn, UnlinkOwn, Dropped, Returns, RemoveFails, Exits
    <2> QED
      BY <1>1, <1>2, <2>1
  <1>10. ASSUME NEW r \in Runtimes, Terminate(r) PROVE ReapedInv'
    <2>1. UNCHANGED phase /\ phase[r] = "reap"
          /\ \A o \in Runtimes \ {r} : child'[o] = child[o]
      BY <1>0, <1>10 DEF Terminate
    <2> QED
      BY <2>1
  <1>11. ASSUME NEW r \in Runtimes, NEW k \in Kinds, ChildUp(r, k) \/ ChildExits(r, k)
         PROVE  ReapedInv'
    <2>1. /\ UNCHANGED phase /\ child[r][k] # "none"
          /\ \A o \in Runtimes \ {r} : child'[o] = child[o]
      BY <1>0, <1>11 DEF ChildUp, ChildExits, Alive
    <2> QED
      BY <2>1
  <1>12. CASE \/ \E r \in Runtimes : \/ Serve(r) \/ ServerFails(r) \/ ServerFinishes(r)
                                    \/ KillFails(r) \/ ProcessExits(r)
              \/ UNCHANGED vars
    <2>1. UNCHANGED <<phase, child>>
      BY <1>12 DEF Serve, ServerFails, ServerFinishes, KillFails, ProcessExits, vars, runtime
    <2> QED
      BY <2>1
  <1> QED
    BY <1>4, <1>5, <1>6, <1>7, <1>8, <1>9, <1>10, <1>11, <1>12 DEF Next, Step, Finished

(* A runtime is past its descriptor once client.json does not name it, only a   *)
(* live one has itself named, and one that failed or met a fault did so for    *)
(* good.                                                                     *)
LEMMA UnnamedNext == TypeOK /\ UnnamedInv /\ [Next]_vars => UnnamedInv'
  <1> SUFFICES ASSUME TypeOK, UnnamedInv, [Next]_vars PROVE UnnamedInv'
    OBVIOUS
  <1> USE DEF UnnamedInv
  <1>0. phase \in [Runtimes -> Phases] /\ failed \in [Runtimes -> BOOLEAN]
    BY DEF TypeOK
  <1>1. ASSUME NEW r \in Runtimes, UNCHANGED store, spoiled \subseteq spoiled',
               \A o \in Runtimes : failed[o] => failed'[o],
               \A o \in Runtimes \ {r} : phase'[o] = phase[o],
               \/ phase'[r] \notin {"dropping", "ended"} \/ phase[r] \in {"dropping", "ended"}
               \/ store # r \/ (failed'[r] /\ r \in spoiled')
        PROVE  UnnamedInv'
    BY <1>1
  <1>2. ASSUME NEW r \in Runtimes, Gives(r) PROVE \A o \in Runtimes : failed[o] => failed'[o]
    BY <1>0, <1>2 DEF Gives
  <1>3. ASSUME NEW r \in Runtimes, NEW kind, Fault(kind, r)
        PROVE  spoiled \subseteq spoiled' /\ r \in spoiled'
    BY <1>3 DEF Fault
  <1>4. ASSUME NEW r \in Runtimes, NEW p, To(r, p)
        PROVE  phase'[r] = p /\ \A o \in Runtimes \ {r} : phase'[o] = phase[o]
    BY <1>0, <1>4 DEF To
  <1>5. ASSUME NEW r \in Runtimes,
               \/ Start(r) \/ Proceed(r) \/ Notice(r) \/ Deadline(r) \/ InstallHandlers(r)
               \/ NoticeServer(r) \/ Signal(r) \/ Crash(r) \/ Drained(r) \/ Reaped(r)
               \/ Dropped(r)
        PROVE  UnnamedInv'
    <2>1. UNCHANGED store
      BY <1>5 DEF Start, Proceed, Notice, Deadline, InstallHandlers, NoticeServer, Signal,
         Crash, Drained, Reaped, Dropped, shared
    <2>2. \A o \in Runtimes : failed[o] => failed'[o]
      BY <1>2, <1>5 DEF Start, Proceed, Notice, Deadline, InstallHandlers, NoticeServer, Signal,
         Crash, Drained, Reaped, Dropped
    <2>3. spoiled \subseteq spoiled'
      BY <1>3, <1>5 DEF Start, Proceed, Notice, Deadline, InstallHandlers, NoticeServer, Signal,
         Crash, Drained, Reaped, Dropped, history
    <2>4. \E p : To(r, p) /\ (p \notin {"dropping", "ended"} \/ phase[r] = "dropping")
      BY <1>5 DEF Start, Proceed, Notice, Deadline, InstallHandlers, NoticeServer, Signal,
         Crash, Drained, Reaped, Dropped, Gives, Dies, Exits, Following, Kinds
    <2> QED
      BY <1>1, <1>4, <2>1, <2>2, <2>3, <2>4
  <1>6. ASSUME NEW r \in Runtimes, Publish(r) PROVE UnnamedInv'
    <2>1. CASE Gives(r)
      <3>1. UNCHANGED store \/ (To(r, "handlers") /\ store' = r)
        BY <1>6 DEF Publish
      <3>2. (\E p \in {"reap", "drain"} : To(r, p)) /\ UNCHANGED store
        BY <1>4, <2>1, <3>1 DEF Gives
      <3>3. spoiled \subseteq spoiled'
        BY <1>3, <1>6 DEF Publish, history
      <3> QED
        BY <1>1, <1>2, <1>4, <2>1, <3>2, <3>3
    <2>2. CASE To(r, "handlers") /\ store' = r /\ UNCHANGED <<failed, history>>
      BY <1>4, <2>2
    <2> QED
      BY <1>6, <2>1, <2>2 DEF Publish
  <1>7. ASSUME NEW r \in Runtimes, Returns(r), UNCHANGED history
        PROVE  /\ UNCHANGED failed /\ spoiled \subseteq spoiled'
               /\ \A o \in Runtimes \ {r} : phase'[o] = phase[o]
    BY <1>4, <1>7 DEF Returns, Exits, history
  <1>8. ASSUME NEW r \in Runtimes, RemoveFails(r)
        PROVE  /\ failed'[r] /\ \A o \in Runtimes : failed[o] => failed'[o]
               /\ \A o \in Runtimes \ {r} : phase'[o] = phase[o]
    BY <1>0, <1>4, <1>8 DEF RemoveFails, Exits
  <1>9. ASSUME NEW r \in Runtimes, CompareOwn(r) PROVE UnnamedInv'
    <2>1. CASE To(r, "unlink") /\ UNCHANGED <<failed, history>>
      BY <1>1, <1>4, <1>9, <2>1 DEF CompareOwn, shared, history
    <2>2. CASE store # r /\ Returns(r) /\ UNCHANGED history
      BY <1>1, <1>7, <1>9, <2>2 DEF CompareOwn, shared
    <2>3. CASE Fault("remove", r) /\ RemoveFails(r)
      BY <1>1, <1>3, <1>8, <1>9, <2>3 DEF CompareOwn, shared
    <2> QED
      BY <1>9, <2>1, <2>2, <2>3 DEF CompareOwn
  <1>10. ASSUME NEW r \in Runtimes, UnlinkOwn(r) PROVE UnnamedInv'
    <2>1. CASE store' = NoRuntime
      BY <2>1, OwnerAssumption
    <2>2. CASE Fault("remove", r) /\ RemoveFails(r) /\ UNCHANGED store
      BY <1>1, <1>3, <1>8, <2>2
    <2> QED
      BY <1>10, <2>1, <2>2 DEF UnlinkOwn
  <1>11. ASSUME NEW r \in Runtimes,
                \/ Serve(r) \/ ServerFails(r) \/ ServerFinishes(r) \/ Terminate(r)
                \/ KillFails(r) \/ ProcessExits(r)
                \/ \E k \in Kinds : ChildUp(r, k) \/ ChildExits(r, k)
         PROVE  UnnamedInv'
    <2>1. UNCHANGED <<phase, store, failed>>
      BY <1>11 DEF Serve, ServerFails, ServerFinishes, Terminate, KillFails, ProcessExits,
         ChildUp, ChildExits, shared
    <2>2. spoiled \subseteq spoiled'
      BY <1>3, <1>11 DEF Serve, ServerFails, ServerFinishes, Terminate, KillFails, ProcessExits,
         ChildUp, ChildExits, history
    <2> QED
      BY <1>1, <2>1, <2>2
  <1>12. CASE UNCHANGED vars
    <2>1. UNCHANGED <<phase, store, failed, spoiled>>
      BY <1>12 DEF vars, runtime, shared, history
    <2> QED
      BY <2>1
  <1> QED
    BY <1>5, <1>6, <1>9, <1>10, <1>11, <1>12 DEF Next, Step, Finished

-----------------------------------------------------------------------------
(* The invariants above hold in every reachable state, whatever the faults    *)
(* and however many runtimes overlap.                                        *)
THEOREM InvCorrect == Spec => []Inv
  <1>1. Inv /\ [Next]_vars => Inv'
    BY TypeNext, ReapedNext, UnnamedNext DEF Inv
  <1> QED
    BY InvInit, <1>1, PTL DEF Spec

(* Every variable keeps its type: no wait leads to a phase nobody handles.   *)
THEOREM SupervisorTyped == Spec => []TypeOK
  <1>1. Inv => TypeOK
    BY DEF Inv
  <1> QED
    BY InvCorrect, <1>1, PTL

(* However a runtime fails and whoever else lives, what it started is reaped   *)
(* and its descriptor gone when it ends, or it reports that it could not       *)
(* remove it.                                                               *)
THEOREM NothingLeft == Spec => []EndedLeavesNothing
  <1>1. Inv => EndedLeavesNothing
    BY DEF Inv, ReapedInv, UnnamedInv, EndedLeavesNothing, Left, Alive
  <1> QED
    BY InvCorrect, <1>1, PTL

-----------------------------------------------------------------------------
(* What one runtime that lives alone can count on.                          *)
(*                                                                         *)
(* A runtime that has not started has no child and has not failed, and its     *)
(* service is spawned only when the children are there.                      *)
UnstartedInv == \A r \in Runtimes :
  /\ phase[r] = "off" => ~failed[r] /\ \A k \in Kinds : child[r][k] = "none"
  /\ phase[r] \in Kinds \cup {"off", "publish"} => server[r] = "none"

(* As long as no two runtimes lived at the same time, one lives at most, and    *)
(* one that was started over what a killed supervisor left behind is spoiled. *)
LoneInv == ~crowded =>
  /\ \A r, o \in Present : r = o
  /\ (\E o \in Runtimes : phase[o] = "killed") => Present \subseteq spoiled

(* What the start of an undisturbed runtime has got so far: the children of the *)
(* waits that are over serve, the one that is waited for was started and, as   *)
(* the daemon, owns the path once it serves, and no later one exists.         *)
Waits == [dbus |-> 1, display |-> 2, desktop |-> 3, viewer |-> 4,
          publish |-> 5, handlers |-> 5, running |-> 5]
Assembled(r) ==
  /\ \A k \in Kinds : /\ Rank[k] < Waits[phase[r]] => child[r][k] = "serving"
                      /\ Rank[k] = Waits[phase[r]] => child[r][k] \in {"starting", "serving"}
                      /\ Rank[k] > Waits[phase[r]] => child[r][k] = "none"
  /\ child[r]["dbus"] = "serving" => bus = r
  /\ phase[r] \in {"handlers", "running"} =>
       /\ store = r /\ server[r] \in {"binding", "serving"}
       /\ server[r] = "serving" => human = r
AssembledInv == ~crowded =>
  \A r \in Present \ spoiled : phase[r] \in DOMAIN Waits => Assembled(r)

(* While it lives alone nobody takes its descriptor away before it does.        *)
NamedInv == ~crowded => \A r \in Runtimes : phase[r] = "unlink" => store = r

(* Everything one runtime's supervisor, service and children do.             *)
Deed(r) ==
  \/ Start(r) \/ Step(r) \/ Serve(r) \/ ServerFails(r) \/ ServerFinishes(r)
  \/ KillFails(r) \/ ProcessExits(r) \/ Signal(r) \/ Crash(r)
  \/ \E k \in Kinds : ChildUp(r, k) \/ ChildExits(r, k)

(* It leaves the others' state alone, and the history only grows.            *)
LEMMA DeedIsOwn ==
  ASSUME TypeOK, NEW r \in Runtimes, Deed(r)
  PROVE  /\ \A o \in Runtimes \ {r} : /\ phase'[o] = phase[o] /\ child'[o] = child[o]
                                      /\ server'[o] = server[o] /\ failed'[o] = failed[o]
         /\ spoiled \subseteq spoiled'
         /\ crowded => crowded'
  <1>0. /\ phase \in [Runtimes -> Phases]
        /\ child \in [Runtimes -> [Kinds -> {"none", "starting", "serving", "exited"}]]
        /\ server \in [Runtimes -> {"none", "binding", "serving", "finished"}]
        /\ failed \in [Runtimes -> BOOLEAN]
    BY DEF TypeOK
  <1>1. \A o \in Runtimes \ {r} : phase'[o] = phase[o]
    BY <1>0 DEF Deed, Start, Step, Serve, ServerFails, ServerFinishes, KillFails, ProcessExits,
       Signal, Crash, ChildUp, ChildExits, Proceed, Notice, Deadline, Publish, InstallHandlers,
       NoticeServer, Drained, Terminate, Reaped, CompareOwn, UnlinkOwn, Dropped, Returns,
       RemoveFails, Exits, To, Gives, Dies
  <1>2. \A o \in Runtimes \ {r} : child'[o] = child[o]
    BY <1>0 DEF Deed, Start, Step, Serve, ServerFails, ServerFinishes, KillFails, ProcessExits,
       Signal, Crash, ChildUp, ChildExits, Proceed, Notice, Deadline, Publish, InstallHandlers,
       NoticeServer, Drained, Terminate, Reaped, CompareOwn, UnlinkOwn, Dropped, Returns,
       RemoveFails, Exits, Spawn, Noticed, Dies
  <1>3. \A o \in Runtimes \ {r} : server'[o] = server[o]
    BY <1>0 DEF Deed, Start, Step, Serve, ServerFails, ServerFinishes, KillFails, ProcessExits,
       Signal, Crash, ChildUp, ChildExits, Proceed, Notice, Deadline, Publish, InstallHandlers,
       NoticeServer, Drained, Terminate, Reaped, CompareOwn, UnlinkOwn, Dropped, Returns,
       RemoveFails, Exits, Dies
  <1>4. \A o \in Runtimes \ {r} : failed'[o] = failed[o]
    BY <1>0 DEF Deed, Start, Step, Serve, ServerFails, ServerFinishes, KillFails, ProcessExits,
       Signal, Crash, ChildUp, ChildExits, Proceed, Notice, Deadline, Publish, InstallHandlers,
       NoticeServer, Drained, Terminate, Reaped, CompareOwn, UnlinkOwn, Dropped, Returns,
       RemoveFails, Exits, Gives
  <1>6. ASSUME \/ Start(r) \/ UNCHANGED history \/ UNCHANGED <<trouble, crowded, spoiled>>
               \/ \E kind \in {"child", "slow", "crash", "kill", "remove"} : Fault(kind, r)
        PROVE  spoiled \subseteq spoiled' /\ (crowded => crowded')
    <2>1. CASE Start(r)
      <3>1. spoiled \subseteq spoiled'
        BY <2>1 DEF Start
      <3>2. crowded' = (crowded \/ Present # {})
        BY <2>1 DEF Start
      <3> QED
        BY <3>1, <3>2
    <2>2. CASE \E kind \in {"child", "slow", "crash", "kill", "remove"} : Fault(kind, r)
      BY <2>2 DEF Fault
    <2>3. CASE UNCHANGED <<trouble, crowded, spoiled>> \/ UNCHANGED history
      BY <2>3 DEF history
    <2> QED
      BY <1>6, <2>1, <2>2, <2>3
  <1>7. spoiled \subseteq spoiled' /\ (crowded => crowded')
    BY <1>6 DEF Deed, Step, Serve, ServerFails, ServerFinishes, KillFails, ProcessExits,
       Signal, Crash, ChildUp, ChildExits, Proceed, Notice, Deadline, Publish, InstallHandlers,
       NoticeServer, Drained, Terminate, Reaped, CompareOwn, UnlinkOwn, Dropped
  <1> QED
    BY <1>1, <1>2, <1>3, <1>4, <1>7

(* Every step is a deed of a runtime, or changes nothing.      *)
LEMMA StepIsDeed ==
  [Next]_vars => \/ \E r \in Runtimes : Deed(r)
                 \/ UNCHANGED vars
  BY DEF Next, Deed, Finished

(* A runtime that was not started has made nothing, and its service comes last. *)
LEMMA UnstartedNext == TypeOK /\ UnstartedInv /\ [Next]_vars => UnstartedInv'
  <1> SUFFICES ASSUME TypeOK, UnstartedInv, [Next]_vars PROVE UnstartedInv'
    OBVIOUS
  <1> USE DEF UnstartedInv
  <1>0. /\ phase \in [Runtimes -> Phases]
        /\ child \in [Runtimes -> [Kinds -> {"none", "starting", "serving", "exited"}]]
        /\ server \in [Runtimes -> {"none", "binding", "serving", "finished"}]
        /\ failed \in [Runtimes -> BOOLEAN]
    BY DEF TypeOK
  <1>1. ASSUME NEW r \in Runtimes, Deed(r),
               phase'[r] = "off" => UNCHANGED phase /\ UNCHANGED failed /\ UNCHANGED child,
               phase'[r] \in Kinds \cup {"off", "publish"} =>
                 phase[r] \in Kinds \cup {"off"} /\ UNCHANGED server
        PROVE  UnstartedInv'
    BY <1>1, DeedIsOwn
  <1>2. ASSUME NEW r \in Runtimes, UNCHANGED <<phase, failed, server>>,
               phase[r] = "off" => UNCHANGED child,
               \A o \in Runtimes \ {r} : child'[o] = child[o]
        PROVE  UnstartedInv'
    BY <1>2
  <1>3. ASSUME NEW r \in Runtimes, Start(r) \/ Proceed(r) PROVE UnstartedInv'
    <2>1. /\ Deed(r) /\ UNCHANGED server /\ phase[r] \in Kinds \cup {"off"}
      BY <1>3 DEF Start, Proceed, Deed, Step
    <2>2. phase'[r] # "off"
      BY <1>0, <1>3 DEF Start, Proceed, To, Following, Kinds
    <2> QED
      BY <1>1, <2>1, <2>2
  <1>4. ASSUME NEW r \in Runtimes, NEW p, p \notin Kinds \cup {"off", "publish"}, To(r, p),
               Deed(r)
        PROVE  UnstartedInv'
    <2>1. phase'[r] = p
      BY <1>0, <1>4 DEF To
    <2> QED
      BY <1>1, <1>4, <2>1
  <1>5. ASSUME NEW r \in Runtimes, Notice(r) \/ Deadline(r) \/ NoticeServer(r) \/ Publish(r)
        PROVE  UnstartedInv'
    <2>1. \E p \in {"reap", "drain", "handlers"} : To(r, p)
      BY <1>5 DEF Notice, Deadline, NoticeServer, Publish, Gives
    <2>2. Deed(r)
      BY <1>5 DEF Deed, Step
    <2> QED
      BY <1>4, <2>1, <2>2 DEF Kinds
  <1>6. ASSUME NEW r \in Runtimes,
               \/ InstallHandlers(r) \/ Drained(r) \/ Reaped(r) \/ CompareOwn(r)
               \/ UnlinkOwn(r) \/ Dropped(r) \/ Signal(r) \/ Crash(r)
        PROVE  UnstartedInv'
    <2>1. \E p \in {"running", "reap", "compare", "unlink", "dropping", "ended", "killed",
                   "drain"} : To(r, p)
      BY <1>6 DEF InstallHandlers, Drained, Reaped, CompareOwn, UnlinkOwn, Dropped, Signal, Crash,
         Dies, Exits, Returns, RemoveFails
    <2>2. Deed(r)
      BY <1>6 DEF Deed, Step
    <2> QED
      BY <1>4, <2>1, <2>2 DEF Kinds
  <1>7. ASSUME NEW r \in Runtimes,
               Serve(r) \/ ServerFails(r) \/ ServerFinishes(r) \/ KillFails(r)
        PROVE  UnstartedInv'
    <2>1. /\ phase[r] \in Up \cup {"dropping"} /\ UNCHANGED <<phase, child, failed>>
      BY <1>7 DEF Serve, ServerFails, ServerFinishes, KillFails, Up
    <2>2. phase'[r] \notin Kinds \cup {"off", "publish"}
      BY <2>1 DEF Up, Closing, Kinds
    <2>3. Deed(r)
      BY <1>7 DEF Deed
    <2> QED
      BY <1>1, <2>2, <2>3
  <1>8. ASSUME NEW r \in Runtimes, Terminate(r) PROVE UnstartedInv'
    <2>1. /\ phase[r] = "reap" /\ UNCHANGED <<phase, failed, server>>
          /\ \A o \in Runtimes \ {r} : child'[o] = child[o]
      BY <1>8, DeedIsOwn DEF Terminate, Deed, Step
    <2> QED
      BY <1>2, <2>1
  <1>9. ASSUME NEW r \in Runtimes, NEW k \in Kinds, ChildUp(r, k) \/ ChildExits(r, k)
        PROVE  UnstartedInv'
    <2>1. /\ child[r][k] # "none" /\ UNCHANGED <<phase, failed, server>>
          /\ \A o \in Runtimes \ {r} : child'[o] = child[o]
      BY <1>9, DeedIsOwn DEF ChildUp, ChildExits, Alive, Deed
    <2> QED
      BY <1>2, <2>1
  <1>10. CASE \/ \E r \in Runtimes : ProcessExits(r)
              \/ UNCHANGED vars
    <2>1. UNCHANGED <<phase, child, server, failed>>
      BY <1>10 DEF ProcessExits, vars, runtime
    <2> QED
      BY <2>1
  <1> QED
    BY <1>3, <1>5, <1>6, <1>7, <1>8, <1>9, <1>10, StepIsDeed DEF Deed, Step

(* Who is present after a step was before, unless it has just started; only    *)
(* one that is present dies.                                                 *)
LEMMA PresentNext ==
  ASSUME TypeOK, NEW r \in Runtimes, Deed(r)
  PROVE  \/ Start(r) /\ Present' = Present \cup {r} /\ r \notin Present
         \/ /\ Present' \subseteq Present
            /\ crowded' = crowded
            /\ \A o \in Runtimes : phase'[o] = "killed" =>
                 phase[o] = "killed" \/ o \in Present \ Present'
  <1>0. phase \in [Runtimes -> Phases]
    BY DEF TypeOK
  <1>1. CASE Start(r)
    BY <1>0, <1>1 DEF Start, To, Present
  <1>2. CASE UNCHANGED <<phase, crowded>>
    BY <1>2 DEF Present
  <1>3. ASSUME NEW p, To(r, p), r \in Present, crowded' = crowded
        PROVE  /\ Present' \subseteq Present
               /\ \A o \in Runtimes : phase'[o] = "killed" =>
                    phase[o] = "killed" \/ o \in Present \ Present'
    BY <1>0, <1>3 DEF Present, To
  <1>7. ASSUME To(r, "ended"), crowded' = crowded
        PROVE  /\ Present' \subseteq Present
               /\ crowded' = crowded
               /\ \A o \in Runtimes : phase'[o] = "killed" => phase[o] = "killed"
    BY <1>0, <1>7 DEF Present, To
  <1>4. CASE Step(r)
    <2>1. CASE UNCHANGED <<phase, crowded>>
      BY <1>2, <2>1
    <2>2. CASE /\ phase[r] \in Kinds \cup {"running", "publish", "handlers"} \cup Closing
               /\ crowded' = crowded
               /\ \E p : To(r, p)
      BY <1>3, <2>2 DEF Present, Kinds, Closing
    <2>3. CASE Dropped(r)
      BY <1>7, <2>3 DEF Dropped, Exits, history
    <2> QED
      BY <1>4, <2>1, <2>2, <2>3 DEF Step, Proceed, Notice, Deadline, Publish, InstallHandlers,
         NoticeServer, Drained, Terminate, Reaped, CompareOwn, UnlinkOwn, Gives, Exits, Returns,
         RemoveFails, Fault, history, Closing
  <1>5. CASE Signal(r) \/ Crash(r)
    <2>1. crowded' = crowded
      BY <1>5 DEF Signal, Crash, Fault
    <2>2. CASE r \in Present /\ \E p : To(r, p)
      BY <1>3, <2>1, <2>2
    <2>3. CASE To(r, "ended")
      BY <1>7, <2>1, <2>3
    <2> QED
      BY <1>5, <2>2, <2>3 DEF Signal, Crash, Dies, Exits, Starting, Present
  <1>6. CASE \/ Serve(r) \/ ServerFails(r) \/ ServerFinishes(r) \/ KillFails(r)
             \/ ProcessExits(r) \/ \E k \in Kinds : ChildUp(r, k) \/ ChildExits(r, k)
    <2>1. UNCHANGED <<phase, crowded>>
      BY <1>6 DEF Serve, ServerFails, ServerFinishes, KillFails, ProcessExits, ChildUp,
         ChildExits, Fault, history
    <2> QED
      BY <1>2, <2>1
  <1> QED
    BY <1>1, <1>4, <1>5, <1>6 DEF Deed

(* A runtime that starts while none is there is alone, or starts over what a    *)
(* killed one left behind.                                                   *)
LEMMA LoneNext == TypeOK /\ LoneInv /\ [Next]_vars => LoneInv'
  <1> SUFFICES ASSUME TypeOK, LoneInv, [Next]_vars, ~crowded' PROVE LoneInv'
    BY DEF LoneInv
  <1> USE DEF LoneInv
  <1>1. ASSUME NEW r \in Runtimes, Deed(r) PROVE LoneInv'
    <2>1. ~crowded /\ spoiled \subseteq spoiled'
      BY <1>1, DeedIsOwn
    <2>2. CASE Start(r) /\ Present' = Present \cup {r}
      <3>1. Present' = {r}
        BY <2>2 DEF Start
      <3>2. (\E o \in Runtimes : phase'[o] = "killed") => r \in spoiled'
        BY <1>1, <2>2, DeedIsOwn DEF Start, To, TypeOK
      <3> QED
        BY <3>1, <3>2
    <2>3. CASE /\ Present' \subseteq Present
               /\ \A o \in Runtimes : phase'[o] = "killed" =>
                    phase[o] = "killed" \/ o \in Present \ Present'
      BY <2>1, <2>3
    <2> QED
      BY <1>1, <2>2, <2>3, PresentNext
  <1>2. CASE UNCHANGED vars
    <2>1. UNCHANGED <<phase, crowded, spoiled>>
      BY <1>2 DEF vars, runtime, history
    <2> QED
      BY <2>1 DEF Present
  <1> QED
    BY <1>1, <1>2, StepIsDeed

(* While nobody overlaps, everybody but the undisturbed runtime that lives has  *)
(* no child.                                                                 *)
LEMMA OthersChildless ==
  ASSUME TypeOK, ReapedInv, UnstartedInv, LoneInv, ~crowded,
         NEW o \in Present \ spoiled, NEW r \in Runtimes \ {o}
  PROVE  /\ r \notin Present
         /\ \A k \in Kinds : child[r][k] = "none"
  <1>1. r \notin Present /\ phase[r] # "killed"
    BY DEF LoneInv
  <1>2. phase[r] \in {"off", "dropping", "ended"}
    BY <1>1 DEF Present, TypeOK
  <1> QED
    BY <1>1, <1>2 DEF ReapedInv, UnstartedInv

(* While an undisturbed runtime is there alone, the others are gone or about   *)
(* to be, and touch nothing that is shared.                                  *)
LEMMA OthersAside ==
  ASSUME TypeOK, ReapedInv, UnstartedInv, LoneInv, ~crowded',
         NEW o \in Present \ spoiled, NEW r \in Runtimes \ {o}, Deed(r)
  PROVE  UNCHANGED shared
  <1>1. ~crowded /\ r \notin Present /\ \A k \in Kinds : child[r][k] = "none"
    BY DeedIsOwn, OthersChildless
  <1>2. ~Start(r)
    BY DEF Start
  <1>3. phase[r] \notin Kinds \cup Up \cup Starting
    BY <1>1 DEF Present, Kinds, Up, Starting, Closing
  <1>4. Step(r) => Dropped(r)
    BY <1>3 DEF Step, Proceed, Notice, Deadline, Publish, InstallHandlers, NoticeServer, Drained,
       Terminate, Reaped, CompareOwn, UnlinkOwn, Up, Starting, Closing
  <1>5. ~(Serve(r) \/ ServerFails(r) \/ ServerFinishes(r))
    BY <1>1, <1>3 DEF Serve, ServerFails, ServerFinishes, Up
  <1>6. \A k \in Kinds : ~(ChildUp(r, k) \/ ChildExits(r, k))
    BY <1>1 DEF ChildUp, ChildExits, Alive
  <1> QED
    BY <1>2, <1>4, <1>5, <1>6 DEF Deed, Dropped, KillFails, ProcessExits, Signal, Crash

(* Only its owner publishes or removes a descriptor, and only while it lives.  *)
LEMMA NamedNext == TypeOK /\ LoneInv /\ NamedInv /\ [Next]_vars => NamedInv'
  <1> SUFFICES ASSUME TypeOK, LoneInv, NamedInv, [Next]_vars, ~crowded',
                      NEW o \in Runtimes, phase'[o] = "unlink"
               PROVE  store' = o
    BY DEF NamedInv
  <1>0. phase \in [Runtimes -> Phases]
    BY DEF TypeOK
  <1>1. ASSUME NEW r \in Runtimes, Deed(r) PROVE store' = o
    <2>1. ~crowded
      BY <1>1, DeedIsOwn
    <2>2. CASE phase[o] = "unlink"
      <3>1. store = o /\ o \in Present
        BY <2>1, <2>2 DEF NamedInv, Present
      <3>2. CASE r # o
        <4>1. r \notin Present
          BY <2>1, <3>1, <3>2 DEF LoneInv
        <4>2. ~Publish(r) /\ ~UnlinkOwn(r)
          BY <4>1 DEF Publish, UnlinkOwn, Present
        <4>3. UNCHANGED store
          BY <1>1, <4>2 DEF Deed, Start, Step, Serve, ServerFails, ServerFinishes, KillFails,
             ProcessExits, Signal, Crash, ChildUp, ChildExits, Proceed, Notice, Deadline,
             InstallHandlers, NoticeServer, Drained, Terminate, Reaped, CompareOwn, Dropped,
             shared
        <4> QED
          BY <3>1, <4>3
      <3>3. CASE r = o
        <4>1. ~Publish(r) /\ ~UnlinkOwn(r)
          BY <1>0, <2>2, <3>3 DEF Publish, UnlinkOwn, Returns, RemoveFails, Exits, To
        <4>2. UNCHANGED store
          BY <1>1, <4>1 DEF Deed, Start, Step, Serve, ServerFails, ServerFinishes, KillFails,
             ProcessExits, Signal, Crash, ChildUp, ChildExits, Proceed, Notice, Deadline,
             InstallHandlers, NoticeServer, Drained, Terminate, Reaped, CompareOwn, Dropped,
             shared
        <4> QED
          BY <3>1, <4>2
      <3> QED
        BY <3>2, <3>3
    <2>3. CASE phase[o] # "unlink"
      <3>1. r = o
        BY <1>1, <2>3, DeedIsOwn
      <3>2. UNCHANGED phase \/ CompareOwn(o) \/ \E p : To(o, p) /\ p # "unlink"
        BY <1>1, <3>1 DEF Deed, Start, Step, Serve, ServerFails, ServerFinishes, KillFails,
           ProcessExits, Signal, Crash, ChildUp, ChildExits, Proceed, Notice, Deadline, Publish,
           InstallHandlers, NoticeServer, Drained, Terminate, Reaped, UnlinkOwn, Dropped, Gives,
           Dies, Exits, Returns, RemoveFails, Following, Kinds
      <3>3. CompareOwn(o) /\ To(o, "unlink")
        BY <1>0, <2>3, <3>2 DEF To, CompareOwn, Returns, RemoveFails, Exits
      <3> QED
        BY <1>0, <3>3 DEF To, CompareOwn, Returns, RemoveFails, Exits, shared
    <2> QED
      BY <2>2, <2>3
  <1>2. CASE UNCHANGED vars
    <2>1. UNCHANGED <<phase, store, crowded>>
      BY <1>2 DEF vars, runtime, shared, history
    <2> QED
      BY <2>1 DEF NamedInv
  <1> QED
    BY <1>1, <1>2, StepIsDeed

(* What the runtime that lives waits for answers as soon as its child is up,   *)
(* and is free until then.                                                   *)
LEMMA OwnAnswers ==
  ASSUME TypeOK, NEW r \in Runtimes, phase[r] \in Kinds, Assembled(r),
         child[r][phase[r]] = "serving"
  PROVE  Ready(r)
  <1> USE DEF Assembled, Waits, Rank, Kinds
  <1>1. ~SomeExited(r)
    BY DEF SomeExited
  <1>2. r # NoRuntime
    BY OwnerAssumption
  <1>3. CASE phase[r] = "dbus"
    BY <1>1, <1>2, <1>3 DEF Ready, Answers
  <1>4. CASE phase[r] = "display"
    BY <1>1, <1>4 DEF Ready, Answers, Taken
  <1>5. CASE phase[r] = "desktop"
    BY <1>1, <1>5 DEF Ready, Answers, Taken
  <1>6. CASE phase[r] = "viewer"
    BY <1>1, <1>6 DEF Ready, Answers
  <1> QED
    BY <1>3, <1>4, <1>5, <1>6

(* With the processes of the others gone, whoever answers is one's own.          *)
LEMMA AnswersAreOwn ==
  ASSUME TypeOK, NEW r \in Runtimes, phase[r] \in Kinds, Assembled(r), Ready(r),
         \A o \in Runtimes \ {r} : \A j \in Kinds : child[o][j] = "none"
  PROVE  child[r][phase[r]] = "serving"
  <1> USE DEF Ready, Kinds
  <1>1. \A o \in Runtimes, k \in Kinds : child[o][k] = "serving" => o = r
    BY DEF Kinds
  <1>2. CASE phase[r] = "dbus"
    <2>1. bus \in Runtimes /\ child[bus]["dbus"] = "serving"
      BY <1>2, OwnerAssumption DEF Answers, TypeOK
    <2> QED
      BY <1>1, <1>2, <2>1
  <1>3. CASE phase[r] = "display"
    BY <1>1, <1>3 DEF Answers, Taken
  <1>4. CASE phase[r] = "desktop"
    BY <1>1, <1>4 DEF Answers, Taken
  <1>5. CASE phase[r] = "viewer"
    BY <1>1, <1>5 DEF Answers
  <1> QED
    BY <1>2, <1>3, <1>4, <1>5

(* With the processes of the others gone, nobody is in the way of a new one.    *)
LEMMA OwnIsFree ==
  ASSUME NEW r \in Runtimes, NEW k \in Kinds, child[r][k] = "starting",
         \A o \in Runtimes \ {r} : \A j \in Kinds : child[o][j] = "none"
  PROVE  Free(k, r)
  <1>1. \A o \in Runtimes : child[o][k] # "serving"
    OBVIOUS
  <1>2. CASE k = "viewer"
    BY <1>1, <1>2 DEF Free, Answers
  <1>3. CASE k = "display"
    BY <1>1, <1>3 DEF Free, Taken
  <1> QED
    BY <1>2, <1>3 DEF Free, Kinds

(* So nothing an undisturbed runtime does alone fails it.                    *)
LEMMA NoReasonToFail ==
  ASSUME TypeOK, AssembledInv, NamedInv, ~crowded',
         NEW r \in Runtimes, Deed(r), r \notin spoiled'
  PROVE  failed'[r] = failed[r]
  <1>1. ~crowded /\ r \notin spoiled
    BY DeedIsOwn
  <1>2. phase[r] \in DOMAIN Waits => r \in Present /\ Assembled(r)
    BY <1>1 DEF AssembledInv, Present, Waits
  <1>3. phase[r] \in DOMAIN Waits => ~SomeExited(r)
    BY <1>2 DEF Assembled, SomeExited, Waits, Rank, Kinds
  <1>4. ~Notice(r)
    BY <1>3 DEF Notice, Noticed, SomeExited, Kinds, Waits
  <1>5. ~NoticeServer(r)
    BY <1>2 DEF NoticeServer, Assembled, Waits
  <1>6. ASSUME NEW kind, Fault(kind, r) PROVE FALSE
    BY <1>6 DEF Fault
  <1>7. ASSUME Deadline(r) PROVE FALSE
    <2>1. phase[r] \in Kinds /\ ~Ready(r) /\ Hopeless(r)
      BY <1>6, <1>7 DEF Deadline
    <2>2. Assembled(r) /\ child[r][phase[r]] # "starting"
      BY <1>2, <2>1 DEF Hopeless, Kinds, Waits
    <2>3. child[r][phase[r]] = "serving"
      BY <2>1, <2>2 DEF Assembled, Rank, Waits, Kinds
    <2> QED
      BY <2>1, <2>2, <2>3, OwnAnswers
  <1>8. ASSUME Publish(r) PROVE failed'[r] = failed[r]
    <2>1. Answers("display", r)
      BY <1>2, <1>8 DEF Publish, Assembled, Waits, Rank, Kinds, Answers, Taken
    <2> QED
      BY <1>6, <1>8, <2>1 DEF Publish
  <1>9. ASSUME CompareOwn(r) \/ UnlinkOwn(r) PROVE failed'[r] = failed[r]
    <2>1. UnlinkOwn(r) => store # NoRuntime
      BY <1>1, OwnerAssumption DEF UnlinkOwn, NamedInv
    <2> QED
      BY <1>6, <1>9, <2>1 DEF CompareOwn, UnlinkOwn, Returns
  <1> QED
    BY <1>4, <1>5, <1>7, <1>8, <1>9 DEF Deed, Start, Step, Serve, ServerFails, ServerFinishes,
       KillFails, ProcessExits, Signal, Crash, ChildUp, ChildExits, Proceed, InstallHandlers,
       Drained, Terminate, Reaped, Dropped

(* A runtime fails only in a deed of its own, and overlaps are not forgotten.  *)
LEMMA UndisturbedNext ==
  TypeOK /\ AssembledInv /\ NamedInv /\ UndisturbedStarts /\ [Next]_vars => UndisturbedStarts'
  <1> SUFFICES ASSUME TypeOK, AssembledInv, NamedInv, UndisturbedStarts, [Next]_vars, ~crowded'
               PROVE  UndisturbedStarts'
    BY DEF UndisturbedStarts
  <1> USE DEF UndisturbedStarts
  <1>1. ASSUME NEW r \in Runtimes, Deed(r) PROVE UndisturbedStarts'
    BY <1>1, DeedIsOwn, NoReasonToFail
  <1>2. CASE UNCHANGED vars
    BY <1>2 DEF vars, runtime, history
  <1> QED
    BY <1>1, <1>2, StepIsDeed

(* A deed of an undisturbed runtime that lives alone leaves it assembled as far *)
(* as its phase requires.                                                    *)
LEMMA DeedAssembles ==
  ASSUME TypeOK, ReapedInv, UnstartedInv, LoneInv, AssembledInv, ~crowded',
         NEW r \in Runtimes, Deed(r), r \in Present', r \notin spoiled',
         phase'[r] \in DOMAIN Waits
  PROVE  Assembled(r)'
  <1>0. /\ phase \in [Runtimes -> Phases]
        /\ child \in [Runtimes -> [Kinds -> {"none", "starting", "serving", "exited"}]]
        /\ server \in [Runtimes -> {"none", "binding", "serving", "finished"}]
    BY DEF TypeOK
  <1>1. ~crowded /\ r \notin spoiled
    BY DeedIsOwn
  <1>2. phase[r] \in DOMAIN Waits => r \in Present /\ Assembled(r)
    BY <1>1 DEF AssembledInv, Present, Waits
  <1>3. ASSUME NEW kind, Fault(kind, r) PROVE FALSE
    BY <1>3 DEF Fault
  <1>4. CASE Start(r)
    <2>1. phase'[r] = "dbus" /\ \A k \in Kinds : child[r][k] = "none"
      BY <1>0, <1>4 DEF Start, To, UnstartedInv
    <2>2. child'[r]["dbus"] = "starting" /\ \A k \in Kinds \ {"dbus"} : child'[r][k] = "none"
      BY <1>0, <1>4, <2>1 DEF Start, Spawn, Kinds
    <2> QED
      BY <2>1, <2>2 DEF Assembled, Waits, Rank, Kinds
  <1>5. CASE Proceed(r)
    <2>1. phase[r] \in Kinds /\ Ready(r) /\ Assembled(r) /\ UNCHANGED <<server, shared>>
      BY <1>2, <1>5 DEF Proceed, Kinds, Waits
    <2>2. phase'[r] = Following[phase[r]]
      BY <1>0, <1>5 DEF Proceed, To
    <2>3. child[r][phase[r]] = "serving"
      BY <1>1, <1>2, <2>1, AnswersAreOwn, OthersChildless DEF Waits, Kinds
    <2>4. child'[r] = IF Following[phase[r]] \in Kinds
                      THEN [child[r] EXCEPT ![Following[phase[r]]] = "starting"]
                      ELSE child[r]
      BY <1>0, <1>5 DEF Proceed, Spawn
    <2> QED
      BY <1>0, <2>1, <2>2, <2>3, <2>4 DEF Assembled, Waits, Rank, Kinds, Following, shared
  <1>6. CASE Publish(r) \/ InstallHandlers(r)
    <2>1. Assembled(r) /\ UNCHANGED <<child, bus, human>>
      BY <1>2, <1>6 DEF Publish, InstallHandlers, Waits, shared
    <2>2. CASE Publish(r)
      <3>1. ~Gives(r)
        BY <1>0 DEF Gives, To, Waits
      <3>2. phase'[r] = "handlers" /\ store' = r /\ server'[r] = "binding"
        BY <1>0, <2>2, <3>1 DEF Publish, To
      <3> QED
        BY <2>1, <2>2, <3>2 DEF Assembled, Waits, Publish
    <2>3. CASE InstallHandlers(r)
      <3>1. phase[r] = "handlers" /\ phase'[r] = "running" /\ UNCHANGED <<store, server>>
        BY <1>0, <2>3 DEF InstallHandlers, To, shared
      <3> QED
        BY <2>1, <3>1 DEF Assembled, Waits
    <2> QED
      BY <1>6, <2>2, <2>3
  <1>7. CASE Serve(r)
    <2>1. /\ UNCHANGED <<phase, child, bus, store>> /\ human' = r /\ server'[r] = "serving"
          /\ Assembled(r)
      BY <1>0, <1>2, <1>7 DEF Serve
    <2> QED
      BY <2>1 DEF Assembled
  <1>8. ASSUME NEW k \in Kinds, ChildUp(r, k) PROVE Assembled(r)'
    <2>1. /\ UNCHANGED <<phase, server, human, store>> /\ Assembled(r) /\ child[r][k] = "starting"
          /\ r \in Present
      BY <1>2, <1>8 DEF ChildUp
    <2>2. Free(k, r)
      BY <1>1, <2>1, OwnIsFree, OthersChildless
    <2>3. child'[r] = [child[r] EXCEPT ![k] = "serving"] /\ bus' = IF k = "dbus" THEN r ELSE bus
      BY <1>0, <1>8, <2>2 DEF ChildUp
    <2>4. Rank[k] = Waits[phase[r]]
      BY <2>1 DEF Assembled, Rank, Waits, Kinds
    <2>5. child[r] \in [Kinds -> {"none", "starting", "serving", "exited"}]
      BY <1>0
    <2> QED
      BY <1>8, <2>1, <2>3, <2>4, <2>5 DEF Assembled
  <1>9. CASE \/ Notice(r) \/ Deadline(r) \/ NoticeServer(r) \/ Drained(r) \/ Terminate(r)
             \/ Reaped(r) \/ CompareOwn(r) \/ UnlinkOwn(r) \/ Dropped(r) \/ Signal(r) \/ Crash(r)
    <2>1. \/ \E p \in {"reap", "drain", "compare", "unlink", "dropping", "ended", "killed"} :
               To(r, p)
          \/ phase[r] = "reap" /\ UNCHANGED phase
      BY <1>9 DEF Notice, Deadline, NoticeServer, Drained, Terminate, Reaped, CompareOwn,
         UnlinkOwn, Dropped, Signal, Crash, Gives, Dies, Exits, Returns, RemoveFails
    <2> QED
      BY <1>0, <2>1 DEF To, Waits
  <1>10. CASE ServerFinishes(r)
    BY <1>10 DEF ServerFinishes, Closing, Waits
  <1>11. CASE ProcessExits(r)
    <2>1. UNCHANGED <<phase, child, server, shared>>
      BY <1>11 DEF ProcessExits
    <2> QED
      BY <1>2, <2>1 DEF Assembled, shared
  <1> QED
    BY <1>3, <1>4, <1>5, <1>6, <1>7, <1>8, <1>9, <1>10, <1>11
    DEF Deed, Step, ServerFails, KillFails, Crash, ChildExits

(* What a runtime waits for is there once it has got past waiting for it.       *)
LEMMA AssembledNext ==
  /\ TypeOK /\ ReapedInv /\ UnstartedInv /\ LoneInv /\ AssembledInv
  /\ [Next]_vars
  => AssembledInv'
  <1> SUFFICES ASSUME TypeOK, ReapedInv, UnstartedInv, LoneInv, AssembledInv, [Next]_vars,
                      ~crowded', NEW o \in Runtimes, o \in Present', o \notin spoiled',
                      phase'[o] \in DOMAIN Waits
               PROVE  Assembled(o)'
    BY DEF AssembledInv, Present
  <1>1. ASSUME NEW r \in Runtimes, Deed(r) PROVE Assembled(o)'
    <2>1. CASE r = o
      BY <1>1, <2>1, DeedAssembles
    <2>2. CASE r # o
      <3>1. o \in Present /\ o \notin spoiled
        BY <1>1, <2>2, DeedIsOwn DEF Present
      <3>2. phase[o] \in DOMAIN Waits /\ Assembled(o)
        BY <1>1, <2>2, <3>1, DeedIsOwn DEF AssembledInv
      <3>3. /\ phase'[o] = phase[o] /\ child'[o] = child[o] /\ server'[o] = server[o]
            /\ UNCHANGED shared
        BY <1>1, <2>2, <3>1, DeedIsOwn, OthersAside
      <3> QED
        BY <3>2, <3>3 DEF Assembled, shared
    <2> QED
      BY <2>1, <2>2
  <1>2. CASE UNCHANGED vars
    <2>1. UNCHANGED <<phase, child, server, bus, human, store, crowded, spoiled>>
      BY <1>2 DEF vars, runtime, shared, history
    <2> QED
      BY <2>1 DEF Present, AssembledInv, Assembled
  <1> QED
    BY <1>1, <1>2, StepIsDeed

-----------------------------------------------------------------------------
(* The parts that are inductive only together, with Inv to start from.       *)
StartInv == /\ UnstartedInv /\ LoneInv /\ AssembledInv
            /\ NamedInv /\ UndisturbedStarts

(* Before the first runtime there is nobody to get in the way.                 *)
LEMMA StartInvInit == Init => StartInv
  <1> SUFFICES ASSUME Init PROVE StartInv
    OBVIOUS
  <1>1. /\ Present = {} /\ \A r \in Runtimes : phase[r] = "off" /\ ~failed[r]
        /\ \A r \in Runtimes : server[r] = "none" /\ \A k \in Kinds : child[r][k] = "none"
    BY DEF Init, Present
  <1> QED
    BY <1>1 DEF StartInv, UnstartedInv, LoneInv, AssembledInv, NamedInv, UndisturbedStarts

(* The inductive invariant of the starts: who lives when nobody overlapped, and *)
(* what an undisturbed runtime has assembled at each phase of its start.      *)
THEOREM StartInvCorrect == Spec => []StartInv
  <1>1. Inv /\ StartInv /\ [Next]_vars => StartInv'
    BY UnstartedNext, LoneNext, AssembledNext, NamedNext, UndisturbedNext DEF Inv, StartInv
  <1> QED
    BY InvCorrect, StartInvInit, <1>1, PTL DEF Spec

(* Runtimes that follow one another start and run without an error, whatever    *)
(* the earlier ones met, unless a supervisor was killed.                     *)
THEOREM Undisturbed == Spec => []UndisturbedStarts
  <1>1. StartInv => UndisturbedStarts
    BY DEF StartInv
  <1> QED
    BY StartInvCorrect, <1>1, PTL

(* A runtime that is up alone is advertised, hears of human input and owns      *)
(* its children's resources.                                                *)
THEOREM Published == Spec => []RunningIsPublished
  <1>1. StartInv => RunningIsPublished
    BY DEF StartInv, AssembledInv, Assembled, RunningIsPublished, Present, Waits, Rank, Kinds
  <1> QED
    BY StartInvCorrect, <1>1, PTL

=============================================================================
