------------------------ MODULE ProcessRegistryProofs ------------------------
(***************************************************************************)
(* Proofs about ProcessRegistry, for every set of processes and pids, every *)
(* limit and every combination of faults.                                  *)
(***************************************************************************)
EXTENDS ProcessRegistry, FiniteSetTheorems, TLAPS

(* An entry is marked as finished exactly when its process was reaped, so    *)
(* that the pid of any other entry is still its own.                         *)
EntriesInv ==
  /\ finished \subseteq entries
  /\ \A p \in entries : leader[p] # "unborn" /\ (p \in finished <=> leader[p] = "reaped")
  /\ \A p \in helpers : leader[p] # "unborn"
  /\ killer # NoOne => killer \in entries \ finished

(* Whoever lives has its pid for itself.                                    *)
PidsInv == \A p, q \in Processes : p # q /\ Lives(p) /\ Lives(q) => pid[p] # pid[q]

(* Processes end once, and what was reported is how.                        *)
EndsInv ==
  /\ \A p \in Processes : ending[p] = "none" <=> leader[p] \in {"unborn", "running"}
  /\ EndIsFinal

RegistryInv == TypeOK /\ EntriesInv /\ PidsInv /\ EndsInv /\ RunningIsManaged

(* What is in the pipes was written, and what was read is accounted for.    *)
OutputInv == /\ \A p \in Processes : pending[p] <= written[p]
             /\ TruncationExact

-----------------------------------------------------------------------------
(* Nothing is registered, alive or reported before the first request.       *)
LEMMA RegistryInit == Init => RegistryInv /\ OutputInv
  BY BoundsAssumption, ProcessesAssumption
  DEF Init, RegistryInv, TypeOK, EntriesInv, PidsInv, EndsInv, EndIsFinal, Lives,
      RunningIsManaged, OutputInv, TruncationExact, Endings

(* Reaping and marking an entry keep together, whoever does them.           *)
LEMMA FinishKeeps ==
  ASSUME RegistryInv, NEW p \in entries, Finish(p),
         UNCHANGED <<ending, helpers, pid, entries>>
  PROVE  /\ leader' \in [Processes -> {"unborn", "running", "zombie", "reaped"}]
         /\ finished' \subseteq Processes
         /\ exitCode' \in [Processes -> Endings]
         /\ finished' \subseteq entries'
         /\ \A q \in entries' :
              leader'[q] # "unborn" /\ (q \in finished' <=> leader'[q] = "reaped")
         /\ \A q \in helpers' : leader'[q] # "unborn"
         /\ PidsInv'
         /\ \A q \in Processes : ending'[q] = "none" <=> leader'[q] \in {"unborn", "running"}
         /\ \A q \in finished' : exitCode'[q] = ending'[q]
         /\ RunningIsManaged'
         /\ Ended(p) => p \in finished'
         /\ ~Ended(p) => finished' = finished
  <1> USE DEF RegistryInv
  <1>0. p \in Processes
    BY DEF TypeOK
  <1>1. CASE Ended(p)
    <2>1. /\ leader' = [leader EXCEPT ![p] = "reaped"]
          /\ finished' = finished \cup {p}
          /\ exitCode' = [exitCode EXCEPT ![p] = ending[p]]
      BY <1>1 DEF Finish
    <2>2. \A q \in Processes : /\ q # p => leader'[q] = leader[q]
                               /\ leader'[p] = "reaped"
                               /\ q # p => exitCode'[q] = exitCode[q]
                               /\ exitCode'[p] = ending[p]
      BY <1>0, <2>1 DEF TypeOK
    <2>3. PidsInv'
      BY <2>2 DEF PidsInv, Lives
    <2>4. RunningIsManaged'
      BY <2>1, <2>2 DEF RunningIsManaged
    <2>5. /\ leader' \in [Processes -> {"unborn", "running", "zombie", "reaped"}]
          /\ finished' \subseteq Processes
          /\ exitCode' \in [Processes -> Endings]
      BY <1>0, <2>1 DEF TypeOK
    <2>6. /\ finished' \subseteq entries'
          /\ \A q \in entries' :
               leader'[q] # "unborn" /\ (q \in finished' <=> leader'[q] = "reaped")
          /\ \A q \in helpers' : leader'[q] # "unborn"
      BY <1>0, <2>1, <2>2 DEF EntriesInv, TypeOK
    <2>7. \A q \in Processes : ending'[q] = "none" <=> leader'[q] \in {"unborn", "running"}
      BY <1>0, <1>1, <2>2 DEF EndsInv, Ended
    <2>8. \A q \in finished' : exitCode'[q] = ending'[q]
      BY <1>0, <2>1, <2>2 DEF EndsInv, EndIsFinal, TypeOK
    <2> QED
      BY <1>1, <2>1, <2>3, <2>4, <2>5, <2>6, <2>7, <2>8
  <1>2. CASE ~Ended(p)
    BY <1>2 DEF Finish, EntriesInv, PidsInv, Lives, EndsInv, EndIsFinal,
       RunningIsManaged, TypeOK
  <1> QED
    BY <1>1, <1>2

(* The signal of a kill reaches the process it names and nobody else's.     *)
LEMMA SignalHits ==
  ASSUME RegistryInv, NEW p \in entries \ finished
  PROVE  /\ p \in Processes /\ Lives(p)
         /\ Group(p) = {p}
  BY DEF RegistryInv, TypeOK, EntriesInv, PidsInv, Lives, Group

(* A kill changes the process it names alone.                               *)
LEMMA SignalKeeps ==
  ASSUME RegistryInv, NEW p \in Processes, Signal(p)
  PROVE  /\ RegistryInv'
         /\ killer' = p
         /\ \A q \in Processes : ending'[q] # ending[q] => q = p
  <1> USE DEF RegistryInv
  <1>1. /\ p \in entries \ finished /\ Group(p) = {p} /\ killer' = p
        /\ UNCHANGED <<pid, entries, finished, exitCode, service, pending, kept,
                       truncated, written, told>>
    BY SignalHits DEF Signal, store, output
  <1>2. CASE UNCHANGED <<leader, ending, helpers>>
    BY <1>1, <1>2 DEF TypeOK, EntriesInv, PidsInv, Lives, EndsInv, EndIsFinal,
       RunningIsManaged
  <1>3. CASE /\ leader' = [q \in Processes |->
                             IF q \in Group(p) /\ leader[q] = "running"
                             THEN "zombie" ELSE leader[q]]
             /\ ending' = [q \in Processes |->
                             IF q \in Group(p) /\ leader[q] = "running"
                             THEN "killed" ELSE ending[q]]
             /\ helpers' = helpers \ Group(p)
    <2>1. \A q \in Processes :
            /\ q # p => leader'[q] = leader[q] /\ ending'[q] = ending[q]
            /\ leader[p] = "running" => leader'[p] = "zombie" /\ ending'[p] = "killed"
            /\ leader[p] # "running" => leader'[p] = leader[p] /\ ending'[p] = ending[p]
      BY <1>1, <1>3
    <2>2. TypeOK'
      BY <1>1, <1>3 DEF TypeOK, Endings
    <2>3. EntriesInv'
      BY <1>1, <1>3, <2>1 DEF EntriesInv, TypeOK
    <2>4. PidsInv'
      BY <1>1, <1>3, <2>1 DEF PidsInv, Lives
    <2>5. EndsInv'
      BY <1>1, <2>1 DEF EndsInv, EndIsFinal, EntriesInv, TypeOK
    <2>6. RunningIsManaged'
      BY <1>1, <2>1 DEF RunningIsManaged
    <2> QED
      BY <1>1, <2>1, <2>2, <2>3, <2>4, <2>5, <2>6
  <1> QED
    BY <1>2, <1>3 DEF Signal, KillGroup

(* Making room drops no entry whose process runs.                           *)
LEMMA RoomShape ==
  ASSUME NEW out \in Room
  PROVE  out \subseteq Removable /\ (out = {} \/ \E e \in Removable : out = {e})
  BY DEF Room

(* Making room and starting a process leave every other entry as it was.    *)
LEMMA StartKeeps ==
  ASSUME RegistryInv, NEW p \in Processes, Start(p)
  PROVE  RegistryInv'
  <1> USE DEF RegistryInv
  <1>1. PICK out \in Room, n \in Pids :
          /\ entries' = (entries \ out) \cup {p}
          /\ finished' = finished \ out
          /\ leader' = [Evicted(out) EXCEPT ![p] = "running"]
          /\ \A q \in Processes \ out : Lives(q) => pid[q] # n
          /\ \A q \in out \cap helpers : pid[q] # n
          /\ pid' = [pid EXCEPT ![p] = n]
    BY DEF Start
  <1>2. /\ killer = NoOne /\ leader[p] = "unborn"
        /\ told' = [told EXCEPT ![p] = "running"]
        /\ UNCHANGED <<ending, helpers, exitCode, killer, service, pending, kept,
                       truncated, written>>
    BY DEF Start, Free, output
  <1>3. \A q \in out : q \in entries /\ Ended(q)
    BY RoomShape DEF Removable
  <1>4. p \notin entries /\ p \notin helpers /\ p \notin out
    BY <1>2, <1>3 DEF EntriesInv
  <1>5. \A q \in Processes :
          /\ q = p => leader'[q] = "running" /\ pid'[q] = n /\ told'[q] = "running"
          /\ q # p => pid'[q] = pid[q] /\ told'[q] = told[q]
          /\ q # p /\ q \notin out => leader'[q] = leader[q]
          /\ q \in out => leader'[q] = "reaped"
    BY <1>1, <1>2, <1>3, <1>4 DEF Evicted, TypeOK
  <1>6. TypeOK'
    BY <1>1, <1>2 DEF TypeOK, Evicted
  <1>7. EntriesInv'
    BY <1>1, <1>2, <1>3, <1>4, <1>5 DEF EntriesInv, TypeOK
  <1>8. PidsInv'
    <2>1. \A q \in Processes : q # p /\ Lives(q)' =>
            Lives(q) /\ pid[q] # n /\ pid'[q] = pid[q]
      BY <1>1, <1>2, <1>4, <1>5 DEF Lives
    <2> QED
      BY <1>5, <2>1 DEF PidsInv
  <1>9. EndsInv'
    BY <1>1, <1>2, <1>3, <1>4, <1>5 DEF EndsInv, EndIsFinal, Ended, TypeOK
  <1>10. RunningIsManaged'
    BY <1>1, <1>4, <1>5 DEF RunningIsManaged, EntriesInv
  <1> QED
    BY <1>6, <1>7, <1>8, <1>9, <1>10

(* A start that fails has only made room.                                   *)
LEMMA StartFailsKeeps ==
  ASSUME RegistryInv, StartFails
  PROVE  RegistryInv'
  <1> USE DEF RegistryInv
  <1>1. PICK out \in Room : /\ entries' = entries \ out
                            /\ finished' = finished \ out
                            /\ leader' = Evicted(out)
    BY DEF StartFails
  <1>2. /\ killer = NoOne
        /\ UNCHANGED <<ending, helpers, pid, exitCode, killer, service, pending, kept,
                       truncated, written, told>>
    BY DEF StartFails, Free, output
  <1>3. \A q \in out : q \in entries /\ Ended(q)
    BY RoomShape DEF Removable
  <1>4. \A q \in Processes : leader'[q] = IF q \in out THEN "reaped" ELSE leader[q]
    BY <1>1, <1>3 DEF Evicted
  <1>5. TypeOK'
    BY <1>1, <1>2 DEF TypeOK, Evicted
  <1>6. EntriesInv'
    BY <1>1, <1>2, <1>4 DEF EntriesInv, TypeOK
  <1>7. PidsInv'
    <2>1. \A q \in Processes : Lives(q)' => Lives(q)
      BY <1>2, <1>4 DEF Lives
    <2> QED
      BY <1>2, <2>1 DEF PidsInv
  <1>8. EndsInv'
    BY <1>1, <1>2, <1>3, <1>4 DEF EndsInv, EndIsFinal, Ended, TypeOK
  <1>9. RunningIsManaged'
    BY <1>1, <1>4 DEF RunningIsManaged
  <1> QED
    BY <1>5, <1>6, <1>7, <1>8, <1>9

(* A status, or the end of a wait, reports what was recorded.               *)
LEMMA ReportKeeps ==
  ASSUME RegistryInv, NEW p \in Processes, Status(p) \/ Reap(p)
  PROVE  RegistryInv'
  <1> USE DEF RegistryInv
  <1>0. /\ p \in entries
        /\ UNCHANGED <<ending, helpers, pid, entries, service, pending, kept, truncated,
                       written>>
        /\ killer' = NoOne
    <2>1. CASE Status(p)
      BY <2>1 DEF Status, Free, output
    <2>2. CASE Reap(p)
      BY <2>2, ProcessesAssumption DEF Reap, EntriesInv, output
    <2> QED
      BY <2>1, <2>2
  <1>1. /\ leader' \in [Processes -> {"unborn", "running", "zombie", "reaped"}]
        /\ finished' \subseteq Processes
        /\ exitCode' \in [Processes -> Endings]
        /\ finished' \subseteq entries'
        /\ \A q \in entries' :
             leader'[q] # "unborn" /\ (q \in finished' <=> leader'[q] = "reaped")
        /\ \A q \in helpers' : leader'[q] # "unborn"
        /\ PidsInv'
        /\ \A q \in Processes : ending'[q] = "none" <=> leader'[q] \in {"unborn", "running"}
        /\ \A q \in finished' : exitCode'[q] = ending'[q]
        /\ RunningIsManaged'
    <2>1. CASE Finish(p)
      BY <1>0, <2>1, FinishKeeps
    <2>2. CASE UNCHANGED <<leader, finished, exitCode>>
      BY <1>0, <2>2 DEF TypeOK, EntriesInv, PidsInv, Lives, EndsInv, EndIsFinal,
         RunningIsManaged
    <2> QED
      BY <2>1, <2>2 DEF Status, Info, Reap
  <1>2. \/ told' = told
        \/ told' = [told EXCEPT ![p] = "running"]
        \/ p \in finished' /\ told' = [told EXCEPT ![p] = exitCode'[p]]
    <2>1. CASE Status(p)
      BY <2>1 DEF Status, Info
    <2>2. CASE Reap(p)
      <3>1. p \in finished'
        BY <2>2 DEF Reap, WaitEnded, Finish
      <3> QED
        BY <2>2, <3>1 DEF Reap
    <2> QED
      BY <2>1, <2>2
  <1>3. \A q \in Processes : told'[q] \in {"own", "killed"} => told'[q] = ending'[q]
    BY <1>0, <1>1, <1>2 DEF EndsInv, EndIsFinal, TypeOK
  <1>4. told' \in [Processes -> {"nothing", "running", "own", "killed"}]
    <2>1. p \in finished' => exitCode'[p] \in {"own", "killed"}
      BY <1>0, <1>1 DEF Endings
    <2> QED
      BY <1>2, <2>1 DEF TypeOK
  <1>5. TypeOK'
    BY <1>0, <1>1, <1>4 DEF TypeOK
  <1> QED
    BY <1>0, <1>1, <1>3, <1>5 DEF EntriesInv, EndsInv, EndIsFinal

(* What the requests of a service that is up do keeps the books.            *)
LEMMA RequestKeeps ==
  ASSUME RegistryInv, NEW p \in Processes,
         Start(p) \/ StartFails \/ Status(p) \/ Reap(p) \/ Kill(p) \/ DropSignal(p)
  PROVE  RegistryInv'
  <1>1. Kill(p) \/ DropSignal(p) => Signal(p)
    BY DEF Kill, DropSignal
  <1> QED
    BY <1>1, StartKeeps, StartFailsKeeps, ReportKeeps, SignalKeeps

(* So does what the processes do by themselves.                             *)
LEMMA ProcessKeeps ==
  ASSUME RegistryInv, NEW p \in Processes, Exit(p) \/ Fork(p) \/ HelperExits(p)
  PROVE  RegistryInv'
  <1> USE DEF RegistryInv, store, output
  <1>1. CASE Exit(p)
    <2>1. \A q \in Processes :
            /\ q # p => leader'[q] = leader[q] /\ ending'[q] = ending[q]
            /\ leader[p] = "running" /\ leader'[p] = "zombie" /\ ending'[p] = "own"
      BY <1>1 DEF Exit, TypeOK
    <2>2. TypeOK'
      BY <1>1 DEF Exit, TypeOK, Endings
    <2>3. EntriesInv'
      BY <1>1, <2>1 DEF Exit, EntriesInv, TypeOK
    <2>4. PidsInv'
      BY <1>1, <2>1 DEF Exit, PidsInv, Lives
    <2>5. EndsInv' /\ RunningIsManaged'
      BY <1>1, <2>1 DEF Exit, EndsInv, EndIsFinal, RunningIsManaged, EntriesInv, TypeOK
    <2> QED
      BY <2>2, <2>3, <2>4, <2>5
  <1>2. CASE Fork(p) \/ HelperExits(p)
    BY <1>2 DEF Fork, HelperExits, TypeOK, EntriesInv, PidsInv, Lives, EndsInv,
       EndIsFinal, RunningIsManaged
  <1> QED
    BY <1>1, <1>2

(* The end of the service forgets entries that have finished, all of them.  *)
LEMMA EndingKeeps ==
  ASSUME RegistryInv, Shutdown \/ Close
  PROVE  RegistryInv'
  <1> USE DEF RegistryInv, system, store, output
  <1>1. CASE Shutdown
    BY <1>1 DEF Shutdown, Free, TypeOK, EntriesInv, PidsInv, Lives, EndsInv, EndIsFinal,
       RunningIsManaged
  <1>2. CASE Close
    BY <1>2 DEF Close, TypeOK, EntriesInv, PidsInv, Lives, EndsInv, EndIsFinal,
       RunningIsManaged
  <1> QED
    BY <1>1, <1>2

(* Output does not touch the books.                                         *)
LEMMA OutputApart ==
  ASSUME RegistryInv, TypeOK', UNCHANGED <<system, store, killer, service, told>>
  PROVE  RegistryInv'
  BY DEF RegistryInv, system, store, EntriesInv, PidsInv, Lives, EndsInv, EndIsFinal,
     RunningIsManaged

(* Appending keeps what fits, and sets the flag when something does not.    *)
LEMMA DrainKeeps ==
  ASSUME TypeOK, OutputInv, NEW p \in Processes, Drain(p)
  PROVE  TypeOK' /\ OutputInv'
  <1>1. PICK size \in 1..pending[p] :
          /\ pending' = [pending EXCEPT ![p] = @ - size]
          /\ AppendBounded(p, size)
    BY DEF Drain
  <1>2. UNCHANGED <<leader, ending, helpers, pid, entries, finished, exitCode, killer,
                    service, written, told>>
    BY DEF Drain, system, store
  <1>3. /\ pending[p] \in Nat /\ kept[p] \in Nat /\ kept[p] <= MaxOutput
        /\ pending[p] <= MaxWritten /\ written[p] \in Nat /\ MaxOutput \in Nat
        /\ MaxWritten \in Nat /\ pending[p] <= written[p]
    BY BoundsAssumption DEF TypeOK, OutputInv
  <1>4. /\ size \in Nat /\ 1 <= size /\ size <= pending[p]
        /\ pending[p] - size \in 0..MaxWritten
    BY <1>3
  <1> DEFINE room == MaxOutput - kept[p]
             more == IF size <= room THEN size ELSE room
  <1>5. /\ kept' = [kept EXCEPT ![p] = @ + more]
        /\ truncated' = IF size > room THEN truncated \cup {p} ELSE truncated
    BY <1>1 DEF AppendBounded
  <1>6. kept[p] + more \in 0..MaxOutput
    BY <1>3, <1>4
  <1>7. /\ pending' \in [Processes -> 0..MaxWritten]
        /\ kept' \in [Processes -> 0..MaxOutput]
        /\ truncated' \subseteq Processes
    BY <1>1, <1>4, <1>5, <1>6 DEF TypeOK
  <1>8. TypeOK'
    BY <1>2, <1>7 DEF TypeOK
  <1>9. /\ pending'[p] = pending[p] - size
        /\ kept'[p] = kept[p] + more
        /\ p \in truncated' <=> p \in truncated \/ size > room
        /\ \A q \in Processes : q # p => /\ pending'[q] = pending[q] /\ kept'[q] = kept[q]
                                         /\ q \in truncated' <=> q \in truncated
    BY <1>1, <1>5 DEF TypeOK
  <1>10. LET read == written[p] - pending'[p] IN
         /\ pending'[p] <= written[p]
         /\ kept'[p] = IF read <= MaxOutput THEN read ELSE MaxOutput
         /\ p \in truncated' <=> read > MaxOutput
    <2>1. LET read == written[p] - pending[p] IN
          /\ kept[p] = IF read <= MaxOutput THEN read ELSE MaxOutput
          /\ p \in truncated <=> read > MaxOutput
      BY DEF OutputInv, TruncationExact
    <2> QED
      BY <1>3, <1>4, <1>9, <2>1
  <1>11. ASSUME NEW q \in Processes
         PROVE  LET read == written[q] - pending'[q] IN
                /\ pending'[q] <= written[q]
                /\ kept'[q] = IF read <= MaxOutput THEN read ELSE MaxOutput
                /\ q \in truncated' <=> read > MaxOutput
    <2>1. CASE q = p
      BY <1>10, <2>1
    <2>2. CASE q # p
      <3>1. /\ pending'[q] = pending[q] /\ kept'[q] = kept[q]
            /\ q \in truncated' <=> q \in truncated
        BY <1>9, <2>2
      <3>2. /\ pending[q] <= written[q]
            /\ kept[q] = IF written[q] - pending[q] <= MaxOutput
                         THEN written[q] - pending[q] ELSE MaxOutput
            /\ q \in truncated <=> written[q] - pending[q] > MaxOutput
        BY DEF OutputInv, TruncationExact
      <3> QED
        BY <3>1, <3>2
    <2> QED
      BY <2>1, <2>2
  <1> QED
    BY <1>2, <1>8, <1>11 DEF OutputInv, TruncationExact

(* Writing leaves what was read as it is.                                   *)
LEMMA WriteKeeps ==
  ASSUME TypeOK, OutputInv, NEW p \in Processes, Write(p)
  PROVE  TypeOK' /\ OutputInv'
  <1>1. /\ written[p] < MaxWritten
        /\ written' = [written EXCEPT ![p] = @ + 1]
        /\ pending' = [pending EXCEPT ![p] = @ + 1]
        /\ UNCHANGED <<leader, ending, helpers, pid, entries, finished, exitCode, killer,
                       service, kept, truncated, told>>
    BY DEF Write, system, store
  <1>2. /\ pending[p] \in Nat /\ written[p] \in Nat /\ MaxWritten \in Nat
        /\ pending[p] <= written[p]
    BY BoundsAssumption DEF TypeOK, OutputInv
  <1>3. written[p] + 1 \in 0..MaxWritten /\ pending[p] + 1 \in 0..MaxWritten
    BY <1>1, <1>2
  <1>4. /\ pending' \in [Processes -> 0..MaxWritten]
        /\ written' \in [Processes -> 0..MaxWritten]
    BY <1>1, <1>3 DEF TypeOK
  <1>5. TypeOK'
    BY <1>1, <1>4 DEF TypeOK
  <1>6. /\ pending'[p] = pending[p] + 1 /\ written'[p] = written[p] + 1
        /\ \A q \in Processes \ {p} : pending'[q] = pending[q] /\ written'[q] = written[q]
    BY <1>1 DEF TypeOK
  <1>7. pending'[p] <= written'[p] /\ written'[p] - pending'[p] = written[p] - pending[p]
    BY <1>2, <1>6
  <1> QED
    BY <1>1, <1>5, <1>6, <1>7 DEF OutputInv, TruncationExact

(* Every step keeps the registry's books and the account of the output.     *)
LEMMA RegistryNext ==
  RegistryInv /\ OutputInv /\ [Next]_vars => RegistryInv' /\ OutputInv'
  <1> SUFFICES ASSUME RegistryInv, OutputInv, [Next]_vars
               PROVE  RegistryInv' /\ OutputInv'
    OBVIOUS
  <1>1. UNCHANGED output => OutputInv'
    BY DEF OutputInv, TruncationExact, output
  <1>2. ASSUME NEW p \in Processes,
               Start(p) \/ StartFails \/ Status(p) \/ Reap(p) \/ Kill(p) \/ DropSignal(p)
        PROVE  RegistryInv' /\ OutputInv'
    <2>1. UNCHANGED output
      BY <1>2 DEF Start, StartFails, Status, Reap, Kill, DropSignal, Signal
    <2> QED
      BY <1>1, <1>2, <2>1, RequestKeeps
  <1>3. ASSUME StartFails PROVE RegistryInv' /\ OutputInv'
    BY <1>1, <1>3, StartFailsKeeps DEF StartFails
  <1>4. ASSUME NEW p \in Processes, Exit(p) \/ Fork(p) \/ HelperExits(p)
        PROVE  RegistryInv' /\ OutputInv'
    <2>1. UNCHANGED output
      BY <1>4 DEF Exit, Fork, HelperExits
    <2> QED
      BY <1>1, <1>4, <2>1, ProcessKeeps
  <1>5. ASSUME Shutdown \/ Close PROVE RegistryInv' /\ OutputInv'
    <2>1. UNCHANGED output
      BY <1>5 DEF Shutdown, Close
    <2> QED
      BY <1>1, <1>5, <2>1, EndingKeeps
  <1>6. ASSUME NEW p \in Processes, Write(p) \/ Drain(p)
        PROVE  RegistryInv' /\ OutputInv'
    <2>1. TypeOK' /\ OutputInv'
      BY <1>6, WriteKeeps, DrainKeeps DEF RegistryInv
    <2>2. UNCHANGED <<system, store, killer, service, told>>
      BY <1>6 DEF Write, Drain
    <2> QED
      BY <2>1, <2>2, OutputApart
  <1>7. CASE UNCHANGED vars
    <2>1. TypeOK' /\ UNCHANGED <<system, store, killer, service, told, output>>
      BY <1>7 DEF vars, RegistryInv, TypeOK, system, store, output
    <2> QED
      BY <1>1, <2>1, OutputApart
  <1> QED
    BY <1>2, <1>3, <1>4, <1>5, <1>6, <1>7 DEF Next

-----------------------------------------------------------------------------
(* The inductive invariant holds in every behaviour.                        *)
THEOREM RegistryCorrect == Spec => [](RegistryInv /\ OutputInv)
  BY RegistryInit, RegistryNext, PTL DEF Spec

(* Every variable of the registry keeps its type.                           *)
THEOREM RegistryTyped == Spec => []TypeOK
  <1>1. RegistryInv => TypeOK
    BY DEF RegistryInv
  <1> QED
    BY <1>1, RegistryCorrect, PTL

(* A process that runs is never forgotten (spawn_process's eviction, Drop).  *)
THEOREM NothingForgotten == Spec => []RunningIsManaged
  <1>1. RegistryInv => RunningIsManaged
    BY DEF RegistryInv
  <1> QED
    BY <1>1, RegistryCorrect, PTL

(* What was told of an end is how the process ended (info, kill_process).    *)
THEOREM EndsAreFinal == Spec => []EndIsFinal
  <1>1. RegistryInv => EndIsFinal
    BY DEF RegistryInv, EndsInv
  <1> QED
    BY <1>1, RegistryCorrect, PTL

(* The truncation flag tells the truth (BoundedOutput::append).             *)
THEOREM TruncationTold == Spec => []TruncationExact
  <1>1. OutputInv => TruncationExact
    BY DEF OutputInv
  <1> QED
    BY <1>1, RegistryCorrect, PTL

(* Only a kill of a process, or the shutdown, kills it: no step changes how   *)
(* another process ended to "killed".                                       *)
LEMMA OnlySignalKills ==
  ASSUME RegistryInv, [Next]_vars, NEW q \in Processes,
         ending[q] = "none", ending'[q] = "killed"
  PROVE  killer' = q
  <1>1. CASE \E p \in Processes : Kill(p) \/ DropSignal(p)
    BY <1>1, SignalKeeps DEF Kill, DropSignal
  <1>2. CASE \E p \in Processes : Exit(p)
    BY <1>2 DEF Exit, RegistryInv, TypeOK
  <1>3. CASE UNCHANGED ending
    BY <1>3
  <1> QED
    BY <1>1, <1>2, <1>3 DEF Next, Start, StartFails, Status, Reap, Fork, HelperExits,
       Write, Drain, Shutdown, Close, vars, system

(* A kill signals the process it names and no other, however pids are reused *)
(* (kill_process, kill_process_group).                                      *)
THEOREM KillsItsOwn == Spec => KillsOnlyItsOwn
  <1>1. RegistryInv /\ [Next]_vars =>
          [\A q \in Processes : ending[q] = "none" /\ ending'[q] = "killed"
                                => killer' = q]_vars
    BY OnlySignalKills
  <1> QED
    BY <1>1, RegistryCorrect, PTL DEF Spec, KillsOnlyItsOwn

-----------------------------------------------------------------------------
(* The entries are finite in number and within the limit.                   *)
LimitInv == IsFiniteSet(entries) /\ RegistryBounded

(* Making room at the limit takes one entry away.                           *)
LEMMA RoomSuffices ==
  ASSUME LimitInv, NEW out \in Room
  PROVE  /\ IsFiniteSet(entries \ out)
         /\ Cardinality(entries \ out) < MaxProcesses
  <1> USE BoundsAssumption DEF LimitInv, RegistryBounded
  <1>0. Cardinality(entries) \in Nat
    BY FS_CardinalityType
  <1>1. CASE out = {}
    <2>1. Cardinality(entries) < MaxProcesses
      BY <1>1 DEF Room
    <2> QED
      BY <1>1, <2>1
  <1>2. CASE out # {}
    <2>1. PICK e \in entries : out = {e}
      BY <1>2, RoomShape DEF Removable
    <2>2. /\ IsFiniteSet(entries \ {e})
          /\ Cardinality(entries \ {e}) = Cardinality(entries) - 1
      BY FS_RemoveElement
    <2> QED
      BY <1>0, <2>1, <2>2
  <1> QED
    BY <1>1, <1>2

(* No step takes the registry past its limit.                               *)
LEMMA LimitNext == LimitInv /\ [Next]_vars => LimitInv'
  <1> SUFFICES ASSUME LimitInv, [Next]_vars PROVE LimitInv'
    OBVIOUS
  <1> USE BoundsAssumption
  <1>1. ASSUME NEW p \in Processes, Start(p) PROVE LimitInv'
    <2>1. PICK out \in Room : entries' = (entries \ out) \cup {p}
      BY <1>1 DEF Start
    <2>2. IsFiniteSet(entries \ out) /\ Cardinality(entries \ out) < MaxProcesses
      BY RoomSuffices
    <2>3. /\ IsFiniteSet((entries \ out) \cup {p})
          /\ \/ Cardinality((entries \ out) \cup {p}) = Cardinality(entries \ out)
             \/ Cardinality((entries \ out) \cup {p}) = Cardinality(entries \ out) + 1
      BY <2>2, FS_AddElement
    <2>4. Cardinality(entries \ out) \in Nat
      BY <2>2, FS_CardinalityType
    <2> QED
      BY <2>1, <2>2, <2>3, <2>4 DEF LimitInv, RegistryBounded
  <1>2. ASSUME StartFails PROVE LimitInv'
    <2>1. PICK out \in Room : entries' = entries \ out
      BY <1>2 DEF StartFails
    <2>2. /\ IsFiniteSet(entries \ out) /\ Cardinality(entries \ out) < MaxProcesses
          /\ Cardinality(entries \ out) \in Nat
      BY RoomSuffices, FS_CardinalityType
    <2> QED
      BY <2>1, <2>2 DEF LimitInv, RegistryBounded
  <1>3. ASSUME Close PROVE LimitInv'
    BY <1>3, FS_EmptySet DEF Close, LimitInv, RegistryBounded
  <1>4. CASE UNCHANGED entries
    BY <1>4 DEF LimitInv, RegistryBounded
  <1> QED
    BY <1>1, <1>2, <1>3, <1>4 DEF Next, Status, Reap, Kill, DropSignal, Signal, Exit, Fork,
       HelperExits, Write, Drain, Shutdown, vars, store, system

(* The registry never exceeds MAX_PROCESSES (spawn_process).                *)
THEOREM WithinLimit == Spec => []RegistryBounded
  <1>1. Init => LimitInv
    BY BoundsAssumption, FS_EmptySet DEF Init, LimitInv, RegistryBounded
  <1>2. LimitInv => RegistryBounded
    BY DEF LimitInv
  <1> QED
    BY <1>1, <1>2, LimitNext, PTL DEF Spec

=============================================================================
