---------------------------- MODULE TempFilesProofs ----------------------------
(***************************************************************************)
(* NoStrayFiles and FilesWhileUsed of TempFiles, for any number of workers *)
(* and files.  Neither is inductive.  A worker must know that the name it  *)
(* holds is its own (Own), or a removal could take a file from another;    *)
(* and that it holds none yet where it is about to write one (InTurn), or  *)
(* the name it held would be forgotten and the file stay.                  *)
(***************************************************************************)
EXTENDS TempFiles, TLAPS

\* The files whose names a worker has are the ones it made.
Own ==
    \A w \in Worker :
        /\ opened[w] # None =>
             disk[opened[w]] = [owner |-> w, kind |-> kind[w], complete |-> FALSE]
        /\ \A k \in Kind : held[w][k] # None =>
             disk[held[w][k]] = [owner |-> w, kind |-> k, complete |-> TRUE]

Writing(w) == step[w] \in {"get", "create", "write"}

\* Files are written in turn: the wanted ones before, none of the ones after.
InTurn ==
    \A w \in Worker :
        /\ Writing(w) => held[w][kind[w]] = None
        /\ Writing(w) /\ kind[w] # "values" => held[w]["values"] = None
        /\ Writing(w) /\ kind[w] = "credentials" => held[w]["ca"] = None
        /\ Writing(w) /\ kind[w] # "credentials" /\ "credentials" \in wanted[w] =>
             held[w]["credentials"] # None
        /\ Writing(w) /\ kind[w] = "values" /\ "ca" \in wanted[w] => held[w]["ca"] # None
        /\ step[w] \in {"client", "locate"} => held[w]["values"] = None
        /\ step[w] \in {"client", "locate", "run"} =>
             \A k \in wanted[w] : held[w][k] # None
        /\ step[w] = "run" => held[w]["values"] # None

IInv == TypeOK /\ Own /\ InTurn /\ NoStrayFiles

-----------------------------------------------------------------------------
LEMMA InitIInv == Init => IInv
  BY ConstantsAssumption
  DEF Init, IInv, TypeOK, Own, InTurn, Writing, NoStrayFiles, Attended, Kind, Secret,
      Step, File, NothingHeld

\* A name that a worker has is not free.
LEMMA OwnNotFree ==
  ASSUME TypeOK, Own, NEW p \in Path, disk[p] = None, NEW v \in Worker
  PROVE  opened[v] # p /\ \A k \in Kind : held[v][k] # p
<1>1. \A k \in Kind, c \in BOOLEAN : [owner |-> v, kind |-> k, complete |-> c] # None
  BY ConstantsAssumption DEF File
<1>2. kind[v] \in Kind
  BY DEF TypeOK
<1> QED  BY <1>1, <1>2, ConstantsAssumption DEF Own

\* Names are not shared: neither by workers, nor by the files of a worker.
LEMMA NotShared ==
  ASSUME TypeOK, Own, NEW v \in Worker, NEW w \in Worker, NEW k \in Kind,
         held[w][k] \in Path
  PROVE  /\ opened[v] # held[w][k]
         /\ \A j \in Kind : held[v][j] = held[w][k] => v = w /\ j = k
<1>1. disk[held[w][k]] = [owner |-> w, kind |-> k, complete |-> TRUE]
  BY ConstantsAssumption DEF Own
<1>2. opened[v] # held[w][k]
  <2> SUFFICES ASSUME opened[v] = held[w][k] PROVE FALSE
    OBVIOUS
  <2>1. disk[held[w][k]] = [owner |-> v, kind |-> kind[v], complete |-> FALSE]
    BY ConstantsAssumption DEF Own
  <2> QED  BY <1>1, <2>1
<1>3. ASSUME NEW j \in Kind, held[v][j] = held[w][k] PROVE v = w /\ j = k
  <2>1. disk[held[w][k]] = [owner |-> v, kind |-> j, complete |-> TRUE]
    BY <1>3, ConstantsAssumption DEF Own
  <2> QED  BY <1>1, <2>1
<1> QED  BY <1>2, <1>3

(* One lemma per action.                                                   *)

LEMMA ReconcileStep ==
  ASSUME NEW w \in Worker, NEW secrets \in SUBSET Secret, IInv, Reconcile(w, secrets)
  PROVE  IInv'
<1>1. TypeOK'
  BY ConstantsAssumption DEF IInv, TypeOK, Kind, Secret, Step, File, NothingHeld, Reconcile, Goto
<1>2. Own'
  BY DEF IInv, Own, Reconcile
<1>3. InTurn'
  BY ConstantsAssumption DEF IInv, InTurn, Writing, TypeOK, Kind, Secret, NothingHeld, Reconcile, Goto
<1>4. NoStrayFiles'
  BY ConstantsAssumption DEF IInv, NoStrayFiles, Attended, Own, TypeOK, Kind, Secret, InTurn, Writing, Reconcile, Goto
<1> QED  BY <1>1, <1>2, <1>3, <1>4 DEF IInv

LEMMA GetSecretStep ==
  ASSUME NEW w \in Worker, IInv, GetSecret(w)
  PROVE  IInv'
<1>1. TypeOK'
  BY ConstantsAssumption DEF IInv, TypeOK, Kind, Secret, Step, File, NothingHeld, GetSecret, Goto, Advance, NextAfter
<1>2. Own'
  BY ConstantsAssumption DEF IInv, Own, TypeOK, Kind, Secret, GetSecret, Goto, Advance, NextAfter
<1>3. InTurn'
  BY ConstantsAssumption DEF IInv, InTurn, Writing, TypeOK, Kind, Secret, NothingHeld, GetSecret, Goto, Advance, NextAfter
<1>4. NoStrayFiles'
  BY ConstantsAssumption DEF IInv, NoStrayFiles, Attended, Own, TypeOK, Kind, Secret, InTurn, Writing, GetSecret, Goto, Advance, NextAfter
<1> QED  BY <1>1, <1>2, <1>3, <1>4 DEF IInv

LEMMA CreateTempStep ==
  ASSUME NEW w \in Worker, IInv, CreateTemp(w)
  PROVE  IInv'
<1>1. TypeOK'
  <2>1. CASE \E p \in Free : /\ disk' = [disk EXCEPT ![p] = [owner |-> w, kind |-> kind[w], complete |-> FALSE]]
                            /\ opened' = [opened EXCEPT ![w] = p]
                            /\ Goto(w, "write")
    <3>1. PICK p \in Path : /\ disk' = [disk EXCEPT ![p] = [owner |-> w, kind |-> kind[w], complete |-> FALSE]]
                            /\ opened' = [opened EXCEPT ![w] = p]
                            /\ step' = [step EXCEPT ![w] = "write"]
      BY <2>1 DEF Free, Goto
    <3>2. [owner |-> w, kind |-> kind[w], complete |-> FALSE] \in File
      BY DEF IInv, TypeOK, File
    <3>3. disk' \in [Path -> File \union {None}]
      BY <3>1, <3>2 DEF IInv, TypeOK
    <3> QED
      BY <3>1, <3>3, ConstantsAssumption DEF IInv, TypeOK, CreateTemp, Step
  <2>2. CASE /\ Goto(w, "unwind")
             /\ UNCHANGED <<disk, opened>>
    BY <2>2 DEF IInv, TypeOK, CreateTemp, Goto, Step
  <2> QED  BY <2>1, <2>2 DEF CreateTemp
<1>2. Own'
  <2>1. CASE \E p \in Free : /\ disk' = [disk EXCEPT ![p] = [owner |-> w, kind |-> kind[w], complete |-> FALSE]]
                            /\ opened' = [opened EXCEPT ![w] = p]
    <3>1. PICK p \in Path : /\ disk[p] = None
                            /\ disk' = [disk EXCEPT ![p] = [owner |-> w, kind |-> kind[w], complete |-> FALSE]]
                            /\ opened' = [opened EXCEPT ![w] = p]
      BY <2>1 DEF Free
    <3>2. \A v \in Worker : opened[v] # p /\ \A k \in Kind : held[v][k] # p
      BY <3>1, OwnNotFree DEF IInv
    <3>3. disk'[p] = [owner |-> w, kind |-> kind[w], complete |-> FALSE] /\ opened'[w] = p
      BY <3>1 DEF IInv, TypeOK
    <3>4. \A q \in Path : q # p => disk'[q] = disk[q]
      BY <3>1 DEF IInv, TypeOK
    <3>5. \A v \in Worker : v # w => opened'[v] = opened[v]
      BY <3>1 DEF IInv, TypeOK
    <3>6. kind' = kind /\ held' = held
      BY DEF CreateTemp
    <3>7. \A v \in Worker : /\ opened[v] \in Path \union {None}
                             /\ \A k \in Kind : held[v][k] \in Path \union {None}
      BY DEF IInv, TypeOK
    <3>8. ASSUME NEW v \in Worker, opened'[v] # None
          PROVE  disk'[opened'[v]] = [owner |-> v, kind |-> kind'[v], complete |-> FALSE]
      <4>1. CASE v = w
        BY <4>1, <3>3, <3>6
      <4>2. CASE v # w
        <5>1. opened'[v] = opened[v] /\ disk'[opened[v]] = disk[opened[v]]
          BY <4>2, <3>2, <3>4, <3>5, <3>7, <3>8
        <5>2. disk[opened[v]] = [owner |-> v, kind |-> kind[v], complete |-> FALSE]
          BY <5>1, <3>8 DEF IInv, Own
        <5> QED  BY <5>1, <5>2, <3>6
      <4> QED  BY <4>1, <4>2
    <3>9. ASSUME NEW v \in Worker, NEW k \in Kind, held'[v][k] # None
          PROVE  disk'[held'[v][k]] = [owner |-> v, kind |-> k, complete |-> TRUE]
      <4>1. held'[v][k] = held[v][k] /\ disk'[held[v][k]] = disk[held[v][k]]
        BY <3>2, <3>4, <3>6, <3>7, <3>9
      <4> QED  BY <4>1, <3>9 DEF IInv, Own
    <3> QED
      BY <3>8, <3>9 DEF Own
  <2>2. CASE UNCHANGED <<disk, opened>>
    BY <2>2 DEF IInv, Own, CreateTemp
  <2> QED  BY <2>1, <2>2 DEF CreateTemp
<1>3. InTurn'
  BY ConstantsAssumption DEF IInv, InTurn, Writing, TypeOK, Kind, Secret, NothingHeld, CreateTemp, Goto, Free
<1>4. NoStrayFiles'
  BY ConstantsAssumption DEF IInv, NoStrayFiles, Attended, Own, TypeOK, Kind, Secret, InTurn, Writing, CreateTemp, Goto, Free
<1> QED  BY <1>1, <1>2, <1>3, <1>4 DEF IInv

LEMMA WriteStep ==
  ASSUME NEW w \in Worker, IInv, Write(w)
  PROVE  IInv'
<1>1. TypeOK'
  <2>1. opened[w] \in Path /\ kind[w] \in Kind
    BY DEF IInv, TypeOK, Write
  <2>2. [owner |-> w, kind |-> kind[w], complete |-> TRUE] \in File
    BY <2>1 DEF File
  <2>3. disk' \in [Path -> File \union {None}]
    BY <2>1, <2>2 DEF IInv, TypeOK, Write
  <2>4. held' \in [Worker -> [Kind -> Path \union {None}]]
    BY <2>1 DEF IInv, TypeOK, Write
  <2>5. leaked' \subseteq Path /\ opened' \in [Worker -> Path \union {None}]
    BY <2>1 DEF IInv, TypeOK, Write
  <2>6. step' \in [Worker -> Step] /\ kind' \in [Worker -> Kind]
    BY DEF IInv, TypeOK, Write, Goto, Advance, NextAfter, Step, Kind, Secret
  <2>7. ASSUME NEW v \in Worker
        PROVE  /\ step'[v] = "write" <=> opened'[v] # None
               /\ step'[v] = "idle" => held'[v] = NothingHeld /\ kind'[v] = "credentials"
               /\ step'[v] = "get" => kind'[v] \in Secret
    <3>1. CASE v = w
      BY <3>1 DEF IInv, TypeOK, Write, Goto, Advance, NextAfter, Kind, Secret
    <3>2. CASE v # w
      <4>1. UNCHANGED <<step[v], opened[v], held[v], kind[v]>>
        BY <3>2 DEF IInv, TypeOK, Write, Goto, Advance
      <4> QED  BY <4>1 DEF IInv, TypeOK
    <3> QED  BY <3>1, <3>2
  <2> QED  BY <2>3, <2>4, <2>5, <2>6, <2>7 DEF IInv, TypeOK, Write
<1>2. Own'
  <2> DEFINE p == opened[w]
  <2>1. p \in Path /\ kind[w] \in Kind
    BY DEF IInv, TypeOK, Write
  <2>2. \A v \in Worker : v # w => opened'[v] = opened[v] /\ kind'[v] = kind[v] /\ opened[v] # p
    <3>1. ASSUME NEW v \in Worker, v # w, opened[v] = p PROVE FALSE
      <4>1. disk[p] = [owner |-> v, kind |-> kind[v], complete |-> FALSE]
        BY <2>1, <3>1, ConstantsAssumption DEF IInv, Own
      <4>2. disk[p] = [owner |-> w, kind |-> kind[w], complete |-> FALSE]
        BY <2>1, ConstantsAssumption DEF IInv, Own
      <4> QED  BY <3>1, <4>1, <4>2
    <3> QED  BY <3>1 DEF IInv, TypeOK, Write, Advance
  <2>3. opened'[w] = None
    BY DEF IInv, TypeOK, Write
  <2>4. \A v \in Worker, k \in Kind : held[v][k] # p
    BY <2>1, NotShared DEF IInv
  <2>5. \A q \in Path : q # p => disk'[q] = disk[q]
    BY <2>1 DEF IInv, TypeOK, Write
  <2>6. \A v \in Worker : /\ opened[v] \in Path \union {None}
                           /\ \A k \in Kind : held[v][k] \in Path \union {None}
    BY DEF IInv, TypeOK
  <2>7. ASSUME NEW v \in Worker, opened'[v] # None
        PROVE  disk'[opened'[v]] = [owner |-> v, kind |-> kind'[v], complete |-> FALSE]
    <3>1. v # w
      BY <2>3, <2>7
    <3>2. opened'[v] = opened[v] /\ kind'[v] = kind[v] /\ disk'[opened[v]] = disk[opened[v]]
      BY <3>1, <2>2, <2>5, <2>6, <2>7
    <3>3. disk[opened[v]] = [owner |-> v, kind |-> kind[v], complete |-> FALSE]
      BY <3>2, <2>7 DEF IInv, Own
    <3> QED  BY <3>2, <3>3
  <2>8. ASSUME NEW v \in Worker, NEW k \in Kind, held'[v][k] # None
        PROVE  disk'[held'[v][k]] = [owner |-> v, kind |-> k, complete |-> TRUE]
    <3>1. CASE held'[v][k] = held[v][k]
      <4>1. disk'[held[v][k]] = disk[held[v][k]]
        BY <3>1, <2>4, <2>5, <2>6, <2>8
      <4> QED  BY <4>1, <3>1, <2>8 DEF IInv, Own
    <3>2. CASE held'[v][k] # held[v][k]
      <4>1. /\ disk' = [disk EXCEPT ![p] = [owner |-> w, kind |-> kind[w], complete |-> TRUE]]
            /\ held' = [held EXCEPT ![w][kind[w]] = p]
        BY <3>2 DEF Write
      <4>2. v = w /\ k = kind[w] /\ held'[v][k] = p
        BY <3>2, <4>1, <2>1 DEF IInv, TypeOK
      <4>3. disk'[p] = [owner |-> w, kind |-> kind[w], complete |-> TRUE]
        BY <4>1, <2>1 DEF IInv, TypeOK
      <4> QED  BY <4>2, <4>3
    <3> QED  BY <3>1, <3>2
  <2> QED  BY <2>7, <2>8 DEF Own
<1>3. InTurn'
  BY ConstantsAssumption DEF IInv, InTurn, Writing, TypeOK, Kind, Secret, NothingHeld, Write, Goto, Advance, NextAfter
<1>4. NoStrayFiles'
  <2> DEFINE p == opened[w]
  <2>1. p \in Path /\ kind[w] \in Kind /\ held[w][kind[w]] = None
    BY DEF IInv, TypeOK, Write, InTurn, Writing
  <2>2. \A q \in Path : q # p => disk'[q] = disk[q]
    BY <2>1 DEF IInv, TypeOK, Write
  <2>3. \A v \in Worker : v # w => opened'[v] = opened[v]
    BY DEF IInv, TypeOK, Write
  <2>4. \A v \in Worker, k \in Kind : held[v][k] # None => held'[v][k] = held[v][k]
    BY <2>1 DEF IInv, TypeOK, Write
  <2>5. \A q \in Path : q # p /\ Attended(q) => Attended(q)'
    BY <2>3, <2>4, ConstantsAssumption DEF Attended
  <2>6. p \in leaked' \/ held'[w][kind[w]] = p
    BY <2>1 DEF IInv, TypeOK, Write
  <2>7. leaked \subseteq leaked'
    BY DEF Write
  <2> QED
    BY <2>1, <2>2, <2>5, <2>6, <2>7 DEF IInv, NoStrayFiles, Attended
<1> QED  BY <1>1, <1>2, <1>3, <1>4 DEF IInv

LEMMA NewRegistryClientStep ==
  ASSUME NEW w \in Worker, IInv, NewRegistryClient(w)
  PROVE  IInv'
<1>1. TypeOK'
  BY ConstantsAssumption DEF IInv, TypeOK, Kind, Secret, Step, File, NothingHeld, NewRegistryClient, Goto
<1>2. Own'
  BY ConstantsAssumption DEF IInv, Own, TypeOK, Kind, Secret, NewRegistryClient, Goto
<1>3. InTurn'
  BY ConstantsAssumption DEF IInv, InTurn, Writing, TypeOK, Kind, Secret, NothingHeld, NewRegistryClient, Goto
<1>4. NoStrayFiles'
  BY ConstantsAssumption DEF IInv, NoStrayFiles, Attended, Own, TypeOK, Kind, Secret, InTurn, Writing, NewRegistryClient, Goto
<1> QED  BY <1>1, <1>2, <1>3, <1>4 DEF IInv

LEMMA LocateChartStep ==
  ASSUME NEW w \in Worker, IInv, LocateChart(w)
  PROVE  IInv'
<1>1. TypeOK'
  BY ConstantsAssumption DEF IInv, TypeOK, Kind, Secret, Step, File, NothingHeld, LocateChart, Goto
<1>2. Own'
  BY ConstantsAssumption DEF IInv, Own, TypeOK, Kind, Secret, LocateChart, Goto
<1>3. InTurn'
  BY ConstantsAssumption DEF IInv, InTurn, Writing, TypeOK, Kind, Secret, NothingHeld, LocateChart, Goto
<1>4. NoStrayFiles'
  BY ConstantsAssumption DEF IInv, NoStrayFiles, Attended, Own, TypeOK, Kind, Secret, InTurn, Writing, LocateChart, Goto
<1> QED  BY <1>1, <1>2, <1>3, <1>4 DEF IInv

LEMMA RunStep ==
  ASSUME NEW w \in Worker, IInv, Run(w)
  PROVE  IInv'
<1>1. TypeOK'
  BY ConstantsAssumption DEF IInv, TypeOK, Kind, Secret, Step, File, NothingHeld, Run, Goto
<1>2. Own'
  BY ConstantsAssumption DEF IInv, Own, TypeOK, Kind, Secret, Run, Goto
<1>3. InTurn'
  BY ConstantsAssumption DEF IInv, InTurn, Writing, TypeOK, Kind, Secret, NothingHeld, Run, Goto
<1>4. NoStrayFiles'
  BY ConstantsAssumption DEF IInv, NoStrayFiles, Attended, Own, TypeOK, Kind, Secret, InTurn, Writing, Run, Goto
<1> QED  BY <1>1, <1>2, <1>3, <1>4 DEF IInv

LEMMA RemoveStep ==
  ASSUME NEW w \in Worker, NEW k \in Kind, IInv, Remove(w, k)
  PROVE  IInv'
<1>1. TypeOK'
  <2>1. held[w][k] \in Path
    BY DEF IInv, TypeOK, Remove
  <2>2. disk' \in [Path -> File \union {None}] /\ leaked' \subseteq Path
    BY <2>1 DEF IInv, TypeOK, Remove
  <2>3. held' \in [Worker -> [Kind -> Path \union {None}]]
    BY DEF IInv, TypeOK, Remove
  <2>4. \A v \in Worker : step[v] = "idle" => held'[v] = held[v]
    BY DEF IInv, TypeOK, Remove
  <2> QED
    BY <2>2, <2>3, <2>4 DEF IInv, TypeOK, Remove
<1>2. Own'
  <2> DEFINE p == held[w][k]
  <2>1. p \in Path
    BY DEF IInv, TypeOK, Remove
  <2>2. \A v \in Worker, j \in Kind :
          held'[v][j] = IF v = w /\ j = k THEN None ELSE held[v][j]
    BY DEF IInv, TypeOK, Remove
  <2>3. \A q \in Path : q # p => disk'[q] = disk[q]
    BY <2>1 DEF IInv, TypeOK, Remove
  <2>4. \A v \in Worker : /\ opened[v] # p
                           /\ \A j \in Kind : held[v][j] = p => v = w /\ j = k
    BY <2>1, NotShared DEF IInv
  <2>5. \A v \in Worker : /\ opened[v] \in Path \union {None}
                           /\ \A j \in Kind : held[v][j] \in Path \union {None}
    BY DEF IInv, TypeOK
  <2>6. opened' = opened /\ kind' = kind
    BY DEF Remove
  <2> QED
    BY <2>2, <2>3, <2>4, <2>5, <2>6 DEF IInv, Own
<1>3. InTurn'
  BY ConstantsAssumption DEF IInv, InTurn, Writing, TypeOK, Kind, Secret, NothingHeld, Remove, Last
<1>4. NoStrayFiles'
  <2> DEFINE p == held[w][k]
  <2>1. p \in Path
    BY DEF IInv, TypeOK, Remove
  <2>2. \A v \in Worker, j \in Kind : held[v][j] # p => held'[v][j] = held[v][j]
    BY DEF IInv, TypeOK, Remove
  <2>3. \A q \in Path : q # p => disk'[q] = disk[q]
    BY <2>1 DEF IInv, TypeOK, Remove
  <2>4. \A q \in Path : q # p /\ Attended(q) => Attended(q)'
    BY <2>2 DEF Attended, Remove
  <2>5. disk'[p] = None \/ p \in leaked'
    BY <2>1 DEF IInv, TypeOK, Remove
  <2>6. leaked \subseteq leaked'
    BY DEF Remove
  <2> QED
    BY <2>3, <2>4, <2>5, <2>6 DEF IInv, NoStrayFiles
<1> QED  BY <1>1, <1>2, <1>3, <1>4 DEF IInv

LEMMA ReturnStep ==
  ASSUME NEW w \in Worker, IInv, Return(w)
  PROVE  IInv'
<1>1. TypeOK'
  BY ConstantsAssumption DEF IInv, TypeOK, Kind, Secret, Step, File, NothingHeld, Return, Goto
<1>2. Own'
  BY ConstantsAssumption DEF IInv, Own, TypeOK, Kind, Secret, Return, Goto
<1>3. InTurn'
  BY ConstantsAssumption DEF IInv, InTurn, Writing, TypeOK, Kind, Secret, NothingHeld, Return, Goto
<1>4. NoStrayFiles'
  BY ConstantsAssumption DEF IInv, NoStrayFiles, Attended, Own, TypeOK, Kind, Secret, InTurn, Writing, Return, Goto
<1> QED  BY <1>1, <1>2, <1>3, <1>4 DEF IInv

LEMMA CrashStep ==
  ASSUME IInv, Crash
  PROVE  IInv'
<1>1. TypeOK'
  BY ConstantsAssumption DEF IInv, TypeOK, Kind, Secret, Step, File, NothingHeld, Crash
<1>2. Own'
  BY DEF Own, Crash, NothingHeld
<1>3. InTurn'
  BY ConstantsAssumption DEF IInv, InTurn, Writing, TypeOK, Kind, Secret, NothingHeld, Crash
<1>4. NoStrayFiles'
  BY ConstantsAssumption DEF IInv, NoStrayFiles, Attended, Own, TypeOK, Kind, Secret, InTurn, Writing, Crash
<1> QED  BY <1>1, <1>2, <1>3, <1>4 DEF IInv

-----------------------------------------------------------------------------
LEMMA NextIInv == IInv /\ [Next]_vars => IInv'
<1> SUFFICES ASSUME IInv, [Next]_vars PROVE IInv'
  OBVIOUS
<1>1. ASSUME NEW w \in Worker, WorkerStep(w) PROVE IInv'
  BY <1>1, ReconcileStep, GetSecretStep, CreateTempStep, WriteStep, NewRegistryClientStep,
     LocateChartStep, RunStep, RemoveStep, ReturnStep DEF WorkerStep
<1>2. CASE Crash
  BY <1>2, CrashStep
<1>3. CASE UNCHANGED vars
  BY <1>3 DEF vars, IInv, TypeOK, Own, InTurn, Writing, NoStrayFiles, Attended
<1> QED  BY <1>1, <1>2, <1>3 DEF Next

\* The strengthened invariant holds at every step of every run.
THEOREM Invariance == Spec => []IInv
  BY InitIInv, NextIInv, PTL DEF Spec

\* For any number of workers, on every path a reconcile may take, whichever calls
\* fail: only a failed write, a failed removal or a stop of the process leaves a
\* file behind.
THEOREM FilesAreRemoved == Spec => []NoStrayFiles
<1>1. IInv => NoStrayFiles
  BY DEF IInv
<1> QED  BY <1>1, Invariance, PTL

LEMMA IInvUse == IInv => FilesWhileUsed
<1> SUFFICES ASSUME IInv, NEW w \in Worker, NEW k \in Kind, InUse(w, k)
             PROVE  /\ held[w][k] \in Path
                    /\ disk[held[w][k]] = [owner |-> w, kind |-> k, complete |-> TRUE]
  BY DEF FilesWhileUsed
<1>1. held[w][k] # None
  BY DEF IInv, InTurn, InUse
<1>2. held[w][k] \in Path \union {None}
  BY DEF IInv, TypeOK
<1> QED  BY <1>1, <1>2 DEF IInv, Own

\* For any number of workers, a file is there, whole and the worker's own while
\* Helm reads it.
THEOREM FilesStayWhileUsed == Spec => []FilesWhileUsed
  BY IInvUse, Invariance, PTL

\* Every variable keeps its type; a worker that is idle has nothing in its hands, and one
\* that writes a file has opened it.
THEOREM TypeCorrect == Spec => []TypeOK
<1>1. IInv => TypeOK
  BY DEF IInv
<1> QED  BY <1>1, Invariance, PTL
=============================================================================
