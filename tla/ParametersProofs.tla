-------------------------- MODULE ParametersProofs --------------------------
(***************************************************************************)
(* Proofs about the parameter store (Parameters): type correctness, that   *)
(* an export writes what the parameters are, and that no change is lost at *)
(* rest without a recorded cause.                                          *)
(***************************************************************************)
EXTENDS Parameters, TLAPS

\* A step of one thread, whatever it is doing.
Step(t) ==
    \/ \E p \in Params, v \in Values : ParamSet(t, p, v) \/ ParamSetDefaultValue(t, p, v)
    \/ \E p \in Params : ParamReset(t, p)
    \/ \E b \in BOOLEAN : Enable(t, b)
    \/ ParamResetAll(t) \/ ParamSave(t) \/ ParamLoad(t)
    \/ ParamInit(t) \/ NoCard(t)
    \/ Store(t) \/ Mark(t) \/ ResetNext(t) \/ ResetDone(t)
    \/ Request(t) \/ Schedule(t) \/ Queue(t)
    \/ Lock(t) \/ Open(t) \/ NoDefaultFile(t) \/ ExportNext(t) \/ Finish(t) \/ Fail(t)
    \/ Saved(t) \/ LoadMissing(t) \/ LoadOpen(t) \/ Import(t) \/ ImportAgain(t) \/ ImportDone(t)
    \/ t = Worker /\ (Run \/ Retry \/ WouldBlock)

\* Every step is a crash or the step of one thread.
LEMMA NextCases ==
    ASSUME Next
    PROVE  Crash \/ \E t \in Threads : Step(t) /\ Noted(t)
<1>1. CASE Crash
  BY <1>1
<1>2. ASSUME NEW t \in Clients, Progress(t) \/ Call(t) \/ Fail(t) \/ ImportAgain(t), Noted(t)
      PROVE  \E u \in Threads : Step(u) /\ Noted(u)
  <2>1. Step(t)
    BY <1>2 DEF Progress, Call, Step
  <2> QED BY <2>1, <1>2 DEF Threads
<1>3. ASSUME Work \/ Fail(Worker), Noted(Worker)
      PROVE  \E u \in Threads : Step(u) /\ Noted(u)
  <2>1. Step(Worker)
    BY <1>3 DEF Progress, Work, Step
  <2> QED BY <2>1, <1>3 DEF Threads
<1> QED BY <1>1, <1>2, <1>3 DEF Next

\* A step of t changes nothing of another thread.
LEMMA Frame ==
    ASSUME TypeOK, NEW t \in Threads, Step(t), NEW u \in Threads, u # t
    PROVE  pc'[u] = pc[u] /\ arg'[u] = arg[u] /\ at'[u] = at[u] /\ attempt'[u] = attempt[u]
<1> DEFINE Same == pc'[u] = pc[u] /\ arg'[u] = arg[u] /\ at'[u] = at[u] /\ attempt'[u] = attempt[u]
<1> SUFFICES Same
  OBVIOUS
<1> USE DEF TypeOK, Go, Begin, threads, autosave, storage, layers, bounds
<1>1. ASSUME NEW p \in Params, NEW v \in Values, ParamSet(t, p, v) \/ ParamSetDefaultValue(t, p, v)
      PROVE  Same
  BY <1>1 DEF ParamSet, ParamSetDefaultValue
<1>2. ASSUME NEW p \in Params, ParamReset(t, p)
      PROVE  Same
  BY <1>2 DEF ParamReset
<1>3. ASSUME NEW b \in BOOLEAN, Enable(t, b)
      PROVE  Same
  BY <1>3 DEF Enable
<1>4. CASE ParamResetAll(t) \/ ParamSave(t) \/ ParamLoad(t)
  BY <1>4 DEF ParamResetAll, ParamSave, ParamLoad
<1>5. CASE Store(t) \/ Mark(t) \/ ResetNext(t) \/ ResetDone(t)
  BY <1>5 DEF Store, Mark, ResetNext, ResetDone
<1>6. CASE Request(t) \/ Schedule(t) \/ Queue(t)
  BY <1>6 DEF Request, Schedule, Queue
<1>7. CASE Lock(t) \/ Open(t) \/ ExportNext(t)
  BY <1>7 DEF Lock, Open, ExportNext
<1>8. CASE Finish(t) \/ Fail(t) \/ Saved(t)
  BY <1>8 DEF Finish, Fail, Saved
<1>9. CASE LoadMissing(t) \/ LoadOpen(t) \/ Import(t)
  BY <1>9 DEF LoadMissing, LoadOpen, Import
<1>10. CASE ImportAgain(t) \/ ImportDone(t)
  BY <1>10 DEF ImportAgain, ImportDone
<1>11. CASE t = Worker /\ (Run \/ Retry \/ WouldBlock)
  BY <1>11 DEF Run, Retry, WouldBlock
<1>15. CASE ParamInit(t) \/ NoCard(t) \/ NoDefaultFile(t)
  BY <1>15 DEF ParamInit, NoCard, NoDefaultFile
<1> HIDE DEF Same, TypeOK
<1>12. (\E p \in Params, v \in Values : ParamSet(t, p, v) \/ ParamSetDefaultValue(t, p, v)) => Same
  BY <1>1
<1>13. (\E p \in Params : ParamReset(t, p)) => Same
  BY <1>2
<1>14. (\E b \in BOOLEAN : Enable(t, b)) => Same
  BY <1>3
<1> QED BY <1>4, <1>5, <1>6, <1>7, <1>8, <1>9, <1>10, <1>11, <1>12, <1>13, <1>14, <1>15, Zenon
        DEF Step

-----------------------------------------------------------------------------
(* Type correctness                                                        *)

\* The bounds are numbers, and the first turn of each loop is within its bound.
LEMMA Numbers ==
    /\ N \in Nat /\ MaxAttempts \in Nat /\ MaxRetries \in Nat
    /\ 1 \in 1..N + 1 /\ 1 \in 1..MaxAttempts /\ 0 \in 0..MaxRetries
    /\ Default \in Values /\ Unset \notin Values
<1>1. MaxRetries \in Nat
  <2>1. MaxRetries \in {MaxRetries, MaxOps, MaxFailures, MaxCrashes}
    OBVIOUS
  <2> QED BY <2>1, ParametersAssumption
<1> QED BY <1>1, ParametersAssumption

\* A store or a mark under way has a parameter to change.
ArgOK == \A t \in Threads : pc[t] \in {"store", "mark"} => arg[t].param \in Params

\* Values of a parameter in a layer, or in the file.
Entry == Values \cup {Unset}

\* Where a thread can be.
Place == {"mount", "boot", "idle", "store", "mark", "request", "schedule", "queue",
          "lock", "open", "export", "saved", "failed", "load", "reset all", "reset", "import"}

\* The argument of a call.
Argument == [param : 0..N, val : Values, changed : BOOLEAN]

\* The types of the memory and the file.
StoreTyped ==
    /\ user \in [Params -> Entry]
    /\ runtime \in [Params -> Entry]
    /\ unsaved \in [Params -> BOOLEAN]
    /\ file \in [state : {"missing", "torn", "whole"}, data : [Params -> Entry]]

\* The types of the locks, the autosave and the recorded causes.
ControlTyped ==
    /\ fileMutex \in Threads \cup {Nobody}
    /\ mask \subseteq Params
    /\ {initialized, scheduled, disabled, queued} \subseteq BOOLEAN
    /\ retries \in 0..MaxRetries
    /\ why \subseteq {"stale test", "default value", "no card", "no autosave", "disabled",
                      "gave up", "save failed", "load"}

\* The types of the threads' own variables.
ThreadsTyped ==
    /\ pc \in [Threads -> Place]
    /\ arg \in [Threads -> Argument]
    /\ at \in [Threads -> 1..N + 1]
    /\ attempt \in [Threads -> 1..MaxAttempts]

\* TypeOK in parts.
LEMMA TypeParts ==
    TypeOK <=> StoreTyped /\ ControlTyped /\ ThreadsTyped
               /\ touched \subseteq Params /\ disturbed \subseteq Threads
BY DEF TypeOK, StoreTyped, ControlTyped, ThreadsTyped, Entry, Place, Argument

\* TypeOK in parts, of the next state.
LEMMA TypePartsNext ==
    TypeOK' <=> StoreTyped' /\ ControlTyped' /\ ThreadsTyped'
                /\ touched' \subseteq Params /\ disturbed' \subseteq Threads
BY DEF TypeOK, StoreTyped, ControlTyped, ThreadsTyped, Entry, Place, Argument

\* The next turn of a loop is within its bound, and so is an entry found from there on.
LEMMA NextTurn ==
    ASSUME NEW m \in Nat
    PROVE  /\ \A k \in 1..m + 1 : k <= m => k + 1 \in 1..m + 1
           /\ \A k \in 1..m : k < m => k + 1 \in 1..m
           /\ \A k \in 0..m : k < m => k + 1 \in 0..m
           /\ \A k \in 1..m + 1 : \A j \in k..m : j \in 1..m /\ j + 1 \in 1..m + 1
           /\ \A k \in 1..m : k \in 0..m
OBVIOUS

LEMMA InitTypeOK ==
    ASSUME Init
    PROVE  TypeOK /\ ArgOK
<1>1. StoreTyped
  BY ParametersAssumption, Numbers DEF Init, StoreTyped, Blank, Entry
<1>2. ControlTyped
  BY ParametersAssumption, Numbers DEF Init, ControlTyped
<1>3. ThreadsTyped /\ ArgOK
  BY ParametersAssumption, Numbers DEF Init, ThreadsTyped, ArgOK, BootPC, NoArg, Place, Argument
<1> QED BY <1>1, <1>2, <1>3, TypeParts DEF Init

LEMMA CrashTypeOK ==
    ASSUME TypeOK, Crash
    PROVE  TypeOK' /\ ArgOK'
<1>1. StoreTyped'
  BY ParametersAssumption, Numbers, TypeParts DEF Crash, StoreTyped, Blank, Entry
<1>2. ControlTyped'
  BY ParametersAssumption, Numbers, TypeParts DEF Crash, ControlTyped
<1>3. ThreadsTyped' /\ ArgOK'
  BY ParametersAssumption, Numbers DEF Crash, ThreadsTyped, ArgOK, BootPC, NoArg, Place, Argument
<1> QED BY <1>1, <1>2, <1>3, TypePartsNext DEF Crash

\* What every step of a thread keeps of its types.
Typed == StoreTyped /\ ControlTyped /\ ThreadsTyped

\* The calls for one parameter.
LEMMA CallTyped ==
    ASSUME Typed, ArgOK, NEW t \in Threads, NEW p \in Params, NEW v \in Values,
           ParamSet(t, p, v) \/ ParamSetDefaultValue(t, p, v) \/ ParamReset(t, p)
    PROVE  Typed' /\ ArgOK'
<1> USE Numbers
    DEF Typed, StoreTyped, ControlTyped, ThreadsTyped, ArgOK, Go, Begin,
        threads, autosave, storage, layers, bounds, Place
<1>1. CASE ParamSet(t, p, v)
  <2> DEFINE a == [param |-> p, val |-> v, changed |-> Get(p) # v]
  <2>1. a \in Argument /\ a.param \in Params
    <3>1. p \in 0..N
      <4>1. p \in 1..N
        BY DEF Params
      <4> QED BY <4>1, Numbers, NextTurn, Zenon
    <3>2. (Get(p) # v) \in BOOLEAN
      OBVIOUS
    <3> QED BY <3>1, <3>2, Zenon DEF Argument
  <2>2. arg' = [arg EXCEPT ![t] = a]
    BY <1>1 DEF ParamSet
  <2> HIDE DEF a
  <2>3. arg' \in [Threads -> Argument]
    BY <2>1, <2>2
  <2>6. ArgOK'
    BY <2>1, <2>2, <1>1 DEF ParamSet
  <2>4. ThreadsTyped'
    BY <2>3, <1>1 DEF ParamSet
  <2>5. StoreTyped' /\ ControlTyped'
    BY <1>1 DEF ParamSet
  <2> QED BY <2>3, <2>4, <2>5, <2>6
<1>2. CASE ParamSetDefaultValue(t, p, v)
  BY <1>2 DEF ParamSetDefaultValue, Entry
<1>3. CASE ParamReset(t, p)
  BY <1>3 DEF ParamReset, Entry
<1> QED BY <1>1, <1>2, <1>3

\* The calls for all of them.
LEMMA EnableTyped ==
    ASSUME Typed, ArgOK, NEW t \in Threads, NEW b \in BOOLEAN,
           Enable(t, b) \/ ParamResetAll(t) \/ ParamSave(t) \/ ParamLoad(t)
    PROVE  Typed' /\ ArgOK'
<1> USE Numbers
    DEF Typed, StoreTyped, ControlTyped, ThreadsTyped, ArgOK, Go, Begin,
        threads, autosave, storage, layers, bounds, Place
<1>1. CASE Enable(t, b)
  BY <1>1 DEF Enable
<1>2. CASE ParamResetAll(t)
  BY <1>2 DEF ParamResetAll
<1>3. CASE ParamSave(t) \/ ParamLoad(t)
  BY <1>3 DEF ParamSave, ParamLoad
<1> QED BY <1>1, <1>2, <1>3

\* Changing parameters, and the autosave.
LEMMA ChangeTyped ==
    ASSUME Typed, ArgOK, NEW t \in Threads,
           \/ ParamInit(t) \/ NoCard(t)
           \/ Store(t) \/ Mark(t) \/ ResetNext(t) \/ ResetDone(t)
           \/ Request(t) \/ Schedule(t) \/ Queue(t)
           \/ t = Worker /\ (Run \/ Retry \/ WouldBlock)
    PROVE  Typed' /\ ArgOK'
<1> USE Numbers
    DEF Typed, StoreTyped, ControlTyped, ThreadsTyped, ArgOK, Go, Begin,
        threads, autosave, storage, layers, bounds, Place
<1>1. CASE Store(t)
  <2>1. arg[t].val \in Entry
    BY DEF Argument, Entry
  <2> QED BY <1>1, <2>1 DEF Store
<1>2. CASE Mark(t)
  <2>1. arg[t].changed \in BOOLEAN
    BY DEF Argument
  <2> QED BY <1>2, <2>1 DEF Mark
<1>3. CASE ResetNext(t)
  <2>1. at[t] \in 1..N + 1 /\ at[t] <= N
    BY <1>3 DEF ResetNext
  <2>2. at[t] + 1 \in 1..N + 1
    BY <2>1, NextTurn, Numbers, Zenon
  <2>3. at' = [at EXCEPT ![t] = at[t] + 1]
    BY <1>3 DEF ResetNext
  <2>4. at' \in [Threads -> 1..N + 1]
    BY <2>2, <2>3
  <2>5. user' \in [Params -> Entry]
    BY <1>3 DEF ResetNext, Entry
  <2> QED BY <1>3, <2>4, <2>5 DEF ResetNext
<1>4. CASE ResetDone(t)
  BY <1>4 DEF ResetDone
<1>5. CASE Request(t)
  BY <1>5 DEF Request
<1>6. CASE Schedule(t)
  BY <1>6 DEF Schedule
<1>7. CASE Queue(t)
  BY <1>7 DEF Queue
<1>8. CASE t = Worker /\ Run
  BY <1>8 DEF Run
<1>9. CASE t = Worker /\ Retry
  <2>1. retries' \in 0..MaxRetries
    <3>1. retries \in 0..MaxRetries
      OBVIOUS
    <3>2. CASE retries < MaxRetries
      <4>1. retries + 1 \in 0..MaxRetries
        BY <3>1, <3>2, NextTurn, Numbers, Zenon
      <4> QED BY <4>1, <3>2, <1>9 DEF Retry
    <3>3. CASE ~(retries < MaxRetries)
      BY <3>3, <1>9 DEF Retry
    <3> QED BY <3>2, <3>3
  <2> QED BY <1>9, <2>1 DEF Retry
<1>10. CASE t = Worker /\ WouldBlock
  BY <1>10 DEF WouldBlock
<1>11. CASE ParamInit(t) \/ NoCard(t)
  BY <1>11 DEF ParamInit, NoCard
<1> QED BY <1>1, <1>2, <1>3, <1>4, <1>5, <1>6, <1>7, <1>8, <1>9, <1>10, <1>11

\* Saving.
LEMMA SaveTyped ==
    ASSUME Typed, ArgOK, NEW t \in Threads,
           \/ Lock(t) \/ Open(t) \/ NoDefaultFile(t) \/ ExportNext(t) \/ Finish(t) \/ Fail(t)
           \/ Saved(t)
    PROVE  Typed' /\ ArgOK'
<1> USE Numbers
    DEF Typed, StoreTyped, ControlTyped, ThreadsTyped, ArgOK, Go, Begin,
        threads, autosave, storage, layers, bounds, Place
<1>1. CASE Lock(t)
  BY <1>1 DEF Lock
<1>2. CASE Open(t)
  BY <1>2 DEF Open, Blank, Entry, Params
<1>3. CASE ExportNext(t)
  <2>1. StoreTyped' /\ ControlTyped'
    BY <1>3 DEF ExportNext, Exported, Entry
  <2>2. ThreadsTyped' /\ ArgOK'
    <3>1. at[t] \in 1..N + 1 /\ at[t] <= N
      BY <1>3 DEF ExportNext
    <3>2. at[t] + 1 \in 1..N + 1
      BY <3>1, NextTurn, Numbers, Zenon
    <3>3. at' = [at EXCEPT ![t] = at[t] + 1]
      BY <1>3 DEF ExportNext
    <3>4. at' \in [Threads -> 1..N + 1]
      BY <3>2, <3>3
    <3> QED BY <3>4, <1>3 DEF ExportNext
  <2> QED BY <2>1, <2>2
<1>4. CASE Finish(t)
  BY <1>4 DEF Finish
<1>5. CASE Fail(t)
  <2>1. StoreTyped' /\ ControlTyped'
    BY <1>5 DEF Fail
  <2>2. attempt' \in [Threads -> 1..MaxAttempts]
    <3>1. CASE attempt[t] < MaxAttempts
      <4>1. attempt[t] + 1 \in 1..MaxAttempts
        BY <3>1, NextTurn, Numbers, Zenon
      <4>2. attempt' = [attempt EXCEPT ![t] = attempt[t] + 1]
        BY <3>1, <1>5 DEF Fail
      <4> QED BY <4>1, <4>2
    <3>2. CASE ~(attempt[t] < MaxAttempts)
      BY <3>2, <1>5 DEF Fail
    <3> QED BY <3>1, <3>2
  <2>3. pc' \in [Threads -> Place]
    BY <1>5 DEF Fail
  <2>4. ArgOK' /\ arg' \in [Threads -> Argument] /\ at' \in [Threads -> 1..N + 1]
    BY <1>5 DEF Fail
  <2> QED BY <2>1, <2>2, <2>3, <2>4
<1>6. CASE Saved(t)
  BY <1>6 DEF Saved
<1>7. CASE NoDefaultFile(t)
  BY <1>7 DEF NoDefaultFile
<1> QED BY <1>1, <1>2, <1>3, <1>4, <1>5, <1>6, <1>7

\* Loading.
LEMMA LoadTyped ==
    ASSUME Typed, ArgOK, NEW t \in Threads,
           \/ LoadMissing(t) \/ LoadOpen(t) \/ Import(t) \/ ImportAgain(t) \/ ImportDone(t)
    PROVE  Typed' /\ ArgOK'
<1> USE Numbers
    DEF Typed, StoreTyped, ControlTyped, ThreadsTyped, ArgOK, Go, Begin,
        threads, autosave, storage, layers, bounds, Place
<1>1. CASE LoadMissing(t)
  BY <1>1 DEF LoadMissing
<1>2. CASE LoadOpen(t)
  BY <1>2 DEF LoadOpen
<1>3. CASE Import(t)
  <2>1. PICK p \in at[t]..N :
            /\ user' = [user EXCEPT ![p] = file.data[p]]
            /\ unsaved' = [unsaved EXCEPT ![p] = FALSE]
            /\ at' = [at EXCEPT ![t] = p + 1]
    BY <1>3 DEF Import
  <2>2. p \in Params /\ p + 1 \in 1..N + 1
    <3>1. at[t] \in 1..N + 1
      OBVIOUS
    <3> QED BY <3>1, <2>1, NextTurn, Numbers, Zenon DEF Params
  <2>3. StoreTyped' /\ ControlTyped'
    BY <2>1, <2>2, <1>3 DEF Import
  <2>4. ThreadsTyped' /\ ArgOK'
    BY <2>1, <2>2, <1>3 DEF Import
  <2> QED BY <2>3, <2>4
<1>4. CASE ImportAgain(t)
  <2>1. attempt[t] \in 1..MaxAttempts /\ attempt[t] < MaxAttempts
    BY <1>4 DEF ImportAgain
  <2>2. attempt[t] + 1 \in 1..MaxAttempts
    BY <2>1, NextTurn, Numbers, Zenon
  <2>3. attempt' = [attempt EXCEPT ![t] = attempt[t] + 1]
    BY <1>4 DEF ImportAgain
  <2>4. attempt' \in [Threads -> 1..MaxAttempts]
    BY <2>2, <2>3
  <2> QED BY <1>4, <2>4 DEF ImportAgain
<1>5. CASE ImportDone(t)
  BY <1>5 DEF ImportDone
<1> QED BY <1>1, <1>2, <1>3, <1>4, <1>5

\* Every step of a thread keeps the types.
LEMMA StepTypeOK ==
    ASSUME TypeOK, ArgOK, NEW t \in Threads, Step(t), Noted(t)
    PROVE  TypeOK' /\ ArgOK'
<1>1. Typed
  BY TypeParts DEF Typed
<1>2. touched' \subseteq Params /\ disturbed' \subseteq Threads
  BY TypeParts DEF Noted, Changed
<1>3. TRUE \in BOOLEAN /\ Default \in Values
  BY ParametersAssumption
<1>4. Typed' /\ ArgOK'
  <2>1. ASSUME NEW p \in Params, NEW v \in Values, ParamSet(t, p, v) \/ ParamSetDefaultValue(t, p, v)
        PROVE  Typed' /\ ArgOK'
    BY <2>1, <1>1, <1>3, CallTyped
  <2>2. ASSUME NEW p \in Params, ParamReset(t, p)
        PROVE  Typed' /\ ArgOK'
    BY <2>2, <1>1, <1>3, CallTyped
  <2>3. ASSUME NEW b \in BOOLEAN, Enable(t, b)
        PROVE  Typed' /\ ArgOK'
    BY <2>3, <1>1, <1>3, EnableTyped
  <2>4. CASE ParamResetAll(t) \/ ParamSave(t) \/ ParamLoad(t)
    BY <2>4, <1>1, EnableTyped
  <2> HIDE DEF Typed
  <2>5. (\E p \in Params, v \in Values : ParamSet(t, p, v) \/ ParamSetDefaultValue(t, p, v))
            => Typed' /\ ArgOK'
    BY <2>1
  <2>6. (\E p \in Params : ParamReset(t, p)) => Typed' /\ ArgOK'
    BY <2>2
  <2>7. (\E b \in BOOLEAN : Enable(t, b)) => Typed' /\ ArgOK'
    BY <2>3
  <2> QED BY <1>1, <2>4, <2>5, <2>6, <2>7, ChangeTyped, SaveTyped, LoadTyped, Zenon DEF Step
<1> QED BY <1>2, <1>4, TypePartsNext DEF Typed
-----------------------------------------------------------------------------
(* The file and the exports                                                *)

\* Where a thread holds the file mutex.
Saving == {"open", "export", "saved"}

\* The file mutex is held by the one thread that saves; the file is torn until
\* the export ends.
LockOK ==
    /\ \A t \in Threads : pc[t] \in Saving <=> fileMutex = t
    /\ \A t \in Threads : pc[t] = "export" => file.state = "torn"
    /\ \A t \in Threads : pc[t] = "saved" => file.state = "whole" /\ at[t] = N + 1

\* A step that has nothing to do with saving.
Elsewhere(t) == UNCHANGED <<file, fileMutex, mask>> /\ pc[t] \notin Saving /\ pc'[t] \notin Saving

\* An attempt to save fails.
GivesUp(t) == Fail(t) \/ NoDefaultFile(t)

\* The steps of a save, and all others.
LEMMA SavesOrElsewhere ==
    ASSUME TypeOK, NEW t \in Threads, Step(t)
    PROVE  \/ Lock(t) \/ Open(t) \/ ExportNext(t) \/ Finish(t) \/ GivesUp(t) \/ Saved(t)
           \/ Elsewhere(t)
<1> DEFINE Goal == \/ Lock(t) \/ Open(t) \/ ExportNext(t) \/ Finish(t) \/ GivesUp(t) \/ Saved(t)
                   \/ Elsewhere(t)
<1> SUFFICES Goal
  OBVIOUS
<1>p. pc \in [Threads -> Place]
  BY TypeParts DEF ThreadsTyped
<1> HIDE DEF Goal
<1>1. Elsewhere(t) => Goal
  BY DEF Goal
<1>2. Lock(t) \/ Open(t) \/ NoDefaultFile(t) \/ ExportNext(t) \/ Finish(t) \/ Fail(t) \/ Saved(t) => Goal
  BY DEF Goal, GivesUp
<1> USE <1>p DEF Elsewhere, Saving, Go, Begin, storage
<1>3. ASSUME NEW p \in Params, NEW v \in Values, ParamSet(t, p, v) \/ ParamSetDefaultValue(t, p, v)
      PROVE  Goal
  BY <1>1, <1>3 DEF ParamSet, ParamSetDefaultValue
<1>4. ASSUME NEW p \in Params, ParamReset(t, p)
      PROVE  Goal
  BY <1>1, <1>4 DEF ParamReset
<1>5. ASSUME NEW b \in BOOLEAN, Enable(t, b)
      PROVE  Goal
  BY <1>1, <1>5 DEF Enable
<1>6. CASE ParamResetAll(t) \/ ParamSave(t) \/ ParamLoad(t)
  BY <1>1, <1>6 DEF ParamResetAll, ParamSave, ParamLoad
<1>7. CASE Store(t) \/ Mark(t)
  BY <1>1, <1>7 DEF Store, Mark
<1>8. CASE ResetNext(t) \/ ResetDone(t)
  BY <1>1, <1>8 DEF ResetNext, ResetDone
<1>9. CASE Request(t) \/ Schedule(t) \/ Queue(t)
  BY <1>1, <1>9 DEF Request, Schedule, Queue
<1>10. CASE LoadMissing(t) \/ LoadOpen(t) \/ Import(t)
  BY <1>1, <1>10 DEF LoadMissing, LoadOpen, Import
<1>11. CASE ImportAgain(t) \/ ImportDone(t)
  BY <1>1, <1>11 DEF ImportAgain, ImportDone
<1>12. CASE t = Worker /\ (Run \/ Retry \/ WouldBlock)
  BY <1>1, <1>12 DEF Run, Retry, WouldBlock
<1>16. CASE ParamInit(t) \/ NoCard(t)
  BY <1>1, <1>16 DEF ParamInit, NoCard
<1> HIDE DEF Elsewhere, Saving, Go, Begin, storage
<1>13. (\E p \in Params, v \in Values : ParamSet(t, p, v) \/ ParamSetDefaultValue(t, p, v)) => Goal
  BY <1>3
<1>14. (\E p \in Params : ParamReset(t, p)) => Goal
  BY <1>4
<1>15. (\E b \in BOOLEAN : Enable(t, b)) => Goal
  BY <1>5
<1> QED BY <1>2, <1>6, <1>7, <1>8, <1>9, <1>10, <1>11, <1>12, <1>13, <1>14, <1>15, <1>16, Zenon
        DEF Step

\* A step keeps the mutex with the thread that saves.
LEMMA StepLockOK ==
    ASSUME TypeOK, LockOK, NEW t \in Threads, Step(t), TypeOK'
    PROVE  LockOK'
<1>1. \A u \in Threads \ {t} : pc'[u] = pc[u] /\ at'[u] = at[u]
  BY Frame
<1>2. pc \in [Threads -> Place] /\ at \in [Threads -> 1..N + 1] /\ Nobody \notin Threads
  BY TypeParts, ParametersAssumption DEF ThreadsTyped
<1>3. file \in [state : {"missing", "torn", "whole"}, data : [Params -> Entry]]
  BY TypeParts DEF StoreTyped
<1> USE <1>1, <1>2, <1>3 DEF LockOK, Saving, Go
<1>4. CASE Lock(t)
  BY <1>4 DEF Lock
<1>5. CASE Open(t)
  BY <1>5 DEF Open
<1>6. CASE ExportNext(t)
  BY <1>6 DEF ExportNext
<1>7. CASE Finish(t)
  BY <1>7, Numbers DEF Finish
<1>8. CASE Fail(t)
  <2>1. pc[t] \in {"open", "export"} /\ file' = file /\ at' = at
    BY <1>8 DEF Fail
  <2>2. CASE attempt[t] < MaxAttempts
    BY <1>8, <2>1, <2>2 DEF Fail
  <2>3. CASE ~(attempt[t] < MaxAttempts)
    <3>1. fileMutex' = Nobody /\ pc' = [pc EXCEPT ![t] = IF t = Worker THEN "failed" ELSE "idle"]
      BY <1>8, <2>3 DEF Fail
    <3>2. pc'[t] \notin Saving /\ pc'[t] \notin {"export", "saved"}
      BY <3>1
    <3>3. fileMutex = t
      BY <2>1
    <3> QED BY <3>1, <3>2, <3>3, <2>1
  <2> QED BY <2>2, <2>3
<1>9. CASE Saved(t)
  BY <1>9 DEF Saved
<1>10. CASE Elsewhere(t)
  BY <1>10 DEF Elsewhere
<1>11. CASE NoDefaultFile(t)
  BY <1>11 DEF NoDefaultFile
<1> QED BY <1>4, <1>5, <1>6, <1>7, <1>8, <1>9, <1>10, <1>11, SavesOrElsewhere DEF GivesUp

\* What the export has written, and the parameters it will write from the layer.
ExportOK ==
    \A t \in Threads :
        /\ pc[t] = "export" =>
             \A p \in Params \ touched :
                 /\ p \in mask <=> user[p] # Unset
                 /\ p < at[t] => Restored(p) = Get(p)
        /\ pc[t] = "saved" => \A p \in Params \ touched : Restored(p) = Get(p)

\* Equal layers and an equal file entry give a parameter and its restored value.
LEMMA SameValue ==
    ASSUME NEW p \in Params, user'[p] = user[p], runtime'[p] = runtime[p]
    PROVE  /\ Get(p)' = Get(p) /\ RuntimeDefault(p)' = RuntimeDefault(p)
           /\ file' = file => Restored(p)' = Restored(p)
BY DEF Get, RuntimeDefault, Restored

\* What an export writes for a parameter that the layer still holds as it did
\* when the file was opened restores it.
LEMMA WrittenIsRestored ==
    ASSUME TypeOK, NEW p \in Params,
           p \in mask \/ Get(p) = RuntimeDefault(p),
           NEW e, e = IF p \in mask THEN Exported(p) ELSE Unset
    PROVE  (IF e = Unset THEN RuntimeDefault(p) ELSE e) = Get(p)
BY DEF Exported, Get, RuntimeDefault

\* A save that goes on leaves the parameters alone.
LEMMA SaveKeeps ==
    ASSUME NEW t \in Threads, Open(t) \/ ExportNext(t) \/ Finish(t), Noted(t)
    PROVE  user' = user /\ runtime' = runtime
           /\ touched' = IF pc[t] = "open" /\ pc'[t] = "export" THEN {} ELSE touched
BY DEF Open, ExportNext, Finish, layers, Noted, Changed

LEMMA StepExportOK ==
    ASSUME TypeOK, LockOK, ExportOK, NEW t \in Threads, Step(t), Noted(t), TypeOK', LockOK'
    PROVE  ExportOK'
<1> SUFFICES ASSUME NEW u \in Threads
             PROVE  (/\ pc[u] = "export" =>
                         \A p \in Params \ touched :
                             /\ p \in mask <=> user[p] # Unset
                             /\ p < at[u] => Restored(p) = Get(p)
                     /\ pc[u] = "saved" => \A p \in Params \ touched : Restored(p) = Get(p))'
  BY DEF ExportOK
<1>1. CASE u # t
  <2>1. pc'[u] = pc[u] /\ at'[u] = at[u]
    BY <1>1, Frame
  <2> SUFFICES ASSUME pc[u] \in {"export", "saved"}, NEW p \in Params, p \notin touched'
               PROVE  /\ pc[u] = "export" => /\ p \in mask' <=> user'[p] # Unset
                                             /\ p < at[u] => (Restored(p) = Get(p))'
                      /\ pc[u] = "saved" => (Restored(p) = Get(p))'
    BY <2>1
  <2>2. fileMutex = u /\ u # Nobody
    BY ParametersAssumption DEF LockOK, Saving
  <2>3. Elsewhere(t)
    <3>1. pc[t] \notin Saving
      BY <2>2, <1>1 DEF LockOK
    <3>2. ~Lock(t)
      BY <2>2 DEF Lock
    <3> QED BY <3>1, <3>2, SavesOrElsewhere
           DEF Saving, Open, ExportNext, Finish, GivesUp, Fail, NoDefaultFile, Saved
  <2>4. p \notin touched /\ p \notin Changed
    BY <2>3 DEF Noted, Elsewhere, Saving
  <2>5. user'[p] = user[p] /\ runtime'[p] = runtime[p]
    BY <2>4 DEF Changed
  <2> QED BY <2>3, <2>4, <2>5, SameValue DEF ExportOK, Elsewhere
<1>2. CASE u = t
  <2>1. CASE Open(t)
    <3>1. pc[t] = "open" /\ pc'[t] = "export" /\ at'[t] = 1
      BY <2>1, TypeParts DEF Open, Go, ThreadsTyped
    <3>2. touched' = {} /\ user' = user
      BY <2>1, <3>1, SaveKeeps
    <3>3. mask' = {p \in Params : user[p] # Unset}
      BY <2>1 DEF Open
    <3>4. \A p \in Params : ~(p < 1)
      BY DEF Params
    <3> QED BY <3>1, <3>2, <3>3, <3>4, <1>2
  <2>2. CASE ExportNext(t)
    <3>1. pc[t] = "export" /\ pc' = pc /\ at[t] \in 1..N /\ at'[t] = at[t] + 1 /\ mask' = mask
      BY <2>2, TypeParts DEF ExportNext, ThreadsTyped
    <3>2. touched' = touched /\ user' = user /\ runtime' = runtime
      BY <2>2, <3>1, SaveKeeps
    <3> SUFFICES ASSUME NEW p \in Params, p \notin touched
                 PROVE  /\ p \in mask' <=> user'[p] # Unset
                        /\ p < at'[t] => (Restored(p) = Get(p))'
      BY <3>1, <3>2, <1>2
    <3>3. p \in mask <=> user[p] # Unset
      BY <3>1 DEF ExportOK
    <3>4. CASE p = at[t]
      <4>1. file'.data[p] = IF p \in mask THEN Exported(p) ELSE Unset
        BY <3>4, <2>2, TypeParts DEF ExportNext, StoreTyped
      <4>2. p \in mask \/ Get(p) = RuntimeDefault(p)
        BY <3>3 DEF Get
      <4>3. (IF file'.data[p] = Unset THEN RuntimeDefault(p) ELSE file'.data[p]) = Get(p)
        BY <4>1, <4>2, WrittenIsRestored
      <4>4. Get(p)' = Get(p) /\ RuntimeDefault(p)' = RuntimeDefault(p)
        BY <3>2, SameValue
      <4> QED BY <4>3, <4>4, <3>1, <3>2, <3>3 DEF Restored
    <3>5. CASE p # at[t]
      <4>1. file'.data[p] = file.data[p]
        BY <3>5, <2>2, TypeParts DEF ExportNext, StoreTyped
      <4>2. Get(p)' = Get(p) /\ RuntimeDefault(p)' = RuntimeDefault(p)
        BY <3>2, SameValue
      <4>3. p < at'[t] => p < at[t]
        BY <3>1, <3>5 DEF Params
      <4>4. p < at[t] => Restored(p) = Get(p)
        BY <3>1 DEF ExportOK
      <4> QED BY <4>1, <4>2, <4>3, <4>4, <3>1, <3>2, <3>3 DEF Restored
    <3> QED BY <3>4, <3>5
  <2>3. CASE Finish(t)
    <3>1. pc[t] = "export" /\ pc'[t] = "saved" /\ at[t] = N + 1
      BY <2>3, TypeParts, Numbers DEF Finish, ThreadsTyped, Go
    <3>2. touched' = touched /\ user' = user /\ runtime' = runtime
      BY <2>3, <3>1, SaveKeeps
    <3>3. file'.data = file.data
      BY <2>3, TypeParts DEF Finish, StoreTyped
    <3> SUFFICES ASSUME NEW p \in Params, p \notin touched
                 PROVE  (Restored(p) = Get(p))'
      BY <3>1, <3>2, <1>2
    <3>4. Restored(p) = Get(p)
      BY <3>1, Numbers DEF ExportOK, Params
    <3> QED BY <3>2, <3>3, <3>4 DEF Restored, Get, RuntimeDefault
  <2>4. CASE Lock(t) \/ GivesUp(t) \/ Saved(t) \/ Elsewhere(t)
    <3>1. pc'[t] \notin {"export", "saved"}
      BY <2>4, TypeParts
         DEF Lock, GivesUp, Fail, NoDefaultFile, Saved, Elsewhere, ThreadsTyped, Go, Saving
    <3> QED BY <3>1, <1>2
  <2> QED BY <2>1, <2>2, <2>3, <2>4, SavesOrElsewhere
<1> QED BY <1>1, <1>2

-----------------------------------------------------------------------------
(* The autosave and the loads                                              *)

\* An autosave that is scheduled is queued, or some thread is about to queue it.
ScheduleOK == scheduled => queued \/ \E t \in Threads : pc[t] = "queue"

\* A load that nobody disturbed has what the file has in the parameters it has
\* passed, and of the others only what it imported in an earlier attempt.
LoadOK ==
    \A t \in Threads \ disturbed :
        /\ pc[t] = "reset" => \A p \in Params : p < at[t] => user[p] = Unset
        /\ pc[t] = "import" => \A p \in Params : \/ user[p] = file.data[p]
                                                 \/ at[t] <= p /\ user[p] = Unset

\* The steps by which the autosave is scheduled, queued or taken.
LEMMA SchedulingSteps ==
    ASSUME TypeOK, NEW t \in Threads, Step(t)
    PROVE  \/ Schedule(t) \/ Queue(t) \/ (t = Worker /\ Run) \/ \E b \in BOOLEAN : Enable(t, b)
           \/ scheduled' = scheduled /\ queued' = queued /\ pc[t] # "queue"
<1> DEFINE Goal == \/ Schedule(t) \/ Queue(t) \/ (t = Worker /\ Run) \/ \E b \in BOOLEAN : Enable(t, b)
                   \/ scheduled' = scheduled /\ queued' = queued /\ pc[t] # "queue"
           Kept == scheduled' = scheduled /\ queued' = queued /\ pc[t] # "queue"
<1> SUFFICES Goal
  OBVIOUS
<1>1. Kept => Goal
  OBVIOUS
<1>2. Schedule(t) \/ Queue(t) \/ (t = Worker /\ Run) \/ (\E b \in BOOLEAN : Enable(t, b)) => Goal
  OBVIOUS
<1> HIDE DEF Goal
<1> USE DEF Begin, Go, autosave
<1>3. (\E p \in Params, v \in Values : ParamSet(t, p, v) \/ ParamSetDefaultValue(t, p, v)) => Goal
  BY <1>1 DEF ParamSet, ParamSetDefaultValue
<1>4. (\E p \in Params : ParamReset(t, p)) => Goal
  BY <1>1 DEF ParamReset
<1>5. ParamResetAll(t) \/ ParamSave(t) \/ ParamLoad(t) => Goal
  BY <1>1 DEF ParamResetAll, ParamSave, ParamLoad
<1>6. Store(t) \/ Mark(t) \/ ResetNext(t) \/ ResetDone(t) \/ Request(t) => Goal
  BY <1>1 DEF Store, Mark, ResetNext, ResetDone, Request
<1>7. Lock(t) \/ Open(t) \/ ExportNext(t) \/ Finish(t) \/ Fail(t) \/ Saved(t) => Goal
  BY <1>1 DEF Lock, Open, ExportNext, Finish, Fail, Saved
<1>8. LoadMissing(t) \/ LoadOpen(t) \/ Import(t) \/ ImportAgain(t) \/ ImportDone(t) => Goal
  BY <1>1 DEF LoadMissing, LoadOpen, Import, ImportAgain, ImportDone
<1>9. t = Worker /\ (Retry \/ WouldBlock) => Goal
  BY <1>1 DEF Retry, WouldBlock
<1>10. ParamInit(t) \/ NoCard(t) \/ NoDefaultFile(t) => Goal
  BY <1>1 DEF ParamInit, NoCard, NoDefaultFile
<1> HIDE DEF Begin, Go, autosave, Kept
<1> QED BY <1>2, <1>3, <1>4, <1>5, <1>6, <1>7, <1>8, <1>9, <1>10, Zenon DEF Step

LEMMA StepScheduleOK ==
    ASSUME TypeOK, ScheduleOK, NEW t \in Threads, Step(t)
    PROVE  ScheduleOK'
<1>1. \A u \in Threads \ {t} : pc'[u] = pc[u]
  BY Frame
<1>2. pc \in [Threads -> Place] /\ {scheduled, disabled, queued} \subseteq BOOLEAN
  BY TypeParts DEF ThreadsTyped, ControlTyped
<1>3. CASE Schedule(t)
  BY <1>2, <1>3 DEF Schedule, Go, ScheduleOK
<1>4. CASE Queue(t)
  BY <1>4 DEF Queue, ScheduleOK
<1>5. CASE t = Worker /\ Run
  BY <1>5 DEF Run, ScheduleOK
<1>6. ASSUME NEW b \in BOOLEAN, Enable(t, b)
      PROVE  ScheduleOK'
  <2>1. pc[t] = "idle"
    BY <1>6 DEF Enable, Begin
  <2> QED BY <1>1, <1>2, <1>6, <2>1 DEF Enable, ScheduleOK
<1>7. CASE scheduled' = scheduled /\ queued' = queued /\ pc[t] # "queue"
  BY <1>1, <1>7 DEF ScheduleOK
<1> QED BY <1>3, <1>4, <1>5, <1>6, <1>7, SchedulingSteps

\* The steps after which a thread is loading.
LEMMA LoadSteps ==
    ASSUME TypeOK, NEW t \in Threads, Step(t), pc'[t] \in {"reset", "import"}
    PROVE  LoadOpen(t) \/ ResetNext(t) \/ ResetDone(t) \/ Import(t) \/ ImportAgain(t)
<1>p. pc \in [Threads -> Place]
  BY TypeParts DEF ThreadsTyped
<1> DEFINE Away == pc'[t] \notin {"reset", "import"}
<1> SUFFICES ASSUME ~LoadOpen(t), ~ResetNext(t), ~ResetDone(t), ~Import(t), ~ImportAgain(t)
             PROVE  Away
  OBVIOUS
<1> USE <1>p DEF Begin, Go
<1>1. (\E p \in Params, v \in Values : ParamSet(t, p, v) \/ ParamSetDefaultValue(t, p, v)) => Away
  BY DEF ParamSet, ParamSetDefaultValue
<1>2. (\E p \in Params : ParamReset(t, p)) => Away
  BY DEF ParamReset
<1>3. (\E b \in BOOLEAN : Enable(t, b)) => Away
  BY DEF Enable
<1>4. ParamResetAll(t) \/ ParamSave(t) \/ ParamLoad(t) => Away
  BY DEF ParamResetAll, ParamSave, ParamLoad
<1>5. Store(t) \/ Mark(t) \/ Request(t) \/ Schedule(t) \/ Queue(t) => Away
  BY DEF Store, Mark, Request, Schedule, Queue
<1>6. Lock(t) \/ Open(t) \/ ExportNext(t) \/ Finish(t) => Away
  BY DEF Lock, Open, ExportNext, Finish
<1>7. Fail(t) \/ Saved(t) => Away
  BY DEF Fail, Saved
<1>8. LoadMissing(t) \/ ImportDone(t) => Away
  BY DEF LoadMissing, ImportDone
<1>9. t = Worker /\ (Run \/ Retry \/ WouldBlock) => Away
  BY DEF Run, Retry, WouldBlock
<1>10. ParamInit(t) \/ NoCard(t) \/ NoDefaultFile(t) => Away
  BY DEF ParamInit, NoCard, NoDefaultFile
<1> HIDE <1>p DEF Begin, Go, Away
<1> QED BY <1>1, <1>2, <1>3, <1>4, <1>5, <1>6, <1>7, <1>8, <1>9, <1>10, Zenon DEF Step

LEMMA StepLoadOK ==
    ASSUME TypeOK, LoadOK, NEW t \in Threads, Step(t), Noted(t), TypeOK'
    PROVE  LoadOK'
<1> SUFFICES ASSUME NEW u \in Threads, u \notin disturbed', pc'[u] \in {"reset", "import"}
             PROVE  (/\ pc[u] = "reset" => \A p \in Params : p < at[u] => user[p] = Unset
                     /\ pc[u] = "import" => \A p \in Params : \/ user[p] = file.data[p]
                                                              \/ at[u] <= p /\ user[p] = Unset)'
  BY DEF LoadOK
<1>1. u \notin disturbed
  BY DEF Noted
<1>t. /\ pc \in [Threads -> Place] /\ at \in [Threads -> 1..N + 1]
      /\ user \in [Params -> Entry] /\ user' \in [Params -> Entry]
  BY TypeParts, TypePartsNext DEF ThreadsTyped, StoreTyped
<1>2. CASE u # t
  <2>1. pc'[u] = pc[u] /\ at'[u] = at[u]
    BY <1>2, Frame
  <2>2. Changed = {} /\ file' = file
    BY <1>2 DEF Noted
  <2>3. \A p \in Params : user'[p] = user[p]
    BY <2>2 DEF Changed
  <2> QED BY <2>1, <2>2, <2>3, <1>1 DEF LoadOK
<1>3. CASE u = t
  <2>1. CASE LoadOpen(t)
    <3>1. pc'[t] = "reset" /\ at'[t] = 1
      BY <2>1, <1>t DEF LoadOpen, Go
    <3>2. \A p \in Params : ~(p < 1)
      BY DEF Params
    <3> QED BY <3>1, <3>2, <1>3
  <2>2. CASE ResetNext(t)
    <3>1. /\ pc' = pc /\ at[t] \in Params /\ at'[t] = at[t] + 1
          /\ user' = [user EXCEPT ![at[t]] = Unset]
      <4>1. at[t] \in 1..N + 1 /\ at[t] <= N
        BY <2>2, <1>t DEF ResetNext
      <4>2. at[t] \in Params
        BY <4>1, Numbers DEF Params
      <4> QED BY <4>2, <2>2, <1>t DEF ResetNext
    <3>2. pc[t] = "reset"
      BY <3>1, <1>3, <2>2 DEF ResetNext
    <3>3. \A p \in Params : p < at[t] => user[p] = Unset
      BY <3>2, <1>1, <1>3 DEF LoadOK
    <3>4. \A p \in Params : p < at'[t] => p < at[t] \/ p = at[t]
      BY <3>1 DEF Params
    <3> QED BY <3>1, <3>2, <3>3, <3>4, <1>3, <1>t
  <2>3. CASE ResetDone(t)
    <3>1. pc[t] = "reset" /\ pc'[t] = "import" /\ at[t] > N /\ at'[t] = 1 /\ user' = user
      BY <2>3, <1>3, <1>t DEF ResetDone, Go, layers
    <3>2. \A p \in Params : user[p] = Unset
      BY <3>1, <1>t, <1>1, <1>3, Numbers DEF LoadOK, Params
    <3>3. \A p \in Params : 1 <= p
      BY DEF Params
    <3> QED BY <3>1, <3>2, <3>3, <1>3
  <2>4. CASE Import(t)
    <3>1. PICK p \in at[t]..N :
              /\ \A q \in at[t]..p - 1 : file.data[q] = Unset
              /\ user' = [user EXCEPT ![p] = file.data[p]]
              /\ at' = [at EXCEPT ![t] = p + 1]
      BY <2>4 DEF Import
    <3>2. pc[t] = "import" /\ pc' = pc /\ file' = file
      BY <2>4 DEF Import, storage
    <3>3. p \in Params /\ at'[t] = p + 1 /\ at[t] \in 1..N + 1
      BY <3>1, <1>t DEF Params
    <3>4. ASSUME NEW q \in Params
          PROVE  user'[q] = file.data[q] \/ (at'[t] <= q /\ user'[q] = Unset)
      <4>1. user[q] = file.data[q] \/ (at[t] <= q /\ user[q] = Unset)
        BY <3>2, <1>1, <1>3 DEF LoadOK
      <4>2. CASE q = p
        BY <4>2, <3>1, <1>t
      <4>3. CASE q # p /\ q < p
        <5>1. user'[q] = user[q]
          BY <4>3, <3>1, <1>t
        <5>2. at[t] <= q => q \in at[t]..p - 1
          BY <4>3, <3>3 DEF Params
        <5> QED BY <4>1, <5>1, <5>2, <3>1
      <4>4. CASE q # p /\ ~(q < p)
        <5>1. user'[q] = user[q]
          BY <4>4, <3>1, <1>t
        <5>2. p + 1 <= q
          BY <4>4, <3>3 DEF Params
        <5> QED BY <4>1, <5>1, <5>2, <3>3
      <4> QED BY <4>2, <4>3, <4>4
    <3> QED BY <3>2, <3>4, <1>3
  <2>5. CASE ImportAgain(t)
    <3>1. pc[t] = "import" /\ pc' = pc /\ at'[t] = 1 /\ user' = user /\ file' = file
      BY <2>5, <1>t DEF ImportAgain, layers, storage
    <3>2. \A p \in Params : 1 <= p
      BY DEF Params
    <3> QED BY <3>1, <3>2, <1>1, <1>3 DEF LoadOK
  <2> QED BY <2>1, <2>2, <2>3, <2>4, <2>5, <1>3, LoadSteps
<1> QED BY <1>2, <1>3

\* A file that is being loaded exists.
LoadedOK == \A t \in Threads : pc[t] \in {"reset", "import"} => file.state # "missing"

LEMMA StepLoadedOK ==
    ASSUME TypeOK, LoadedOK, NEW t \in Threads, Step(t)
    PROVE  LoadedOK'
<1>1. file.state # "missing" => file'.state # "missing"
  <2>1. file \in [state : {"missing", "torn", "whole"}, data : [Params -> Entry]]
    BY TypeParts DEF StoreTyped
  <2>2. CASE Open(t)
    BY <2>2 DEF Open
  <2>3. CASE ExportNext(t)
    BY <2>1, <2>3 DEF ExportNext
  <2>4. CASE Finish(t)
    BY <2>1, <2>4 DEF Finish
  <2>5. CASE Lock(t) \/ GivesUp(t) \/ Saved(t) \/ Elsewhere(t)
    BY <2>5 DEF Lock, GivesUp, Fail, NoDefaultFile, Saved, Elsewhere
  <2> QED BY <2>2, <2>3, <2>4, <2>5, SavesOrElsewhere
<1>2. \A u \in Threads \ {t} : pc'[u] = pc[u]
  BY Frame
<1>3. pc'[t] \in {"reset", "import"} => file.state # "missing"
  <2>1. pc \in [Threads -> Place]
    BY TypeParts DEF ThreadsTyped
  <2>2. CASE LoadOpen(t)
    BY <2>2 DEF LoadOpen
  <2>3. CASE ResetNext(t)
    BY <2>3 DEF ResetNext, LoadedOK
  <2>4. CASE ResetDone(t)
    BY <2>1, <2>4 DEF ResetDone, Go, LoadedOK
  <2>5. CASE Import(t) \/ ImportAgain(t)
    BY <2>5 DEF Import, ImportAgain, LoadedOK
  <2> QED BY <2>2, <2>3, <2>4, <2>5, LoadSteps
<1> QED BY <1>1, <1>2, <1>3 DEF LoadedOK

-----------------------------------------------------------------------------
(* No change is lost                                                       *)

\* t will still bring the file up to date, ask the autosave to, or record why not.
Responsible(t) ==
    \/ pc[t] \in {"mount", "boot", "request", "schedule", "queue", "lock", "open", "export", "saved",
                  "failed", "reset all", "reset", "import"}
    \/ pc[t] = "mark" /\ arg[t].changed

\* The autosave, a recorded cause or a thread other than t answers for the file.
Others(t) == why # {} \/ queued \/ \E u \in Threads \ {t} : Responsible(u)

\* The save of t has covered the parameters it passed and will cover the others.
Covered(t) ==
    \A p \in Params : IF p < at[t] THEN Restored(p) = Get(p)
                                   ELSE p \in mask \/ Get(p) = RuntimeDefault(p)

\* Whatever an export misses, somebody else answers for.
CoverOK == \A t \in Threads : pc[t] \in {"export", "saved"} => Others(t) \/ Covered(t)

\* The file is current, or somebody answers for it.
AnsweredOK == FileCurrent \/ why # {} \/ queued \/ \E t \in Threads : Responsible(t)

\* The inductive invariant.
IInv ==
    /\ TypeOK /\ ArgOK /\ LockOK /\ ExportOK
    /\ ScheduleOK /\ LoadOK /\ LoadedOK /\ CoverOK /\ AnsweredOK

\* t or the autosave answers for the file after the step.
TakesOver(t) == (why # {} \/ queued \/ Responsible(t))'

\* The step changes no value, and a duty it lays down is with a thread that queues.
HandsOver(t) ==
    /\ \A p \in Params : Get(p)' = Get(p) /\ RuntimeDefault(p)' = RuntimeDefault(p)
    /\ file' = file /\ mask' = mask
    /\ why # {} \/ queued => why' # {} \/ queued'
    /\ Responsible(t) => \E u \in Threads \ {t} : pc[u] = "queue"

\* No layer changes: neither does a value.
LEMMA SameLayers ==
    ASSUME user' = user, runtime' = runtime
    PROVE  \A p \in Params : Get(p)' = Get(p) /\ RuntimeDefault(p)' = RuntimeDefault(p)
BY DEF Get, RuntimeDefault

\* What a step means for the duty to bring the file up to date: calls for one parameter.
LEMMA DutyOfCall ==
    ASSUME TypeOK, NEW t \in Threads, NEW p \in Params, NEW v \in Values,
           ParamSet(t, p, v) \/ ParamSetDefaultValue(t, p, v) \/ ParamReset(t, p)
    PROVE  TakesOver(t) \/ HandsOver(t) \/ FileCurrent'
<1>t. pc \in [Threads -> Place] /\ arg \in [Threads -> Argument] /\ user \in [Params -> Entry]
  BY TypeParts DEF ThreadsTyped, StoreTyped
<1>1. CASE ParamSet(t, p, v)
  <2>1. \A q \in Params : Get(q)' = Get(q) /\ RuntimeDefault(q)' = RuntimeDefault(q)
    BY <1>1, SameLayers DEF ParamSet, layers
  <2>2. ~Responsible(t)
    BY <1>1 DEF ParamSet, Begin, Responsible
  <2> QED BY <1>1, <2>1, <2>2 DEF ParamSet, HandsOver, storage, autosave
<1>2. CASE ParamSetDefaultValue(t, p, v)
  <2>1. FileCurrent' \/ why' = why \cup {"default value"}
    BY <1>2 DEF ParamSetDefaultValue
  <2> QED BY <2>1 DEF TakesOver
<1>3. CASE ParamReset(t, p)
  BY <1>t, <1>3 DEF ParamReset, Begin, Go, TakesOver, Responsible
<1> QED BY <1>1, <1>2, <1>3

\* The same for setting and resetting.
LEMMA DutyOfChange ==
    ASSUME TypeOK, ArgOK, NEW t \in Threads,
           ParamResetAll(t) \/ Store(t) \/ Mark(t) \/ ResetNext(t) \/ ResetDone(t)
    PROVE  TakesOver(t) \/ HandsOver(t)
<1>t. pc \in [Threads -> Place] /\ arg \in [Threads -> Argument] /\ user \in [Params -> Entry]
  BY TypeParts DEF ThreadsTyped, StoreTyped
<1>4. CASE ParamResetAll(t)
  BY <1>t, <1>4 DEF ParamResetAll, Begin, Go, TakesOver, Responsible
<1>5. CASE Store(t)
  <2>1. CASE arg[t].changed
    BY <1>t, <1>5, <2>1 DEF Store, Go, TakesOver, Responsible
  <2>2. CASE ~arg[t].changed /\ Get(arg[t].param) # arg[t].val
    <3>1. why' = why \cup {"stale test"}
      BY <1>5, <2>2 DEF Store
    <3> QED BY <3>1 DEF TakesOver
  <2>3. CASE ~arg[t].changed /\ Get(arg[t].param) = arg[t].val
    <3>0. PICK q \in Params : q = arg[t].param
      BY <1>5 DEF Store, ArgOK
    <3>1. arg[t].val # Unset
      BY <1>t, Numbers DEF Argument
    <3>2. user' = [user EXCEPT ![q] = arg[t].val] /\ runtime' = runtime /\ why' = why
      BY <3>0, <1>5, <2>3 DEF Store
    <3>3. \A r \in Params : RuntimeDefault(r)' = RuntimeDefault(r)
      BY <3>2 DEF RuntimeDefault
    <3>4. Get(q)' = Get(q)
      BY <3>0, <3>1, <3>2, <1>t, <2>3 DEF Get
    <3>5. ASSUME NEW r \in Params, r # q
          PROVE  Get(r)' = Get(r)
      BY <3>2, <3>3, <3>5, <1>t DEF Get
    <3>6. ~Responsible(t)
      BY <1>5 DEF Store, Responsible
    <3> QED BY <1>5, <3>2, <3>3, <3>4, <3>5, <3>6 DEF Store, HandsOver, storage, autosave
  <2> QED BY <2>1, <2>2, <2>3
<1>6. CASE Mark(t)
  <2>1. CASE arg[t].changed
    BY <1>t, <1>6, <2>1 DEF Mark, Go, TakesOver, Responsible
  <2>2. CASE ~arg[t].changed
    <3>1. \A q \in Params : Get(q)' = Get(q) /\ RuntimeDefault(q)' = RuntimeDefault(q)
      BY <1>6, SameLayers DEF Mark
    <3>2. ~Responsible(t)
      BY <1>6, <2>2 DEF Mark, Responsible
    <3> QED BY <1>6, <3>1, <3>2 DEF Mark, HandsOver, storage, autosave
  <2> QED BY <2>1, <2>2
<1>7. CASE ResetNext(t)
  BY <1>7 DEF ResetNext, TakesOver, Responsible
<1>8. CASE ResetDone(t)
  BY <1>t, <1>8 DEF ResetDone, Go, TakesOver, Responsible
<1> QED BY <1>4, <1>5, <1>6, <1>7, <1>8

\* The same for the autosave.
LEMMA DutyOfAutosave ==
    ASSUME TypeOK, ScheduleOK, NEW t \in Threads, NEW b \in BOOLEAN,
           \/ ParamInit(t) \/ NoCard(t)
           \/ Request(t) \/ Schedule(t) \/ Queue(t) \/ Enable(t, b)
           \/ t = Worker /\ (Run \/ Retry \/ WouldBlock)
    PROVE  TakesOver(t) \/ HandsOver(t)
<1>t. pc \in [Threads -> Place] /\ {initialized, scheduled, disabled, queued} \subseteq BOOLEAN
  BY TypeParts DEF ThreadsTyped, ControlTyped
<1>1. CASE Request(t)
  <2>5. CASE ~initialized
    <3>1. why' = why \cup {"no autosave"}
      BY <1>1, <2>5 DEF Request
    <3> QED BY <3>1 DEF TakesOver
  <2>1. CASE initialized /\ disabled
    <3>1. why' = why \cup {"disabled"}
      BY <1>1, <2>1 DEF Request
    <3> QED BY <3>1 DEF TakesOver
  <2>2. CASE initialized /\ ~disabled /\ ~scheduled
    BY <1>t, <1>1, <2>2 DEF Request, Go, TakesOver, Responsible
  <2>3. CASE scheduled /\ queued
    BY <1>1, <2>3 DEF Request, autosave, TakesOver
  <2>4. CASE initialized /\ ~disabled /\ scheduled /\ ~queued
    <3>1. \A q \in Params : Get(q)' = Get(q) /\ RuntimeDefault(q)' = RuntimeDefault(q)
      BY <1>1, SameLayers DEF Request, layers
    <3>2. PICK u \in Threads : pc[u] = "queue"
      BY <2>4 DEF ScheduleOK
    <3>3. u # t
      BY <1>1, <3>2 DEF Request
    <3> QED BY <1>1, <2>4, <3>1, <3>2, <3>3 DEF Request, HandsOver, storage, autosave
  <2> QED BY <1>t, <2>1, <2>2, <2>3, <2>4, <2>5
<1>2. CASE Schedule(t)
  BY <1>t, <1>2 DEF Schedule, Go, TakesOver, Responsible
<1>3. CASE Queue(t)
  BY <1>3 DEF Queue, TakesOver
<1>4. CASE Enable(t, b)
  <2>1. CASE queued /\ ~queued'
    <3>1. why' = why \cup {"disabled"}
      BY <1>4, <2>1 DEF Enable
    <3> QED BY <3>1 DEF TakesOver
  <2>2. CASE ~(queued /\ ~queued')
    <3>1. \A q \in Params : Get(q)' = Get(q) /\ RuntimeDefault(q)' = RuntimeDefault(q)
      BY <1>4, SameLayers DEF Enable, layers
    <3>2. ~Responsible(t)
      BY <1>4 DEF Enable, Begin, Responsible
    <3> QED BY <1>4, <2>2, <3>1, <3>2 DEF Enable, HandsOver, storage
  <2> QED BY <2>1, <2>2
<1>5. CASE t = Worker /\ Run
  <2>1. CASE disabled
    <3>1. why' = why \cup {"disabled"}
      BY <1>5, <2>1 DEF Run
    <3> QED BY <3>1 DEF TakesOver
  <2>2. CASE ~disabled
    BY <1>t, <1>5, <2>2 DEF Run, Go, TakesOver, Responsible
  <2> QED BY <2>1, <2>2
<1>6. CASE t = Worker /\ Retry
  <2>1. CASE retries < MaxRetries
    BY <1>t, <1>6, <2>1 DEF Retry, Go, TakesOver, Responsible
  <2>2. CASE ~(retries < MaxRetries)
    <3>1. why' = why \cup {"gave up"}
      BY <1>6, <2>2 DEF Retry
    <3> QED BY <3>1 DEF TakesOver
  <2> QED BY <2>1, <2>2
<1>7. CASE t = Worker /\ WouldBlock
  BY <1>t, <1>7 DEF WouldBlock, Go, TakesOver, Responsible
<1>8. CASE ParamInit(t)
  BY <1>t, <1>8 DEF ParamInit, Go, TakesOver, Responsible
<1>9. CASE NoCard(t)
  <2>1. why' = why \cup {"no card"}
    BY <1>9 DEF NoCard
  <2> QED BY <2>1 DEF TakesOver
<1> QED BY <1>1, <1>2, <1>3, <1>4, <1>5, <1>6, <1>7, <1>8, <1>9

\* The same for the saves, but for the end of one.
LEMMA DutyOfSave ==
    ASSUME TypeOK, NEW t \in Threads,
           \/ ParamSave(t) \/ Lock(t) \/ Open(t) \/ NoDefaultFile(t) \/ ExportNext(t) \/ Finish(t)
           \/ Fail(t)
    PROVE  TakesOver(t)
<1>t. pc \in [Threads -> Place]
  BY TypeParts DEF ThreadsTyped
<1>1. CASE ParamSave(t)
  BY <1>t, <1>1 DEF ParamSave, Begin, Go, TakesOver, Responsible
<1>2. CASE Lock(t)
  BY <1>t, <1>2 DEF Lock, Go, TakesOver, Responsible
<1>3. CASE Open(t)
  BY <1>t, <1>3 DEF Open, Go, TakesOver, Responsible
<1>4. CASE ExportNext(t)
  BY <1>4 DEF ExportNext, TakesOver, Responsible
<1>5. CASE Finish(t)
  BY <1>t, <1>5 DEF Finish, Go, TakesOver, Responsible
<1>6. CASE Fail(t)
  <2>1. CASE attempt[t] < MaxAttempts
    BY <1>t, <1>6, <2>1 DEF Fail, Go, TakesOver, Responsible
  <2>2. CASE ~(attempt[t] < MaxAttempts) /\ t = Worker
    BY <1>t, <1>6, <2>2 DEF Fail, Go, TakesOver, Responsible
  <2>3. CASE ~(attempt[t] < MaxAttempts) /\ t # Worker
    <3>1. why' = why \cup {"save failed"}
      BY <1>6, <2>3 DEF Fail
    <3> QED BY <3>1 DEF TakesOver
  <2> QED BY <2>1, <2>2, <2>3
<1>7. CASE NoDefaultFile(t)
  <2>1. why' = why \cup {"save failed"}
    BY <1>7 DEF NoDefaultFile
  <2> QED BY <2>1 DEF TakesOver
<1> QED BY <1>1, <1>2, <1>3, <1>4, <1>5, <1>6, <1>7

\* The same for the loads: an undisturbed one leaves the file current.
LEMMA DutyOfLoad ==
    ASSUME TypeOK, LoadOK, LoadedOK, NEW t \in Threads, Noted(t),
           \/ ParamLoad(t) \/ LoadMissing(t) \/ LoadOpen(t)
           \/ Import(t) \/ ImportAgain(t) \/ ImportDone(t)
    PROVE  TakesOver(t) \/ HandsOver(t) \/ FileCurrent'
<1>t. pc \in [Threads -> Place] /\ at \in [Threads -> 1..N + 1]
  BY TypeParts DEF ThreadsTyped
<1>f. file \in [state : {"missing", "torn", "whole"}, data : [Params -> Entry]]
  BY TypeParts DEF StoreTyped
<1>1. CASE ParamLoad(t)
  <2>1. \A q \in Params : Get(q)' = Get(q) /\ RuntimeDefault(q)' = RuntimeDefault(q)
    BY <1>1, SameLayers DEF ParamLoad, layers
  <2>2. ~Responsible(t)
    BY <1>1 DEF ParamLoad, Begin, Responsible
  <2> QED BY <1>1, <2>1, <2>2 DEF ParamLoad, HandsOver, storage, autosave
<1>2. CASE LoadMissing(t)
  <2>1. CASE pc[t] = "boot"
    BY <1>t, <1>2, <2>1 DEF LoadMissing, Go, TakesOver, Responsible
  <2>2. CASE pc[t] = "load"
    <3>1. \A q \in Params : Get(q)' = Get(q) /\ RuntimeDefault(q)' = RuntimeDefault(q)
      BY <1>2, SameLayers DEF LoadMissing, layers
    <3>2. ~Responsible(t)
      BY <2>2 DEF Responsible
    <3> QED BY <1>2, <3>1, <3>2 DEF LoadMissing, HandsOver, storage, autosave
  <2> QED BY <1>2, <2>1, <2>2 DEF LoadMissing
<1>3. CASE LoadOpen(t)
  BY <1>t, <1>3 DEF LoadOpen, Go, TakesOver, Responsible
<1>4. CASE Import(t)
  BY <1>4 DEF Import, TakesOver, Responsible
<1>5. CASE ImportAgain(t)
  BY <1>5 DEF ImportAgain, TakesOver, Responsible
<1>6. CASE ImportDone(t)
  <2>1. CASE file.state = "torn" \/ t \in disturbed
    <3>1. why' = why \cup {"load"}
      BY <1>6, <2>1 DEF ImportDone
    <3> QED BY <3>1 DEF TakesOver
  <2>2. CASE file.state # "torn" /\ t \notin disturbed
    <3>1. file.state = "whole" /\ pc[t] = "import" /\ user' = user /\ runtime' = runtime /\ file' = file
      BY <1>6, <1>f, <2>2 DEF ImportDone, layers, storage, LoadedOK
    <3>2. \A p \in Params : at[t] <= p => file.data[p] = Unset
      BY <1>6, <1>t, <2>2, Numbers DEF ImportDone, Params
    <3>3. \A p \in Params : user[p] = file.data[p]
      BY <3>1, <3>2, <2>2 DEF LoadOK
    <3>4. FileCurrent
      BY <3>1, <3>3 DEF FileCurrent, Restored, Get
    <3> QED BY <3>1, <3>4 DEF FileCurrent, Restored, Get, RuntimeDefault
  <2> QED BY <2>1, <2>2
<1> QED BY <1>1, <1>2, <1>3, <1>4, <1>5, <1>6

\* What any step means for the duty to bring the file up to date.
LEMMA Duty ==
    ASSUME TypeOK, ArgOK, ScheduleOK, LoadOK, LoadedOK, NEW t \in Threads, Step(t), Noted(t)
    PROVE  TakesOver(t) \/ HandsOver(t) \/ FileCurrent' \/ Saved(t)
<1> DEFINE Goal == TakesOver(t) \/ HandsOver(t) \/ FileCurrent' \/ Saved(t)
<1> SUFFICES Goal
  OBVIOUS
<1>n. Default \in Values /\ TRUE \in BOOLEAN
  BY Numbers
<1>1. ASSUME NEW p \in Params, NEW v \in Values, ParamSet(t, p, v) \/ ParamSetDefaultValue(t, p, v)
      PROVE  Goal
  BY <1>1, DutyOfCall
<1>2. ASSUME NEW p \in Params, ParamReset(t, p)
      PROVE  Goal
  BY <1>2, <1>n, DutyOfCall
<1>3. ASSUME NEW b \in BOOLEAN, Enable(t, b)
      PROVE  Goal
  BY <1>3, DutyOfAutosave
<1>4. ParamResetAll(t) \/ Store(t) \/ Mark(t) \/ ResetNext(t) \/ ResetDone(t) => Goal
  BY DutyOfChange
<1>5. (\/ ParamInit(t) \/ NoCard(t) \/ Request(t) \/ Schedule(t) \/ Queue(t)
       \/ t = Worker /\ (Run \/ Retry \/ WouldBlock)) => Goal
  BY <1>n, DutyOfAutosave
<1>6. (\/ ParamSave(t) \/ Lock(t) \/ Open(t) \/ NoDefaultFile(t) \/ ExportNext(t) \/ Finish(t)
       \/ Fail(t)) => Goal
  BY DutyOfSave
<1>7. ParamLoad(t) \/ LoadMissing(t) \/ LoadOpen(t) \/ Import(t) \/ ImportAgain(t) \/ ImportDone(t)
         => Goal
  BY DutyOfLoad
<1>8. Saved(t) => Goal
  OBVIOUS
<1> HIDE DEF Goal
<1>9. (\E p \in Params, v \in Values : ParamSet(t, p, v) \/ ParamSetDefaultValue(t, p, v)) => Goal
  BY <1>1
<1>10. (\E p \in Params : ParamReset(t, p)) => Goal
  BY <1>2
<1>11. (\E b \in BOOLEAN : Enable(t, b)) => Goal
  BY <1>3
<1> QED BY <1>4, <1>5, <1>6, <1>7, <1>8, <1>9, <1>10, <1>11, Zenon DEF Step

\* Another thread's duty is not a step's to lay down.
LEMMA OthersKept ==
    ASSUME TypeOK, NEW t \in Threads, Step(t), NEW u \in Threads, u # t, Responsible(u)
    PROVE  Responsible(u)'
BY Frame DEF Responsible

LEMMA StepAnsweredOK ==
    ASSUME IInv, NEW t \in Threads, Step(t), Noted(t)
    PROVE  AnsweredOK'
<1> USE DEF IInv
<1>1. CASE TakesOver(t)
  BY <1>1 DEF TakesOver, AnsweredOK
<1>2. CASE HandsOver(t)
  <2>1. CASE FileCurrent
    BY <1>2, <2>1 DEF HandsOver, FileCurrent, Restored, AnsweredOK
  <2>2. CASE why # {} \/ queued
    BY <1>2, <2>2 DEF HandsOver, AnsweredOK
  <2>3. ASSUME NEW u \in Threads, Responsible(u)
        PROVE  AnsweredOK'
    <3>1. CASE u = t
      <4>1. PICK w \in Threads \ {t} : pc[w] = "queue"
        BY <1>2, <2>3, <3>1 DEF HandsOver
      <4>2. Responsible(w)'
        BY <4>1, OthersKept DEF Responsible
      <4> QED BY <4>2 DEF AnsweredOK
    <3>2. CASE u # t
      BY <2>3, <3>2, OthersKept DEF AnsweredOK
    <3> QED BY <3>1, <3>2
  <2> QED BY <2>1, <2>2, <2>3 DEF AnsweredOK
<1>3. CASE FileCurrent'
  BY <1>3 DEF AnsweredOK
<1>4. CASE Saved(t)
  <2>1. /\ pc[t] = "saved" /\ user' = user /\ runtime' = runtime
        /\ file' = file /\ why' = why /\ queued' = queued
    BY <1>4 DEF Saved
  <2>2. CASE Others(t)
    <3>1. CASE why # {} \/ queued
      BY <2>1, <3>1 DEF AnsweredOK
    <3>2. ASSUME NEW u \in Threads \ {t}, Responsible(u)
          PROVE  AnsweredOK'
      BY <3>2, OthersKept DEF AnsweredOK
    <3> QED BY <2>2, <3>1, <3>2 DEF Others
  <2>3. CASE Covered(t)
    <3>1. file.state = "whole" /\ at[t] = N + 1
      BY <2>1 DEF LockOK
    <3>2. \A p \in Params : p < at[t]
      BY <3>1, Numbers DEF Params
    <3>3. FileCurrent
      BY <2>3, <3>1, <3>2 DEF Covered, FileCurrent
    <3> QED BY <2>1, <3>3 DEF FileCurrent, Restored, Get, RuntimeDefault, AnsweredOK
  <2> QED BY <2>1, <2>2, <2>3 DEF CoverOK
<1> QED BY <1>1, <1>2, <1>3, <1>4, Duty

\* The step of another thread keeps what a save relies on.
LEMMA CoverOfOther ==
    ASSUME IInv, NEW t \in Threads, Step(t), Noted(t), LockOK',
           NEW u \in Threads, u # t, pc[u] \in {"export", "saved"}
    PROVE  (Others(u) \/ Covered(u))'
<1> USE DEF IInv
<1>u. pc'[u] = pc[u] /\ at'[u] = at[u]
  BY Frame
<1>1. CASE TakesOver(t)
  BY <1>1 DEF TakesOver, Others
<1>2. CASE HandsOver(t)
  <2>1. CASE why # {} \/ queued
    BY <1>2, <2>1 DEF HandsOver, Others
  <2>2. ASSUME NEW w \in Threads \ {u}, Responsible(w)
        PROVE  Others(u)'
    <3>1. CASE w = t
      <4>1. PICK x \in Threads \ {t} : pc[x] = "queue"
        BY <1>2, <2>2, <3>1 DEF HandsOver
      <4>2. Responsible(x)' /\ x # u
        BY <4>1, OthersKept DEF Responsible
      <4> QED BY <4>2 DEF Others
    <3>2. CASE w # t
      BY <2>2, <3>2, OthersKept DEF Others
    <3> QED BY <3>1, <3>2
  <2>3. CASE Covered(u)
    BY <1>2, <1>u, <2>3 DEF HandsOver, Covered, Restored
  <2> QED BY <2>1, <2>2, <2>3 DEF CoverOK, Others
<1>3. CASE FileCurrent'
  <2>1. pc'[u] = "saved" /\ at'[u] = N + 1
    BY <1>3, <1>u DEF LockOK, FileCurrent
  <2>2. \A p \in Params : p < at'[u]
    BY <2>1, Numbers DEF Params
  <2> QED BY <1>3, <2>2 DEF FileCurrent, Covered
<1>4. CASE Saved(t)
  BY <1>4, ParametersAssumption DEF Saved, LockOK, Saving
<1> QED BY <1>1, <1>2, <1>3, <1>4, Duty

\* A save's own steps do what it relies on.
LEMMA CoverOfOwn ==
    ASSUME IInv, NEW t \in Threads, Step(t), Noted(t), TypeOK', pc'[t] \in {"export", "saved"}
    PROVE  (Others(t) \/ Covered(t))'
<1> USE DEF IInv
<1>t. pc \in [Threads -> Place] /\ at \in [Threads -> 1..N + 1]
  BY TypeParts DEF ThreadsTyped
<1>f. file \in [state : {"missing", "torn", "whole"}, data : [Params -> Entry]]
  BY TypeParts DEF StoreTyped
<1>1. Open(t) \/ ExportNext(t) \/ Finish(t)
  BY <1>t, SavesOrElsewhere DEF Lock, GivesUp, Fail, NoDefaultFile, Saved, Elsewhere, Go, Saving
<1>2. user' = user /\ runtime' = runtime
  BY <1>1, SaveKeeps
<1>3. \A p \in Params : Get(p)' = Get(p) /\ RuntimeDefault(p)' = RuntimeDefault(p)
  BY <1>2, SameLayers
<1>4. Others(t) => Others(t)'
  <2>1. why' = why /\ queued' = queued
    BY <1>1 DEF Open, ExportNext, Finish, autosave
  <2> QED BY <2>1, OthersKept DEF Others
<1>5. CASE Open(t)
  <2>1. at'[t] = 1 /\ mask' = {p \in Params : user[p] # Unset}
    BY <1>5, <1>t DEF Open
  <2>2. \A p \in Params : ~(p < 1)
    BY DEF Params
  <2>3. \A p \in Params : p \in mask' \/ Get(p) = RuntimeDefault(p)
    BY <2>1 DEF Get
  <2> QED BY <1>3, <2>1, <2>2, <2>3 DEF Covered
<1>6. CASE ExportNext(t)
  <2>1. /\ pc[t] = "export" /\ at[t] \in 1..N + 1 /\ at[t] <= N /\ at'[t] = at[t] + 1 /\ mask' = mask
        /\ file' = [file EXCEPT !.data[at[t]] = IF at[t] \in mask THEN Exported(at[t]) ELSE Unset]
    BY <1>6, <1>t DEF ExportNext
  <2> SUFFICES ASSUME Covered(t), NEW p \in Params
               PROVE  (IF p < at[t] THEN Restored(p) = Get(p)
                                    ELSE p \in mask \/ Get(p) = RuntimeDefault(p))'
    BY <1>4, <2>1 DEF Covered, CoverOK
  <2>2. CASE p = at[t]
    <3>1. file'.data[p] = IF p \in mask THEN Exported(p) ELSE Unset
      BY <1>f, <2>1, <2>2
    <3>2. p \in mask \/ Get(p) = RuntimeDefault(p)
      BY <2>2, <1>t DEF Covered, Params
    <3>3. (IF file'.data[p] = Unset THEN RuntimeDefault(p) ELSE file'.data[p]) = Get(p)
      BY <3>1, <3>2, WrittenIsRestored
    <3>4. p < at'[t]
      BY <2>1, <2>2
    <3> QED BY <1>2, <1>3, <3>3, <3>4 DEF Restored
  <2>3. CASE p # at[t]
    <3>1. file'.data[p] = file.data[p]
      BY <1>f, <2>1, <2>3
    <3>2. p < at'[t] <=> p < at[t]
      BY <2>1, <2>3 DEF Params
    <3> QED BY <1>2, <1>3, <2>1, <3>1, <3>2 DEF Covered, Restored
  <2> QED BY <2>2, <2>3
<1>7. CASE Finish(t)
  <2>1. pc[t] = "export" /\ at' = at /\ mask' = mask /\ file'.data = file.data
    BY <1>7, <1>f DEF Finish
  <2> QED BY <1>2, <1>3, <1>4, <2>1 DEF Covered, CoverOK, Restored
<1> QED BY <1>1, <1>5, <1>6, <1>7

\* A step keeps the whole invariant.
LEMMA StepIInv ==
    ASSUME IInv, NEW t \in Threads, Step(t), Noted(t)
    PROVE  IInv'
<1>1. TypeOK' /\ ArgOK'
  BY StepTypeOK DEF IInv
<1>2. LockOK'
  BY <1>1, StepLockOK DEF IInv
<1>3. ExportOK'
  BY <1>1, <1>2, StepExportOK DEF IInv
<1>4. ScheduleOK' /\ LoadOK' /\ LoadedOK'
  BY <1>1, StepScheduleOK, StepLoadOK, StepLoadedOK DEF IInv
<1>5. CoverOK'
  <2>1. ASSUME NEW u \in Threads, pc'[u] \in {"export", "saved"}
        PROVE  (Others(u) \/ Covered(u))'
    <3>1. CASE u = t
      BY <1>1, <2>1, <3>1, CoverOfOwn
    <3>2. CASE u # t
      <4>1. pc[u] \in {"export", "saved"}
        BY <2>1, <3>2, Frame DEF IInv
      <4> QED BY <1>2, <3>2, <4>1, CoverOfOther
    <3> QED BY <3>1, <3>2
  <2> QED BY <2>1 DEF CoverOK
<1> QED BY <1>1, <1>2, <1>3, <1>4, <1>5, StepAnsweredOK DEF IInv

\* A crash, or power-on, leaves only the loader with something to do: loading.
LEMMA BootIInv ==
    /\ Init => IInv
    /\ IInv /\ Crash => IInv'
<1>b. BootPC \in [Threads -> {"mount", "idle"}] /\ BootPC[Loader] = "mount" /\ Loader \in Threads
  BY ParametersAssumption DEF BootPC, Threads
<1>1. ASSUME Init
      PROVE  IInv
  <2>1. pc = BootPC /\ scheduled = FALSE /\ fileMutex = Nobody
    BY <1>1 DEF Init
  <2>2. LockOK /\ ExportOK /\ ScheduleOK /\ LoadOK /\ LoadedOK /\ CoverOK /\ AnsweredOK
    BY <1>b, <2>1, ParametersAssumption
       DEF LockOK, Saving, ExportOK, ScheduleOK, LoadOK, LoadedOK, CoverOK, AnsweredOK, Responsible
  <2> QED BY <1>1, <2>2, InitTypeOK DEF IInv
<1>2. ASSUME IInv, Crash
      PROVE  IInv'
  <2>1. pc' = BootPC /\ scheduled' = FALSE /\ fileMutex' = Nobody
    BY <1>2 DEF Crash
  <2>2. (LockOK /\ ExportOK /\ ScheduleOK /\ LoadOK /\ LoadedOK /\ CoverOK /\ AnsweredOK)'
    BY <1>b, <2>1, ParametersAssumption
       DEF LockOK, Saving, ExportOK, ScheduleOK, LoadOK, LoadedOK, CoverOK, AnsweredOK, Responsible
  <2> QED BY <1>2, <2>2, CrashTypeOK DEF IInv
<1> QED BY <1>1, <1>2

\* Every step keeps the invariant.
LEMMA NextIInv ==
    ASSUME IInv, [Next]_vars
    PROVE  IInv'
<1>1. CASE Next
  BY <1>1, NextCases, StepIInv, BootIInv
<1>2. CASE UNCHANGED vars
  <2>1. /\ UNCHANGED <<user, runtime, unsaved, file, fileMutex, mask>>
        /\ UNCHANGED <<initialized, scheduled, disabled, retries, queued, pc, arg, at, attempt>>
        /\ UNCHANGED <<touched, disturbed, why>>
    BY <1>2 DEF vars, layers, storage, autosave, threads, history
  <2>2. TypeOK' /\ ArgOK' /\ LockOK'
    BY <2>1 DEF IInv, TypeOK, ArgOK, LockOK
  <2>3. ExportOK' /\ ScheduleOK' /\ LoadOK' /\ LoadedOK'
    BY <2>1 DEF IInv, ExportOK, ScheduleOK, LoadOK, LoadedOK, Restored, Get, RuntimeDefault
  <2>4. CoverOK' /\ AnsweredOK'
    BY <2>1 DEF IInv, CoverOK, AnsweredOK, Others, Covered, Responsible, FileCurrent,
                Restored, Get, RuntimeDefault
  <2> QED BY <2>2, <2>3, <2>4 DEF IInv
<1> QED BY <1>1, <1>2

\* The invariant holds in every behaviour.
LEMMA Invariance == Spec => []IInv
<1> QED BY BootIInv, NextIInv, PTL DEF Spec

\* Type correctness: every variable keeps its type, and the autosave never
\* counts more retries than it is allowed (ParamAutosave::run).
THEOREM TypeCorrect == Spec => []TypeOK
<1>1. IInv => TypeOK
  BY DEF IInv
<1> QED BY <1>1, Invariance, PTL

\* An export has written the value of every parameter it has passed and that
\* nobody changed since it opened the file (param_export_internal), whatever
\* the other threads do and however saves and loads interleave.
THEOREM ExportsAreFaithful == Spec => []ExportFaithful
<1>1. IInv => ExportFaithful
  BY DEF IInv, ExportOK, ExportFaithful
<1> QED BY <1>1, Invariance, PTL

\* Whenever everything is at rest and no autosave is queued, the file holds the
\* parameters unless a recorded cause left it behind (param_set_internal,
\* ParamAutosave::request and run, param_save_default, param_load_default).
THEOREM NoSaveIsLost == Spec => []NoLostSave
<1>1. ASSUME NEW t \in Threads, Responsible(t)
      PROVE  pc[t] # "idle"
  BY <1>1 DEF Responsible
<1>2. IInv => NoLostSave
  BY <1>1 DEF IInv, AnsweredOK, NoLostSave, SavePending
<1> QED BY <1>2, Invariance, PTL
=============================================================================
