----------------------------- MODULE Parameters -----------------------------
(***************************************************************************)
(* The parameter store and its file (lib/parameters/parameters.cpp,        *)
(* autosave.cpp) and the task that loads it at boot (param_loader.cpp).    *)
(* Clients set, reset, save and load parameters; the autosave worker is a  *)
(* delayable work item.  The layers lock each access to one parameter, the *)
(* file mutex serialises saves, and nothing else is atomic: every step     *)
(* between two of these is an action, and a crash may come between any two *)
(* of them.                                                                *)
(*                                                                         *)
(* Parameters are numbered 1..N, Unset stands for "not in this layer" and, *)
(* in the file, for "no such entry".  Time is abstracted: a delay is over  *)
(* at any moment.  touched, disturbed, why, ops, failures and crashes are  *)
(* history.                                                                *)
(***************************************************************************)
EXTENDS Integers, FiniteSets

CONSTANTS N,            \* param_info_count
          Values,       \* parameter values
          Default,      \* the firmware default of every parameter
          Clients,      \* threads that use the parameters
          Loader,       \* the client that is the ParamLoader task at boot
          Worker,       \* the work queue thread of the autosave
          Unset, Nobody,
          MaxAttempts,  \* MAX_ATTEMPTS of a save or an import (3 in the code)
          MaxRetries,   \* retries of the autosave (3 in the code)
          MaxOps, MaxFailures, MaxCrashes   \* bounds on a behaviour

Params == 1..N
Threads == Clients \cup {Worker}

ASSUME ParametersAssumption ==
    /\ N \in Nat
    /\ Default \in Values
    /\ Unset \notin Values
    /\ Loader \in Clients
    /\ Worker \notin Clients
    /\ Nobody \notin Threads
    /\ MaxAttempts \in Nat \ {0}
    /\ {MaxRetries, MaxOps, MaxFailures, MaxCrashes} \subseteq Nat

VARIABLES
  user,        \* user_config
  runtime,     \* runtime_defaults
  unsaved,     \* params_unsaved
  file,        \* the parameter file: its state and its entries
  fileMutex,   \* the thread that holds file_mutex
  mask,        \* changed_params of the export under way
  initialized, \* ParamLoader made autosave_instance and set param_default_file
  scheduled,   \* ParamAutosave::_scheduled
  disabled,    \* ParamAutosave::_disabled
  retries,     \* ParamAutosave::_retry_count
  queued,      \* the work item is scheduled or queued
  pc,          \* where each thread is
  arg,         \* its param, val and param_changed
  at,          \* its loop over the parameters
  attempt,     \* its loop over the attempts
  touched,     \* parameters changed since the file was opened for the export
  disturbed,   \* loads during which another thread changed a parameter or the file
  why,         \* why the file was left behind the parameters
  ops, failures, crashes

layers == <<user, runtime, unsaved>>
storage == <<file, fileMutex, mask>>
autosave == <<initialized, scheduled, disabled, retries, queued>>
threads == <<pc, arg, at, attempt>>
bounds == <<ops, failures, crashes>>
history == <<touched, disturbed>>
vars == <<layers, storage, autosave, threads, history, why, bounds>>

RuntimeDefault(p) == IF runtime[p] = Unset THEN Default ELSE runtime[p]

Get(p) == IF user[p] = Unset THEN RuntimeDefault(p) ELSE user[p]

\* Mutant of Exported: values are compared with the firmware's defaults.
ExportedNotFirmware(p) == IF Get(p) = Default THEN Unset ELSE user[p]

\* What an export writes for p.
Exported(p) == IF Get(p) = RuntimeDefault(p) THEN Unset ELSE user[p]

\* The value of p once the file is loaded.
Restored(p) == IF file.data[p] = Unset THEN RuntimeDefault(p) ELSE file.data[p]

\* Loading the file would restore the parameters as they are.
FileCurrent == file.state = "whole" /\ \A p \in Params : Restored(p) = Get(p)

Blank == [p \in Params |-> Unset]
NoArg == [param |-> 0, val |-> Default, changed |-> FALSE]

Go(t, l) == pc' = [pc EXCEPT ![t] = l]
-----------------------------------------------------------------------------
BootPC == [t \in Threads |-> IF t = Loader THEN "mount" ELSE "idle"]

\* Power is on: the file is missing, or whole with any entries.
Init ==
    /\ user = Blank
    /\ runtime = Blank
    /\ unsaved = [p \in Params |-> FALSE]
    /\ file \in [state : {"whole"}, data : [Params -> Values \cup {Unset}]]
                \cup {[state |-> "missing", data |-> Blank]}
    /\ fileMutex = Nobody
    /\ mask = {}
    /\ initialized = FALSE
    /\ scheduled = FALSE
    /\ disabled = FALSE
    /\ retries = 0
    /\ queued = FALSE
    /\ pc = BootPC
    /\ arg = [t \in Threads |-> NoArg]
    /\ at = [t \in Threads |-> 1]
    /\ attempt = [t \in Threads |-> 1]
    /\ touched = {}
    /\ disturbed = {}
    /\ why = {}
    /\ ops = 0
    /\ failures = 0
    /\ crashes = 0

\* The memory is lost, and what was exported but is still in the encoder's buffer.
Crash ==
    /\ crashes < MaxCrashes
    /\ crashes' = crashes + 1
    /\ \E k \in IF file.state = "torn" THEN 0..N ELSE {N} :
         file' = [file EXCEPT !.data = [p \in Params |-> IF p <= k THEN @[p] ELSE Unset]]
    /\ user' = Blank
    /\ runtime' = Blank
    /\ unsaved' = [p \in Params |-> FALSE]
    /\ fileMutex' = Nobody
    /\ mask' = {}
    /\ initialized' = FALSE
    /\ scheduled' = FALSE
    /\ disabled' = FALSE
    /\ retries' = 0
    /\ queued' = FALSE
    /\ pc' = BootPC
    /\ arg' = [t \in Threads |-> NoArg]
    /\ at' = [t \in Threads |-> 1]
    /\ attempt' = [t \in Threads |-> 1]
    /\ touched' = {}
    /\ disturbed' = {}
    /\ why' = {}
    /\ UNCHANGED <<ops, failures>>

\* ParamLoader::run finds the card mounted: param_init, param_set_default_file.
ParamInit(t) ==
    /\ pc[t] = "mount"
    /\ initialized' = TRUE
    /\ Go(t, "boot")
    /\ UNCHANGED <<layers, storage, scheduled, disabled, retries, queued, arg, at, attempt,
                   why, bounds>>

\* It waited five seconds in vain, and returns: nothing will ever be saved.
NoCard(t) ==
    /\ pc[t] = "mount"
    /\ why' = why \cup {"no card"}
    /\ Go(t, "idle")
    /\ UNCHANGED <<layers, storage, autosave, arg, at, attempt, bounds>>
-----------------------------------------------------------------------------
(* Setting and resetting parameters                                        *)

Begin(t, l) ==
    /\ t \in Clients
    /\ pc[t] = "idle"
    /\ ops < MaxOps
    /\ ops' = ops + 1
    /\ Go(t, l)
    /\ UNCHANGED <<failures, crashes>>

\* param_set_internal reads the old value ...
ParamSet(t, p, v) ==
    /\ Begin(t, "store")
    /\ arg' = [arg EXCEPT ![t] = [param |-> p, val |-> v, changed |-> Get(p) # v]]
    /\ UNCHANGED <<layers, storage, autosave, at, attempt, why>>

\* ... stores the new one ...
Store(t) ==
    /\ pc[t] = "store"
    /\ user' = [user EXCEPT ![arg[t].param] = arg[t].val]
    /\ why' = IF ~arg[t].changed /\ Get(arg[t].param) # arg[t].val
                THEN why \cup {"stale test"} ELSE why
    /\ Go(t, "mark")
    /\ UNCHANGED <<runtime, unsaved, storage, autosave, arg, at, attempt, bounds>>

\* ... and marks it.
Mark(t) ==
    /\ pc[t] = "mark"
    /\ unsaved' = [unsaved EXCEPT ![arg[t].param] = arg[t].changed]
    /\ Go(t, IF arg[t].changed THEN "request" ELSE "idle")
    /\ UNCHANGED <<user, runtime, storage, autosave, arg, at, attempt, why, bounds>>

\* param_reset_internal
ParamReset(t, p) ==
    /\ Begin(t, "request")
    /\ user' = [user EXCEPT ![p] = Unset]
    /\ UNCHANGED <<runtime, unsaved, storage, autosave, arg, at, attempt, why>>

\* param_reset_all_internal, called by param_reset_all or by param_load
ParamResetAll(t) ==
    /\ Begin(t, "reset all")
    /\ at' = [at EXCEPT ![t] = 1]
    /\ UNCHANGED <<layers, storage, autosave, arg, attempt, why>>

ResetNext(t) ==
    /\ pc[t] \in {"reset all", "reset"}
    /\ at[t] <= N
    /\ user' = [user EXCEPT ![at[t]] = Unset]
    /\ at' = [at EXCEPT ![t] = @ + 1]
    /\ UNCHANGED <<runtime, unsaved, storage, autosave, pc, arg, attempt, why, bounds>>

ResetDone(t) ==
    /\ pc[t] \in {"reset all", "reset"}
    /\ at[t] > N
    /\ Go(t, IF pc[t] = "reset" THEN "import" ELSE "request")
    /\ at' = [at EXCEPT ![t] = 1]
    /\ UNCHANGED <<layers, storage, autosave, arg, attempt, why, bounds>>

\* param_set_default_value: no autosave is requested.
ParamSetDefaultValue(t, p, v) ==
    /\ Begin(t, "idle")
    /\ runtime' = [runtime EXCEPT ![p] = IF v = Default THEN Unset ELSE v]
    /\ UNCHANGED <<user, unsaved, storage, autosave, arg, at, attempt>>
    /\ why' = IF FileCurrent' THEN why ELSE why \cup {"default value"}
-----------------------------------------------------------------------------
(* The autosave                                                            *)

\* param_autosave and ParamAutosave::request
Request(t) ==
    /\ pc[t] = "request"
    /\ Go(t, IF scheduled \/ disabled \/ ~initialized THEN "idle" ELSE "schedule")
    /\ why' = CASE ~initialized -> why \cup {"no autosave"}
               [] initialized /\ disabled -> why \cup {"disabled"}
               [] OTHER -> why
    /\ UNCHANGED <<layers, storage, autosave, arg, at, attempt, bounds>>

Schedule(t) ==
    /\ pc[t] = "schedule"
    /\ scheduled' = TRUE
    /\ Go(t, "queue")
    /\ UNCHANGED <<layers, storage, initialized, disabled, retries, queued, arg, at, attempt,
                   why, bounds>>

Queue(t) ==
    /\ pc[t] = "queue"
    /\ queued' = TRUE
    /\ why' = {}
    /\ Go(t, "idle")
    /\ UNCHANGED <<layers, storage, initialized, scheduled, disabled, retries, arg, at, attempt,
                   bounds>>

\* param_control_autosave and ParamAutosave::enable
Enable(t, enable) ==
    /\ Begin(t, "idle")
    /\ disabled' = IF initialized THEN ~enable ELSE disabled
    /\ scheduled' = (scheduled /\ (enable \/ ~initialized))
    /\ queued' = (queued /\ (enable \/ ~scheduled \/ ~initialized))
    /\ why' = IF queued /\ ~queued' THEN why \cup {"disabled"} ELSE why
    /\ UNCHANGED <<layers, storage, initialized, retries, arg, at, attempt>>

\* Mutant of Run: _scheduled is cleared when the save is over, not before.
RunStillScheduled ==
    /\ queued
    /\ pc[Worker] = "idle"
    /\ queued' = FALSE
    /\ Go(Worker, IF disabled THEN "idle" ELSE "lock")
    /\ why' = IF disabled THEN why \cup {"disabled"} ELSE why
    /\ UNCHANGED <<layers, storage, initialized, scheduled, disabled, retries, arg, at, attempt,
                   bounds>>

\* ParamAutosave::run
Run ==
    /\ queued
    /\ pc[Worker] = "idle"
    /\ queued' = FALSE
    /\ scheduled' = FALSE
    /\ Go(Worker, IF disabled THEN "idle" ELSE "lock")
    /\ why' = IF disabled THEN why \cup {"disabled"} ELSE why
    /\ UNCHANGED <<layers, storage, initialized, disabled, retries, arg, at, attempt, bounds>>

\* Mutants of Retry: the count has no limit; a failed save is forgotten.
RetryForever ==
    /\ pc[Worker] = "failed"
    /\ retries' = retries + 1
    /\ Go(Worker, "request")
    /\ UNCHANGED <<layers, storage, initialized, scheduled, disabled, queued, arg, at, attempt,
                   why, bounds>>

RetryForgotten ==
    /\ pc[Worker] = "failed"
    /\ Go(Worker, "idle")
    /\ UNCHANGED <<layers, storage, autosave, arg, at, attempt, why, bounds>>

\* The save returned an error.
Retry ==
    /\ pc[Worker] = "failed"
    /\ retries' = IF retries < MaxRetries THEN retries + 1 ELSE 0
    /\ Go(Worker, IF retries < MaxRetries THEN "request" ELSE "idle")
    /\ why' = IF retries < MaxRetries THEN why ELSE why \cup {"gave up"}
    /\ UNCHANGED <<layers, storage, initialized, scheduled, disabled, queued, arg, at, attempt,
                   bounds>>
-----------------------------------------------------------------------------
(* param_save_default; the worker does not wait for the mutex              *)

ParamSave(t) ==
    /\ Begin(t, "lock")
    /\ UNCHANGED <<layers, storage, autosave, arg, at, attempt, why>>

Lock(t) ==
    /\ pc[t] = "lock"
    /\ fileMutex = Nobody
    /\ fileMutex' = t
    /\ attempt' = [attempt EXCEPT ![t] = 1]
    /\ Go(t, "open")
    /\ UNCHANGED <<layers, file, mask, autosave, arg, at, why, bounds>>

WouldBlock ==
    /\ pc[Worker] = "lock"
    /\ fileMutex # Nobody
    /\ Go(Worker, "failed")
    /\ UNCHANGED <<layers, storage, autosave, arg, at, attempt, why, bounds>>

\* open(O_TRUNC); param_export_internal notes which parameters are set.
Open(t) ==
    /\ pc[t] = "open"
    /\ initialized
    /\ file' = [state |-> "torn", data |-> Blank]
    /\ mask' = {p \in Params : user[p] # Unset}
    /\ at' = [at EXCEPT ![t] = 1]
    /\ Go(t, "export")
    /\ UNCHANGED <<layers, fileMutex, autosave, arg, attempt, why, bounds>>

\* There is no default file yet, and no flash.
NoDefaultFile(t) ==
    /\ pc[t] = "open"
    /\ ~initialized
    /\ fileMutex' = Nobody
    /\ why' = why \cup {"save failed"}
    /\ Go(t, "idle")
    /\ UNCHANGED <<layers, file, mask, autosave, arg, at, attempt, bounds>>

ExportNext(t) ==
    /\ pc[t] = "export"
    /\ at[t] <= N
    /\ file' = [file EXCEPT !.data[at[t]] = IF at[t] \in mask THEN Exported(at[t]) ELSE Unset]
    /\ at' = [at EXCEPT ![t] = @ + 1]
    /\ UNCHANGED <<layers, fileMutex, mask, autosave, pc, arg, attempt, why, bounds>>

\* bson_encoder_fini writes the size of the document, which makes it valid.
Finish(t) ==
    /\ pc[t] = "export"
    /\ at[t] > N
    /\ file' = [file EXCEPT !.state = "whole"]
    /\ Go(t, "saved")
    /\ UNCHANGED <<layers, fileMutex, mask, autosave, arg, at, attempt, why, bounds>>

\* The file cannot be opened or written.
Fail(t) ==
    /\ pc[t] \in {"open", "export"}
    /\ initialized
    /\ failures < MaxFailures
    /\ failures' = failures + 1
    /\ IF attempt[t] < MaxAttempts
         THEN /\ attempt' = [attempt EXCEPT ![t] = @ + 1]
              /\ Go(t, "open")
              /\ UNCHANGED <<fileMutex, why>>
         ELSE /\ fileMutex' = Nobody
              /\ Go(t, IF t = Worker THEN "failed" ELSE "idle")
              /\ why' = IF t = Worker THEN why ELSE why \cup {"save failed"}
              /\ UNCHANGED attempt
    /\ UNCHANGED <<layers, file, mask, autosave, arg, at, ops, crashes>>

\* Every mark is cleared, also those made during the export.
Saved(t) ==
    /\ pc[t] = "saved"
    /\ unsaved' = [p \in Params |-> FALSE]
    /\ fileMutex' = Nobody
    /\ retries' = IF t = Worker THEN 0 ELSE retries
    /\ Go(t, "idle")
    /\ UNCHANGED <<user, runtime, file, mask, initialized, scheduled, disabled, queued,
                   arg, at, attempt, why, bounds>>
-----------------------------------------------------------------------------
(* param_load_default, by a client or at boot; it does not take file_mutex *)

ParamLoad(t) ==
    /\ Begin(t, "load")
    /\ UNCHANGED <<layers, storage, autosave, arg, at, attempt, why>>

\* Without a file, ParamLoader saves one; before it has named one, a load fails.
LoadMissing(t) ==
    /\ pc[t] \in {"load", "boot"}
    /\ file.state = "missing" \/ ~initialized
    /\ Go(t, IF pc[t] = "boot" THEN "lock" ELSE "idle")
    /\ UNCHANGED <<layers, storage, autosave, arg, at, attempt, why, bounds>>

LoadOpen(t) ==
    /\ pc[t] \in {"load", "boot"}
    /\ file.state # "missing"
    /\ initialized
    /\ Go(t, "reset")
    /\ at' = [at EXCEPT ![t] = 1]
    /\ attempt' = [attempt EXCEPT ![t] = 1]
    /\ UNCHANGED <<layers, storage, autosave, arg, why, bounds>>

\* The next entry of the file; param_import_callback stores it as saved.
Import(t) ==
    /\ pc[t] = "import"
    /\ \E p \in at[t]..N :
         /\ file.data[p] # Unset
         /\ \A q \in at[t]..p - 1 : file.data[q] = Unset
         /\ user' = [user EXCEPT ![p] = file.data[p]]
         /\ unsaved' = [unsaved EXCEPT ![p] = FALSE]
         /\ at' = [at EXCEPT ![t] = p + 1]
    /\ UNCHANGED <<runtime, storage, autosave, pc, arg, attempt, why, bounds>>

\* The document does not end as it should: torn, or rewritten meanwhile.
ImportAgain(t) ==
    /\ pc[t] = "import"
    /\ file.state = "torn" \/ fileMutex # Nobody
    /\ attempt[t] < MaxAttempts
    /\ attempt' = [attempt EXCEPT ![t] = @ + 1]
    /\ at' = [at EXCEPT ![t] = 1]
    /\ UNCHANGED <<layers, storage, autosave, pc, arg, why, bounds>>

ImportDone(t) ==
    /\ pc[t] = "import"
    /\ file.state = "torn" \/ \A p \in at[t]..N : file.data[p] = Unset
    /\ Go(t, "idle")
    /\ why' = IF file.state = "torn" \/ t \in disturbed THEN why \cup {"load"} ELSE why
    /\ UNCHANGED <<layers, storage, autosave, arg, at, attempt, bounds>>
-----------------------------------------------------------------------------
Progress(t) ==
    \/ ParamInit(t) \/ NoCard(t)
    \/ Store(t) \/ Mark(t) \/ ResetNext(t) \/ ResetDone(t)
    \/ Request(t) \/ Schedule(t) \/ Queue(t)
    \/ Lock(t) \/ Open(t) \/ NoDefaultFile(t) \/ ExportNext(t) \/ Finish(t) \/ Saved(t)
    \/ LoadMissing(t) \/ LoadOpen(t) \/ Import(t) \/ ImportDone(t)

Call(t) ==
    \/ \E p \in Params, v \in Values : ParamSet(t, p, v) \/ ParamSetDefaultValue(t, p, v)
    \/ \E p \in Params : ParamReset(t, p)
    \/ \E b \in BOOLEAN : Enable(t, b)
    \/ ParamResetAll(t) \/ ParamSave(t) \/ ParamLoad(t)

Work == Progress(Worker) \/ Run \/ Retry \/ WouldBlock

Changed == {p \in Params : user'[p] # user[p] \/ runtime'[p] # runtime[p]}

\* What a step of t means for the exports and loads under way.
Noted(t) ==
    /\ touched' = IF pc[t] = "open" /\ pc'[t] = "export" THEN {} ELSE touched \cup Changed
    /\ disturbed' = {u \in Threads :
                        /\ pc'[u] \in {"reset", "import"}
                        /\ u \in disturbed \/ (u # t /\ (Changed # {} \/ file' # file))}

Next ==
    \/ \E t \in Clients : (Progress(t) \/ Call(t) \/ Fail(t) \/ ImportAgain(t)) /\ Noted(t)
    \/ (Work \/ Fail(Worker)) /\ Noted(Worker)
    \/ Crash

Spec == Init /\ [][Next]_vars

\* Threads go on with what they have begun, and the worker runs queued work.
Fairness ==
    /\ \A t \in Clients : WF_vars(Progress(t) /\ Noted(t))
    /\ WF_vars(Work /\ Noted(Worker))

FairSpec == Spec /\ Fairness
-----------------------------------------------------------------------------
(* Properties                                                              *)

\* Every variable keeps its type; the retries of the autosave are bounded.
TypeOK ==
    /\ user \in [Params -> Values \cup {Unset}]
    /\ runtime \in [Params -> Values \cup {Unset}]
    /\ unsaved \in [Params -> BOOLEAN]
    /\ file \in [state : {"missing", "torn", "whole"}, data : [Params -> Values \cup {Unset}]]
    /\ fileMutex \in Threads \cup {Nobody}
    /\ mask \subseteq Params
    /\ {initialized, scheduled, disabled, queued} \subseteq BOOLEAN
    /\ retries \in 0..MaxRetries
    /\ pc \in [Threads -> {"mount", "boot", "idle", "store", "mark", "request", "schedule", "queue",
                           "lock", "open", "export", "saved", "failed",
                           "load", "reset all", "reset", "import"}]
    /\ arg \in [Threads -> [param : 0..N, val : Values, changed : BOOLEAN]]
    /\ at \in [Threads -> 1..N + 1]
    /\ attempt \in [Threads -> 1..MaxAttempts]
    /\ touched \subseteq Params
    /\ disturbed \subseteq Threads
    /\ why \subseteq {"stale test", "default value", "no card", "no autosave", "disabled",
                      "gave up", "save failed", "load"}

\* A save, a change or a load is under way, or the autosave will come.
SavePending == queued \/ \E t \in Threads : pc[t] # "idle"

\* Whenever everything is at rest and no autosave is queued, the file holds the
\* parameters, unless one of the recorded causes left it behind.
NoLostSave == FileCurrent \/ why # {} \/ SavePending

\* An export has written the value of every parameter it has passed and that
\* nobody changed since it opened the file: a save that returns 0 covers every
\* change made before it.
ExportFaithful ==
    \A t \in Threads :
        pc[t] \in {"export", "saved"} =>
            \A p \in Params \ touched : p < at[t] => Restored(p) = Get(p)

\* Changes reach the file: it becomes current unless a recorded cause stops it.
ChangesAreSaved == ~FileCurrent ~> FileCurrent \/ why # {}
=============================================================================
