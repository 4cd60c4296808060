----------------------------- MODULE ManagedContext -----------------------------
(***************************************************************************)
(* runtime.mod/native/esp32_runtime.c, as built for two cores: the task    *)
(* that owns the managed arena, the worker that the collector's runtime    *)
(* starts on core 1, and which tasks may run managed code.                 *)
(*                                                                         *)
(* The runtime is another repository's.  Its program calls from one task,  *)
(* "main"; "other" stands for the tasks of ESP-IDF on the same core, which *)
(* only dispatch callbacks; the worker's entry binds itself, works,        *)
(* unbinds itself and returns.  Counters of refused calls are left out.    *)
(***************************************************************************)
EXTENDS Naturals, FiniteSets

CONSTANTS
  Entries,  \* the functions a worker is started with
  NoEntry

ASSUME ContextAssumption == NoEntry \notin Entries

VARIABLES
  ctx,       \* owner_task, worker_task, lifecycle_task, lifecycle_entry
  ctxArena,  \* whether the arena is there
  ctxApp,    \* main: "idle", or where it is in a call
  ctxBound,  \* acquire's owner_already_bound
  ctxAsked,  \* the entry of the worker_start that made the worker
  ctxCalled, \* tasks in a managed callback
  wrk        \* the worker's task: where it is, the entry it runs

ctxVars == <<ctx, ctxArena, ctxApp, ctxBound, ctxAsked, ctxCalled, wrk>>

NoTask == "none"
NoWorker == [at |-> "none", runs |-> NoEntry]
Tasks == {"main", "other", "worker"}

CoreOf(task) == IF task = "worker" THEN 1 ELSE 0
Exists(task) == task = "worker" => wrk.at # "none"

----------------------------------------------------------------------------
(* bmx_esp32_managed_context_valid, managed_gc_context_index: 2 is none.   *)

ContextValid(task) ==
  \/ CoreOf(task) = 0 /\ ctx.owner \in {NoTask, task}
  \/ ctx.worker = task

ContextIndex(task) ==
  IF CoreOf(task) = 0 /\ ctx.owner \in {NoTask, task} THEN 0
  ELSE IF ctx.worker = task THEN 1 ELSE 2

----------------------------------------------------------------------------
(* bmx_esp32_managed_arena_acquire of an arena that is not there yet.      *)

ArenaAcquire ==
  /\ ctxApp = "idle" /\ ~ctxArena
  /\ ContextValid("main")
  /\ ctxBound' = (ctx.owner # NoTask)
  /\ ctx' = [ctx EXCEPT !.owner = "main"]
  /\ ctxApp' = "allocating"
  /\ UNCHANGED <<ctxArena, ctxAsked, ctxCalled, wrk>>

ArenaAllocated ==
  /\ ctxApp = "allocating"
  /\ ctxArena' = TRUE
  /\ ctxApp' = "idle"
  /\ UNCHANGED <<ctx, ctxBound, ctxAsked, ctxCalled, wrk>>

\* Fault: no arena, no owner, as in the build for one core.
Fault_ArenaFails ==
  /\ ctxApp = "allocating"
  /\ ctx' = [ctx EXCEPT !.owner = NoTask]
  /\ ctxApp' = "idle"
  /\ UNCHANGED <<ctxArena, ctxBound, ctxAsked, ctxCalled, wrk>>

\* No such memory, or no PSRAM.
ArenaFails ==
  /\ ctxApp = "allocating"
  /\ ctx' = [ctx EXCEPT !.owner = IF ctxBound THEN @ ELSE NoTask]
  /\ ctxApp' = "idle"
  /\ UNCHANGED <<ctxArena, ctxBound, ctxAsked, ctxCalled, wrk>>

----------------------------------------------------------------------------
(* bmx_esp32_managed_gc_bind, gc_unbind. *)

BindOwner ==
  /\ ctxApp = "idle"
  /\ ctx.owner \in {NoTask, "main"}
  /\ ctx' = [ctx EXCEPT !.owner = "main"]
  /\ UNCHANGED <<ctxArena, ctxApp, ctxBound, ctxAsked, ctxCalled, wrk>>

BindWorker ==
  /\ wrk.at = "entry"
  /\ ctx.owner \notin {NoTask, "worker"} /\ ctx.worker = NoTask
  /\ ctx' = [ctx EXCEPT !.worker = "worker"]
  /\ UNCHANGED <<ctxArena, ctxApp, ctxBound, ctxAsked, ctxCalled, wrk>>

\* Fault: the worker stays bound.
Fault_Unbind ==
  /\ wrk.at = "entry" /\ ctx.worker = "worker"
  /\ wrk' = [wrk EXCEPT !.at = "unbound"]
  /\ UNCHANGED <<ctx, ctxArena, ctxApp, ctxBound, ctxAsked, ctxCalled>>

Unbind ==
  /\ wrk.at = "entry" /\ ctx.worker = "worker"
  /\ ctx' = [ctx EXCEPT !.worker = NoTask]
  /\ wrk' = [wrk EXCEPT !.at = "unbound"]
  /\ UNCHANGED <<ctxArena, ctxApp, ctxBound, ctxAsked, ctxCalled>>

----------------------------------------------------------------------------
(* The worker's life: bmx_esp32_managed_gc_worker_start, gc_worker_join.   *)

WorkerStart(entry) ==
  /\ ctxApp = "idle"
  /\ ctx.owner = "main" /\ ~ctx.lifecycle
  /\ ctx' = [ctx EXCEPT !.entry = entry]
  /\ ctxAsked' = entry
  /\ ctxApp' = "creating"
  /\ UNCHANGED <<ctxArena, ctxBound, ctxCalled, wrk>>

\* The worker runs at once, on its core.
WorkerCreated ==
  /\ ctxApp = "creating"
  /\ wrk' = [at |-> "created", runs |-> NoEntry]
  /\ ctxApp' = "recording"
  /\ UNCHANGED <<ctx, ctxArena, ctxBound, ctxAsked, ctxCalled>>

CreateFails ==
  /\ ctxApp = "creating"
  /\ ctxApp' = "idle"
  /\ UNCHANGED <<ctx, ctxArena, ctxBound, ctxAsked, ctxCalled, wrk>>

WorkerRecorded ==
  /\ ctxApp = "recording"
  /\ ctx' = [ctx EXCEPT !.lifecycle = TRUE]
  /\ ctxApp' = "idle"
  /\ UNCHANGED <<ctxArena, ctxBound, ctxAsked, ctxCalled, wrk>>

\* bmx_esp32_managed_worker_trampoline
Trampoline ==
  /\ wrk.at = "created"
  /\ wrk' = [at |-> "entry", runs |-> ctx.entry]
  /\ UNCHANGED <<ctx, ctxArena, ctxApp, ctxBound, ctxAsked, ctxCalled>>

EntryReturns ==
  /\ wrk.at = "unbound" /\ "worker" \notin ctxCalled
  /\ wrk' = [wrk EXCEPT !.at = "suspended"]
  /\ UNCHANGED <<ctx, ctxArena, ctxApp, ctxBound, ctxAsked, ctxCalled>>

\* Fault: the worker is deleted wherever it is.
Fault_WorkerJoin ==
  /\ ctxApp = "idle"
  /\ ctx.owner = "main" /\ ctx.lifecycle
  /\ wrk' = NoWorker
  /\ ctxApp' = "joining"
  /\ UNCHANGED <<ctx, ctxArena, ctxBound, ctxAsked, ctxCalled>>

WorkerJoin ==
  /\ ctxApp = "idle"
  /\ ctx.owner = "main" /\ ctx.lifecycle
  /\ wrk.at = "suspended"
  /\ wrk' = NoWorker
  /\ ctxApp' = "joining"
  /\ UNCHANGED <<ctx, ctxArena, ctxBound, ctxAsked, ctxCalled>>

WorkerJoined ==
  /\ ctxApp = "joining"
  /\ ctx' = [ctx EXCEPT !.lifecycle = FALSE]
  /\ ctxApp' = "idle"
  /\ UNCHANGED <<ctxArena, ctxBound, ctxAsked, ctxCalled, wrk>>

----------------------------------------------------------------------------
(* bmx_esp32_managed_callback_dispatch: the callback may itself call all   *)
(* of the above; other tasks and the worker are refused.                   *)

CanCall(task) ==
  CASE task = "main" -> ctxApp = "idle"
    [] task = "other" -> TRUE
    [] task = "worker" -> wrk.at \in {"entry", "unbound"}

\* Fault: any valid context will do, also the worker's.
Fault_CallbackDispatch(task) ==
  /\ CanCall(task) /\ task \notin ctxCalled
  /\ ctx.owner # NoTask /\ ContextValid(task)
  /\ ctxCalled' = ctxCalled \cup {task}
  /\ UNCHANGED <<ctx, ctxArena, ctxApp, ctxBound, ctxAsked, wrk>>

CallbackDispatch(task) ==
  /\ CanCall(task) /\ task \notin ctxCalled
  /\ ContextValid(task) /\ ctx.owner = task
  /\ ctxCalled' = ctxCalled \cup {task}
  /\ UNCHANGED <<ctx, ctxArena, ctxApp, ctxBound, ctxAsked, wrk>>

CallbackEnds(task) ==
  /\ CanCall(task) /\ task \in ctxCalled
  /\ ctxCalled' = ctxCalled \ {task}
  /\ UNCHANGED <<ctx, ctxArena, ctxApp, ctxBound, ctxAsked, wrk>>

----------------------------------------------------------------------------
ContextInit ==
  /\ ctx = [owner |-> NoTask, worker |-> NoTask, lifecycle |-> FALSE,
            entry |-> NoEntry]
  /\ ctxArena = FALSE /\ ctxApp = "idle" /\ ctxBound = FALSE
  /\ ctxAsked = NoEntry /\ ctxCalled = {}
  /\ wrk = NoWorker

ContextNext ==
  \/ ArenaAcquire \/ ArenaAllocated \/ ArenaFails
  \/ BindOwner \/ BindWorker \/ Unbind
  \/ \E entry \in Entries : WorkerStart(entry)
  \/ WorkerCreated \/ CreateFails \/ WorkerRecorded
  \/ Trampoline \/ EntryReturns \/ WorkerJoin \/ WorkerJoined
  \/ \E task \in Tasks : CallbackDispatch(task) \/ CallbackEnds(task)

----------------------------------------------------------------------------
(* Properties. *)

\* The state is of the types the code declares.
ContextTypeOK ==
  /\ ctx \in [owner : Tasks \cup {NoTask}, worker : Tasks \cup {NoTask},
              lifecycle : BOOLEAN, entry : Entries \cup {NoEntry}]
  /\ ctxArena \in BOOLEAN /\ ctxBound \in BOOLEAN
  /\ ctxApp \in {"idle", "allocating", "creating", "recording", "joining"}
  /\ ctxAsked \in Entries \cup {NoEntry} /\ ctxCalled \subseteq Tasks
  /\ wrk \in [at : {"none", "created", "entry", "unbound", "suspended"},
              runs : Entries \cup {NoEntry}]

\* The arena, a worker and a callback all have the owner behind them, whatever
\* allocations have failed meanwhile; no two tasks have one collector context;
\* and the task that is bound as the worker is there and has not returned.
\* Only the owner is in a callback.
ContextKept ==
  /\ ctxArena \/ ctx.lifecycle \/ wrk.at # "none" \/ ctxCalled # {}
       => ctx.owner = "main"
  /\ ctx.owner # NoTask =>
       \A i \in {0, 1} :
         Cardinality({task \in Tasks : Exists(task) /\ ContextIndex(task) = i}) <= 1
  /\ ctx.worker # NoTask => wrk.at = "entry"
  /\ ctxCalled \subseteq {ctx.owner}

\* Each worker runs the entry it was started with, also right after a join
\* (worker_start stores the entry before it makes the task, and not while an
\* earlier one is there); it is known until it is deleted.
WorkerKept ==
  /\ wrk.runs \in {NoEntry, ctxAsked}
  /\ wrk.at # "none" => ctx.lifecycle \/ ctxApp = "recording"
=============================================================================
