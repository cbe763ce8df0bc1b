-------------------------- MODULE BtRtosAdaptation --------------------------
(***************************************************************************)
(* The Bluetooth stack's adaptation to the RTOS                            *)
(* (sl_bt_rtos_adaptation.c). A BGAPI command takes the BGAPI mutex, is    *)
(* left in three globals and executed by the Bluetooth thread. Events      *)
(* travel the other way in one buffer, which the Bluetooth thread fills    *)
(* only after the event handler thread has said that it is done with it.   *)
(* The stack is started and stopped on demand.                             *)
(*                                                                         *)
(* Every access to what two threads share is an action of its own, and any *)
(* thread may run between two of them: nothing here rests on priorities.   *)
(***************************************************************************)
EXTENDS Naturals, Sequences, FiniteSets

CONSTANTS
  Tasks,       \* application tasks that call commands
  Starters, Stoppers,  \* those that may start and stop the stack
  Commands,    \* commands other than start and stop
  Events,      \* the stack's events
  MaxPending,  \* bound: events that wait in the stack's queue
  Failures,    \* whether starting may fail
  None

\* The event handler thread calls commands too, and so does a Bluetooth thread that
\* failed to start, in the application's handler of the error event.
Handler == "event handler"
Retired == "retired"
Bluetooth == "bluetooth"
Callers == Tasks \cup {Handler, Retired}

ASSUME ConstantsAssumption ==
  /\ Starters \subseteq Callers /\ Stoppers \subseteq Callers
  /\ MaxPending \in Nat \ {0} /\ Failures \in BOOLEAN
  /\ None \notin Callers \cup Commands \cup Events \cup {Bluetooth, "system_error", "start", "stop"}
  /\ {Handler, Retired, Bluetooth} \cap Tasks = {}
  /\ {"start", "stop"} \cap Commands = {} /\ "system_error" \notin Events

VARIABLES
  state,      \* bluetooth_state_flags
  objects,    \* which of the RTOS objects of the stack exist
  tid,        \* whether tid_thread_bluetooth is set
  threads,    \* which of the stack's other threads exist
  flags,      \* bluetooth_event_flags
  command,    \* command_header, command_handler_func and command_data
  evt,        \* bluetooth_evt_instance
  mutex,      \* the owner of bgapi_mutex_id
  recursion,  \* bgapi_command_recursion_count
  \* a command: where it is, what it is, what it returned, and the message in which
  \* the command's payload and its response are
  call, argument, result, message,
  \* the Bluetooth thread: where it is, its local flags, the command it executes,
  \* whether it failed to start, the events that the stack has for it
  bt, local, serving, failed, pending,
  \* the event handler thread, the event that the application handles, and a
  \* Bluetooth thread on its way out
  handler, handling, retired

lockVars == <<mutex, recursion>>
callVars == <<command, call, argument, result, message>>
lifeVars == <<state, objects, tid, threads, failed, retired>>
eventVars == <<evt, pending, handler, handling>>
btVars == <<bt, local, serving>>
vars == <<lockVars, callVars, lifeVars, eventVars, btVars, flags>>

StateFlags == {"KERNEL_STARTED", "STARTING", "STARTED", "STOPPING"}
Flags == {"STACK", "LL", "CMD_WAITING", "RSP_WAITING", "EVT_WAITING", "EVT_HANDLED",
          "STOPPED"}
Awaited == {"STACK", "EVT_HANDLED", "CMD_WAITING", "STOPPED"}
Kept == Awaited \ {"STACK"}  \* nobody looks at the local copy of STACK

Arguments == Commands \cup {"stop"}
Message == [kind : {"command", "response"}, of : Callers \cup {Bluetooth},
            argument : Arguments]
Nothing == [kind |-> "nothing", of |-> None, argument |-> None]

\* Threads run once the kernel does.
Running == "KERNEL_STARTED" \in state
Idle == {"STARTING", "STARTED", "STOPPING"} \cap state = {}

\* What the stack allows a command to do, once it has the lock.
Available == "STARTED" \in state /\ "STOPPING" \notin state

-----------------------------------------------------------------------------
Init ==
  /\ state = {} /\ objects = {} /\ tid = FALSE /\ threads = {} /\ flags = {}
  /\ command = Nothing /\ evt = None
  /\ mutex = None /\ recursion = 0
  /\ call = [t \in Callers |-> "none"] /\ argument = [t \in Callers |-> None]
  /\ result = [t \in Callers |-> None] /\ message = Nothing
  /\ bt = "none" /\ local = {} /\ serving = Nothing /\ failed = FALSE /\ pending = <<>>
  /\ handler = "gone" /\ handling = None /\ retired = "none"

\* start_rtos_adaptation(): refused, not needed, out of memory, or begun.
StartAdaptation ==
  \/ UNCHANGED <<state, objects, flags, bt>>
  \/ /\ Idle
     /\ objects' = {"event flags", "mutex"} /\ flags' = {}
     /\ state' = state \cup {"STARTING"}
     /\ bt' = "created"

\* app_init() starts the stack before the kernel is started.
AppInit ==
  /\ ~Running
  /\ StartAdaptation
  /\ UNCHANGED <<lockVars, callVars, tid, threads, failed, retired, eventVars, local,
                 serving>>

KernelStart ==
  /\ ~Running
  /\ state' = state \cup {"KERNEL_STARTED"}
  /\ UNCHANGED <<lockVars, callVars, objects, tid, threads, failed, retired, eventVars,
                 btVars, flags>>

-----------------------------------------------------------------------------
(* A BGAPI command by a thread other than the Bluetooth thread.            *)

\* The event handler and the retired thread call commands from the application's
\* event handler. An application starts the stack when it knows that it is not there.
MayCall(t) ==
  /\ Running
  /\ t = Handler => handler = "handle"
  /\ t = Retired => retired = "process"

MayStart(t) ==
  /\ t \in Starters /\ bt = "none"
  /\ retired = "none" \/ t = Retired
  /\ \A u \in Callers : argument[u] # "start"

Begin(t) ==
  /\ call[t] = "none" /\ MayCall(t)
  /\ \E c \in Arguments \cup {"start"} :
       /\ c = "start" => MayStart(t)
       /\ c = "stop" => t \in Stoppers
       /\ argument' = [argument EXCEPT ![t] = c]
  /\ call' = [call EXCEPT ![t] = "lock"]
  /\ UNCHANGED <<lockVars, command, result, message, lifeVars, eventVars, btVars, flags>>

\* A step of a call, from one place to the next.
Calls(t, from, to) == call[t] = from /\ call' = [call EXCEPT ![t] = to]

\* Bug: the mutex is not waited for.
LockAnyway(t) ==
  /\ Calls(t, "lock", "count")
  /\ mutex' = t
  /\ UNCHANGED <<recursion, command, argument, result, message, lifeVars, eventVars,
                 btVars, flags>>

\* sli_bgapi_lock(): at once or after a wait.
Lock(t) ==
  /\ Calls(t, "lock", "count")
  /\ mutex = None
  /\ mutex' = t
  /\ UNCHANGED <<recursion, command, argument, result, message, lifeVars, eventVars,
                 btVars, flags>>

\* The rest of sli_bgapi_lock(). A command that the stack is not there for returns.
Count(t) ==
  /\ \/ argument[t] = "start" /\ Calls(t, "count", "start")
     \/ argument[t] # "start" /\ Available /\ Calls(t, "count", "delegate")
     \/ argument[t] # "start" /\ ~Available /\ Calls(t, "count", "unlock")
  /\ recursion' = recursion + 1
  /\ UNCHANGED <<mutex, command, argument, result, message, lifeVars, eventVars, btVars,
                 flags>>

\* sli_bt_start_rtos_adaptation()
Start(t) ==
  /\ Calls(t, "start", "unlock")
  /\ StartAdaptation
  /\ UNCHANGED <<lockVars, command, argument, result, message, tid, threads, failed,
                 retired, eventVars, local, serving>>

\* sli_bt_cmd_handler_rtos_delegate(): the three globals.
Delegate(t) ==
  /\ Calls(t, "delegate", "signal")
  /\ command' = [kind |-> "command", of |-> t, argument |-> argument[t]]
  /\ message' = command'
  /\ UNCHANGED <<lockVars, argument, result, lifeVars, eventVars, btVars, flags>>

Signal(t) ==
  /\ Calls(t, "signal", "pend")
  /\ flags' = IF "event flags" \in objects THEN flags \cup {"CMD_WAITING"} ELSE flags
  /\ UNCHANGED <<lockVars, command, argument, result, message, lifeVars, eventVars,
                 btVars>>

\* Bug: the wait for the response may time out.
PendBriefly(t) ==
  /\ Calls(t, "pend", "fetch")
  /\ flags' = flags \ {"RSP_WAITING"}
  /\ UNCHANGED <<lockVars, command, argument, result, message, lifeVars, eventVars,
                 btVars>>

\* The wait for the response. It fails when the flags are gone.
Pend(t) ==
  /\ Calls(t, "pend", "fetch")
  /\ "RSP_WAITING" \in flags \/ "event flags" \notin objects
  /\ flags' = flags \ {"RSP_WAITING"}
  /\ UNCHANGED <<lockVars, command, argument, result, message, lifeVars, eventVars,
                 btVars>>

\* The command reads its response.
Fetch(t) ==
  /\ Calls(t, "fetch", "unlock")
  /\ result' = [result EXCEPT ![t] = message.argument]
  /\ UNCHANGED <<lockVars, command, argument, message, lifeVars, eventVars, btVars, flags>>

\* sli_bgapi_unlock(): the count, and the mutex when the outermost command ends.
Unlock(t) ==
  /\ recursion' = recursion - 1
  /\ \/ recursion = 1 /\ Calls(t, "unlock", "release") /\ UNCHANGED <<argument, result>>
     \/ /\ recursion > 1 /\ Calls(t, "unlock", "none")
        /\ argument' = [argument EXCEPT ![t] = None]
        /\ result' = [result EXCEPT ![t] = None]
  /\ UNCHANGED <<mutex, command, message, lifeVars, eventVars, btVars, flags>>

Release(t) ==
  /\ Calls(t, "release", "none")
  /\ mutex' = IF mutex = t THEN None ELSE mutex
  /\ argument' = [argument EXCEPT ![t] = None]
  /\ result' = [result EXCEPT ![t] = None]
  /\ UNCHANGED <<recursion, command, message, lifeVars, eventVars, btVars, flags>>

Proceed(t) ==
  \/ Lock(t) \/ Count(t) \/ Start(t) \/ Delegate(t) \/ Signal(t) \/ Pend(t) \/ Fetch(t)
  \/ Unlock(t) \/ Release(t)

-----------------------------------------------------------------------------
(* The Bluetooth thread.                                                   *)

At(place) == Running /\ bt = place
Goes(place) == bt' = place

\* Bound: one thread at a time on its way out.
MayFail == Failures /\ retired = "none"

BtCreates ==
  /\ At("created")
  /\ tid' = TRUE
  /\ \/ /\ threads' = {"link layer", "event handler"} /\ handler' = "wait"
        /\ local' = {"EVT_HANDLED"} /\ failed' = FALSE
        /\ Goes("start")
     \/ /\ MayFail
        /\ threads' \in {{}, {"link layer"}} /\ UNCHANGED handler
        /\ local' = {"EVT_HANDLED", "STOPPED"} /\ failed' = TRUE
        /\ Goes("loop")
  /\ UNCHANGED <<lockVars, callVars, state, objects, retired, evt, pending, handling,
                 serving, flags>>

\* Bug: a failed start does not end the loop.
BtStartsRegardless ==
  /\ At("start") /\ Goes("loop")
  /\ \/ state' = (state \ {"STARTING"}) \cup {"STARTED"} /\ UNCHANGED failed
     \/ MayFail /\ failed' = TRUE /\ UNCHANGED state
  /\ UNCHANGED <<lockVars, callVars, objects, tid, threads, retired, eventVars, local,
                 serving, flags>>

\* sli_bt_system_start_bluetooth()
BtStarts ==
  /\ At("start") /\ Goes("loop")
  /\ \/ /\ state' = (state \ {"STARTING"}) \cup {"STARTED"}
        /\ UNCHANGED <<failed, local>>
     \/ /\ MayFail
        /\ failed' = TRUE /\ local' = local \cup {"STOPPED"}
        /\ UNCHANGED state
  /\ UNCHANGED <<lockVars, callVars, objects, tid, threads, retired, eventVars, serving,
                 flags>>

\* The loop: it ends, or a command waits, or none does.
BtTakesCommand ==
  /\ At("loop") /\ Goes("serve")
  /\ "STOPPED" \notin local /\ "CMD_WAITING" \in local
  /\ serving' = command
  /\ UNCHANGED <<lockVars, callVars, lifeVars, eventVars, local, flags>>

BtTakesNone ==
  /\ At("loop") /\ Goes("run")
  /\ {"STOPPED", "CMD_WAITING"} \cap local = {}
  /\ UNCHANGED <<lockVars, callVars, lifeVars, eventVars, local, serving, flags>>

\* A command's handler may call a command itself: the mutex is taken already, by
\* whoever waits for the command, and only counted.
NestLock ==
  /\ At("serve") /\ Goes("nested")
  /\ mutex' = IF mutex = None THEN Bluetooth ELSE mutex
  /\ recursion' = recursion + 1
  /\ UNCHANGED <<callVars, lifeVars, eventVars, local, serving, flags>>

NestDelegate ==
  /\ At("nested") /\ Goes("unnest")
  /\ \E c \in Commands :
       command' = [kind |-> "command", of |-> Bluetooth, argument |-> c]
  /\ UNCHANGED <<lockVars, call, argument, result, message, lifeVars, eventVars, local,
                 serving, flags>>

\* Bug: the nested command gives the mutex back.
NestRelease ==
  /\ At("unnest") /\ Goes("serve")
  /\ recursion' = recursion - 1
  /\ mutex' = None
  /\ UNCHANGED <<callVars, lifeVars, eventVars, local, serving, flags>>

NestUnlock ==
  /\ At("unnest") /\ Goes("serve")
  /\ recursion' = recursion - 1
  /\ mutex' = IF recursion = 1 /\ mutex = Bluetooth THEN None ELSE mutex
  /\ UNCHANGED <<callVars, lifeVars, eventVars, local, serving, flags>>

\* The command is executed. sli_bt_prepare_to_stop_rtos_adaptation() is in the
\* handler of the stop command.
BtServes ==
  /\ At("serve") /\ Goes("served")
  /\ message' = [serving EXCEPT !.kind = "response"]
  /\ state' = IF serving.argument = "stop" THEN state \cup {"STOPPING"} ELSE state
  /\ UNCHANGED <<lockVars, command, call, argument, result, objects, tid, threads,
                 failed, retired, eventVars, local, serving, flags>>

BtForgets ==
  /\ At("served") /\ Goes("respond")
  /\ command' = Nothing /\ serving' = Nothing
  /\ local' = local \ {"CMD_WAITING"}
  /\ UNCHANGED <<lockVars, call, argument, result, message, lifeVars, eventVars, flags>>

BtResponds ==
  /\ At("respond") /\ Goes("run")
  /\ flags' = flags \cup {"RSP_WAITING"}
  /\ UNCHANGED <<lockVars, callVars, lifeVars, eventVars, local, serving>>

\* sl_bt_run() has an event for the application.
BtRaises ==
  /\ At("run") /\ Available /\ Len(pending) < MaxPending
  /\ \E e \in Events : pending' = Append(pending, e)
  /\ UNCHANGED <<lockVars, callVars, lifeVars, evt, handler, handling, btVars, flags>>

\* sl_bt_run(), or the stop command itself, has stopped the stack:
\* sli_bt_stop_rtos_adaptation().
BtStopped ==
  /\ bt \in {"run", "served"} /\ "STOPPING" \in state
  /\ "STOPPED" \notin flags \cup local
  /\ flags' = flags \cup {"STOPPED"}
  /\ pending' = <<>>
  /\ UNCHANGED <<lockVars, callVars, lifeVars, evt, handler, handling, btVars>>

\* Bug: an event is popped whether or not the last one is handled.
BtPopsAnyway ==
  /\ At("run") /\ Goes("hand")
  /\ pending # <<>>
  /\ evt' = Head(pending) /\ pending' = Tail(pending)
  /\ UNCHANGED <<lockVars, callVars, lifeVars, handler, handling, local, serving, flags>>

BtPops ==
  /\ At("run") /\ Goes("hand")
  /\ "EVT_HANDLED" \in local /\ pending # <<>>
  /\ evt' = Head(pending) /\ pending' = Tail(pending)
  /\ UNCHANGED <<lockVars, callVars, lifeVars, handler, handling, local, serving, flags>>

BtFailsToPop ==
  /\ At("run") /\ Goes("loop")
  /\ "EVT_HANDLED" \in local /\ pending # <<>>
  /\ UNCHANGED <<lockVars, callVars, lifeVars, eventVars, local, serving, flags>>

BtHands ==
  /\ At("hand") /\ Goes("sleep")
  /\ flags' = flags \cup {"EVT_WAITING"}
  /\ local' = local \ {"EVT_HANDLED"}
  /\ UNCHANGED <<lockVars, callVars, lifeVars, eventVars, serving>>

BtPopsNone ==
  /\ At("run") /\ Goes("sleep")
  /\ "EVT_HANDLED" \notin local \/ pending = <<>>
  /\ UNCHANGED <<lockVars, callVars, lifeVars, eventVars, local, serving, flags>>

\* The stack cannot sleep.
BtStays ==
  /\ At("sleep") /\ Goes("loop")
  /\ "EVT_HANDLED" \in local
  /\ UNCHANGED <<lockVars, callVars, lifeVars, eventVars, local, serving, flags>>

\* Bug: flags that were kept are forgotten.
BtWakesAfresh ==
  /\ At("sleep") /\ Goes("loop")
  /\ flags \cap Awaited # {}
  /\ local' = flags \cap Kept
  /\ flags' = flags \ Awaited
  /\ UNCHANGED <<lockVars, callVars, lifeVars, eventVars, serving>>

\* Bug: flags that other threads wait for are cleared as well.
BtWakesGreedily ==
  /\ At("sleep") /\ Goes("loop")
  /\ flags \cap Awaited # {}
  /\ local' = local \cup (flags \cap Kept)
  /\ flags' = {}
  /\ UNCHANGED <<lockVars, callVars, lifeVars, eventVars, serving>>

\* Bug: flags that are not for the Bluetooth thread are kept.
BtWakesWithAll ==
  /\ At("sleep") /\ Goes("loop")
  /\ flags \cap Awaited # {}
  /\ local' = local \cup flags
  /\ flags' = flags \ Awaited
  /\ UNCHANGED <<lockVars, callVars, lifeVars, eventVars, serving>>

BtWakes ==
  /\ At("sleep") /\ Goes("loop")
  /\ flags \cap Awaited # {}
  /\ local' = local \cup (flags \cap Kept)
  /\ flags' = flags \ Awaited
  /\ UNCHANGED <<lockVars, callVars, lifeVars, eventVars, serving>>

\* The loop has ended. Whatever the event handler thread was doing, it does no more.
BtTerminates ==
  /\ At("loop") /\ Goes("delete")
  /\ "STOPPED" \in local
  /\ threads' = {} /\ handler' = "gone" /\ handling' = None
  /\ call' = [call EXCEPT ![Handler] = "none"]
  /\ argument' = [argument EXCEPT ![Handler] = None]
  /\ result' = [result EXCEPT ![Handler] = None]
  /\ UNCHANGED <<lockVars, command, message, state, objects, tid, failed, retired, evt,
                 pending, local, serving, flags>>

\* Bug: the state is cleared and the objects stay.
BtClearsOnly ==
  /\ At("delete") /\ Goes("none")
  /\ tid' = FALSE
  /\ state' = {"KERNEL_STARTED"}
  /\ retired' = IF failed THEN "deliver" ELSE retired
  /\ local' = {}
  /\ UNCHANGED <<lockVars, callVars, objects, threads, failed, eventVars, serving, flags>>

BtDeletes ==
  /\ At("delete") /\ Goes("clear")
  /\ objects' = {} /\ flags' = {}
  /\ UNCHANGED <<lockVars, callVars, state, tid, threads, failed, retired, eventVars,
                 local, serving>>

BtClears ==
  /\ At("clear") /\ Goes("none")
  /\ tid' = FALSE
  /\ state' = {"KERNEL_STARTED"}
  /\ retired' = IF failed THEN "deliver" ELSE retired
  /\ failed' = FALSE /\ local' = {}
  /\ UNCHANGED <<lockVars, callVars, objects, threads, eventVars, serving, flags>>

\* The Bluetooth thread, no longer known as such, delivers the error itself.
RetiredDelivers ==
  /\ retired = "deliver" /\ retired' = "process"
  /\ evt' = "system_error"
  /\ UNCHANGED <<lockVars, callVars, state, objects, tid, threads, failed, pending,
                 handler, handling, btVars, flags>>

RetiredEnds ==
  /\ retired = "process" /\ call[Retired] = "none"
  /\ retired' = "none"
  /\ UNCHANGED <<lockVars, callVars, state, objects, tid, threads, failed, eventVars,
                 btVars, flags>>

BtProceeds ==
  \/ BtCreates \/ BtStarts \/ BtTakesCommand \/ BtTakesNone \/ BtForgets \/ BtResponds
  \/ BtHands \/ BtPopsNone \/ BtTerminates \/ BtDeletes \/ BtClears
  \/ NestDelegate \/ NestUnlock

-----------------------------------------------------------------------------
(* The other threads and interrupts.                                       *)

HandlerTakes ==
  /\ handler = "wait" /\ handler' = "handle"
  /\ "EVT_WAITING" \in flags
  /\ flags' = flags \ {"EVT_WAITING"}
  /\ handling' = evt
  /\ UNCHANGED <<lockVars, callVars, lifeVars, evt, pending, btVars>>

\* sl_bt_process_event() has returned.
HandlerDone ==
  /\ handler = "handle" /\ call[Handler] = "none"
  /\ handler' = "wait" /\ handling' = None
  /\ flags' = flags \cup {"EVT_HANDLED"}
  /\ UNCHANGED <<lockVars, callVars, lifeVars, evt, pending, btVars>>

\* sli_bt_rtos_ll_callback() and sli_bt_rtos_stack_callback(), from interrupts.
Interrupt ==
  /\ "event flags" \in objects
  /\ \E f \in {"LL", "STACK"} : flags' = flags \cup {f}
  /\ UNCHANGED <<lockVars, callVars, lifeVars, eventVars, btVars>>

\* sl_bt_priority_handle() may have work for the Bluetooth thread.
LinkLayer ==
  /\ "link layer" \in threads /\ "LL" \in flags
  /\ flags' \in {flags \ {"LL"}, (flags \ {"LL"}) \cup {"STACK"}}
  /\ UNCHANGED <<lockVars, callVars, lifeVars, eventVars, btVars>>

Next ==
  \/ AppInit \/ KernelStart
  \/ \E t \in Callers : Begin(t) \/ Proceed(t)
  \/ NestLock \/ BtServes \/ BtRaises \/ BtStopped \/ BtPops \/ BtFailsToPop \/ BtStays
  \/ BtWakes
  \/ BtProceeds \/ RetiredDelivers \/ RetiredEnds
  \/ HandlerTakes \/ HandlerDone \/ Interrupt \/ LinkLayer

Spec == Init /\ [][Next]_vars

-----------------------------------------------------------------------------
(* Fairness: a thread that may take its next step takes it, and one that   *)
(* waits for the mutex gets it some time (SF: mutexes queue their waiters  *)
(* by priority, and every thread waits for something before it comes       *)
(* again). The application's handler returns, the stack executes what it   *)
(* is given, pops what it has, sleeps some time and, being stopped, keeps  *)
(* waking the Bluetooth thread until it has.                               *)

Fairness ==
  /\ \A t \in Callers : SF_vars(Proceed(t))
  /\ SF_vars(BtProceeds) /\ SF_vars(BtServes \/ BtPops \/ BtWakes) /\ SF_vars(BtStopped)
  /\ SF_vars(HandlerTakes \/ HandlerDone) /\ WF_vars(KernelStart)
  /\ WF_vars(Interrupt /\ ("STOPPING" \in state /\ "STACK" \in flags'))

FairSpec == Spec /\ Fairness

-----------------------------------------------------------------------------
(* Properties.                                                             *)

Inside == {"count", "start", "delegate", "signal", "pend", "fetch", "unlock", "release"}
Counted == Inside \ {"count", "release"}

LifeTypes ==
  /\ state \subseteq StateFlags
  /\ objects \subseteq {"event flags", "mutex"} /\ tid \in BOOLEAN
  /\ threads \subseteq {"link layer", "event handler"}
  /\ flags \subseteq Flags /\ failed \in BOOLEAN
  /\ retired \in {"none", "deliver", "process"}

CallTypes ==
  /\ command \in Message \cup {Nothing} /\ message \in Message \cup {Nothing}
  /\ mutex \in Callers \cup {Bluetooth, None} /\ recursion \in Nat
  /\ call \in [Callers -> {"none", "lock"} \cup Inside]
  /\ argument \in [Callers -> Arguments \cup {"start", None}]
  /\ result \in [Callers -> Arguments \cup {None}]

ThreadTypes ==
  /\ evt \in Events \cup {"system_error", None}
  /\ bt \in {"none", "created", "start", "loop", "serve", "nested", "unnest", "served",
             "respond", "run", "hand", "sleep", "delete", "clear"}
  /\ local \subseteq Kept /\ serving \in Message \cup {Nothing}
  /\ pending \in Seq(Events) /\ Len(pending) <= MaxPending
  /\ handler \in {"gone", "wait", "handle"}
  /\ handling \in Events \cup {"system_error", None}

\* Every variable has its type.
TypeOK == LifeTypes /\ CallTypes /\ ThreadTypes

\* The event handler thread was terminated with the mutex, which nobody can take
\* any more.
Orphaned == mutex = Handler /\ call[Handler] \notin Inside

\* sli_bgapi_lock() and sli_bgapi_unlock() exclude all threads but one, and the count
\* is that of the calls under way: it returns to 0, and never below, exactly when
\* the mutex's owner is done, however the Bluetooth thread nests its own commands.
LockExcludes ==
  LET counted == {t \in Callers : call[t] \in Counted}
      nested == IF bt \in {"nested", "unnest"} THEN 1 ELSE 0
  IN /\ \A t \in Callers : call[t] \in Inside => mutex = t
     /\ Orphaned \/ recursion = Cardinality(counted) + nested

\* What a command reads is the response to the command that it left in the globals.
AnswersTheCall ==
  \A t \in Callers : call[t] = "fetch" =>
    message = [kind |-> "response", of |-> t, argument |-> argument[t]]

\* The event that the application handles stays in the one buffer until it is done.
EventIntact ==
  /\ handler = "handle" => evt = handling
  /\ retired = "process" => evt = "system_error"

\* The assertions of start_rtos_adaptation() and bluetooth_thread(): when the state
\* allows a new start, nothing is left of the last run of the stack.
StartFindsNothing ==
  /\ Idle => objects = {} /\ ~tid /\ threads = {} /\ bt = "none" /\ handler = "gone"
  /\ bt = "created" => threads = {} /\ ~tid

\* Where commands and events are in the abstract service.
Asked == [t \in Callers |->
            IF call[t] \in {"delegate", "signal", "pend", "fetch"} THEN argument[t] ELSE None]
Answered ==
  {t \in Callers : call[t] \in {"signal", "pend", "fetch"} /\ message.kind = "response"}
Handed == bt = "hand" \/ "EVT_WAITING" \in flags
Mailbox == IF Handed THEN <<evt>> \o pending ELSE pending

Service == INSTANCE StackService WITH
  Tasks <- Callers, Callbacks <- Events, Slots <- MaxPending + 1, MayStop <- TRUE,
  asked <- Asked, answered <- Answered, got <- result,
  mailbox <- Mailbox, delivered <- handling

\* Globals, flags, one message and one event buffer implement the service: each
\* command is executed once and returns its own response; events are handled once,
\* unchanged and in order; only a stop loses any.
ImplementsService == Service!Spec

\* Unless the stack is ever stopped, every command returns (the response is waited
\* for without a limit), also one that the application's event handler calls while
\* the Bluetooth thread waits for it to be done with its event.
CommandReturns ==
  []("STOPPING" \notin state) => \A t \in Callers : call[t] = "lock" ~> call[t] = "none"

\* Every event that the stack has is handed to the application, unless it is stopped.
EventArrives ==
  Mailbox # <<>> ~> handling # None \/ "STOPPING" \in state

\* A stack that is stopping, or that failed to start, is gone some time.
StopEnds == "STOPPING" \in state \/ failed ~> Idle
=============================================================================
