----------------------------- MODULE ConnectIpc -----------------------------
(***************************************************************************)
(* The inter-task communication between the application's tasks and the    *)
(* task that runs the Connect stack (cmsis-stack-ipc/). An API call writes *)
(* its command into one shared buffer, wakes the stack task and waits for  *)
(* a flag; the stack task writes the answer into the same buffer. A        *)
(* callback of the stack travels the other way, in a buffer of the stack's *)
(* heap that one of Slots handles points to.                               *)
(*                                                                         *)
(* Every access to what two tasks share is an action of its own, and any   *)
(* task may run between two of them: nothing here rests on priorities.     *)
(***************************************************************************)
EXTENDS Naturals, Sequences, FiniteSets

CONSTANTS
  Tasks,      \* the tasks that call the stack's API
  AF,         \* the one that runs the application framework
  Arguments,  \* what a call is about
  Callbacks,  \* what a callback is about
  Slots,      \* EMBER_AF_PLUGIN_CMSIS_RTOS_MAX_CALLBACK_QUEUE_SIZE
  Heap,       \* places for buffers in the stack's heap
  None

Stack == "stack"  \* the stack's task, as the owner of a mutex

ASSUME ConstantsAssumption ==
  /\ AF \in Tasks /\ Stack \notin Tasks
  /\ Slots \in Nat \ {0}
  /\ None \notin Tasks \cup Arguments \cup Callbacks \cup Heap
  /\ None # Stack /\ None \notin 1 .. Slots

VARIABLES
  flags,           \* emAfPluginCmsisRtosFlags
  commandMutex, bufferSystemMutex,  \* their owners
  apiCommandData,
  callbackBuffer,  \* the handles, each one a place in the heap
  heap,
  callbackQueue,   \* indices of callbackBuffer
  \* a call of an application task: where it is, its argument, what it returned
  call, argument, result,
  \* the application framework's main loop: where it is, the handle it has taken
  \* from the queue, where that pointed to, and its copy of the callback
  af, taken, pointer, callbackData,
  \* the stack task: where it is, where it goes on after a callback, the command
  \* it handles, the callback it sends and its index in callbackBuffer
  stack, back, command, raised, slot

callVars == <<commandMutex, apiCommandData, call, argument, result, command>>
callbackVars == <<bufferSystemMutex, callbackBuffer, heap, callbackQueue, taken,
                  pointer, callbackData, back, raised, slot>>
vars == <<flags, callVars, callbackVars, af, stack>>

Flags == {"ACTION", "CALLBACK", "COMMAND", "RESPONSE"}

Index == 1 .. Slots
Handle == Heap \cup {None}

\* What the shared command buffer holds: who wrote which command last, or whose
\* command the answer in it is the answer to.
Message == [kind : {"command", "response"}, of : Tasks, argument : Arguments]
NoMessage == [kind |-> "nothing", of |-> None, argument |-> None]

-----------------------------------------------------------------------------
Init ==
  /\ flags = {}
  /\ commandMutex = None /\ bufferSystemMutex = None
  /\ apiCommandData = NoMessage
  /\ callbackBuffer = [i \in Index |-> None]
  /\ heap = [p \in Heap |-> None]
  /\ callbackQueue = <<>>
  /\ call = [t \in Tasks |-> "none"] /\ argument = [t \in Tasks |-> None]
  /\ result = [t \in Tasks |-> None]
  /\ af = "tick" /\ taken = None /\ pointer = None /\ callbackData = None
  /\ stack = "tick" /\ back = "tick" /\ command = NoMessage
  /\ raised = None /\ slot = None

-----------------------------------------------------------------------------
(* A call of the stack's API by an application task.                       *)

\* The framework's task calls from its tick and from a callback's handler.
MayCall(t) == t = AF => af \in {"tick", "handle"}

Begin(t) ==
  /\ call[t] = "none" /\ MayCall(t)
  /\ call' = [call EXCEPT ![t] = "acquire"]
  /\ \E x \in Arguments : argument' = [argument EXCEPT ![t] = x]
  /\ UNCHANGED <<flags, commandMutex, apiCommandData, result, command, callbackVars,
                 af, stack>>

\* A step of a call, from one place to the next.
Calls(t, from, to) == call[t] = from /\ call' = [call EXCEPT ![t] = to]

\* Bug: the command is written without the mutex.
AcquireNothing(t) ==
  /\ Calls(t, "acquire", "format")
  /\ commandMutex' = t
  /\ UNCHANGED <<flags, apiCommandData, argument, result, command, callbackVars, af,
                 stack>>

\* acquireCommandMutex()
Acquire(t) ==
  /\ Calls(t, "acquire", "format")
  /\ commandMutex = None
  /\ commandMutex' = t
  /\ UNCHANGED <<flags, apiCommandData, argument, result, command, callbackVars, af,
                 stack>>

\* formatResponseCommand() into the shared buffer.
Format(t) ==
  /\ Calls(t, "format", "post")
  /\ apiCommandData' = [kind |-> "command", of |-> t, argument |-> argument[t]]
  /\ UNCHANGED <<flags, commandMutex, argument, result, command, callbackVars, af,
                 stack>>

\* postCommandPendingFlag()
PostCommand(t) ==
  /\ Calls(t, "post", "wake")
  /\ flags' = flags \cup {"COMMAND"}
  /\ UNCHANGED <<commandMutex, apiCommandData, argument, result, command, callbackVars,
                 af, stack>>

\* Bug: the stack task is not woken.
LeaveStack(t) ==
  /\ Calls(t, "wake", "pend")
  /\ UNCHANGED <<flags, commandMutex, apiCommandData, argument, result, command,
                 callbackVars, af, stack>>

\* emAfPluginCmsisRtosWakeUpConnectStackTask()
WakeStack(t) ==
  /\ Calls(t, "wake", "pend")
  /\ flags' = flags \cup {"ACTION"}
  /\ UNCHANGED <<commandMutex, apiCommandData, argument, result, command, callbackVars,
                 af, stack>>

\* Bug: the wait for the answer may time out.
PendBriefly(t) ==
  /\ Calls(t, "pend", "fetch")
  /\ flags' = flags \ {"RESPONSE"}
  /\ UNCHANGED <<commandMutex, apiCommandData, argument, result, command, callbackVars,
                 af, stack>>

\* pendResponsePendingFlag()
PendResponse(t) ==
  /\ Calls(t, "pend", "fetch")
  /\ "RESPONSE" \in flags
  /\ flags' = flags \ {"RESPONSE"}
  /\ UNCHANGED <<commandMutex, apiCommandData, argument, result, command, callbackVars,
                 af, stack>>

\* fetchApiParams(): the answer to whatever command was answered.
FetchResponse(t) ==
  /\ Calls(t, "fetch", "release")
  /\ result' = [result EXCEPT ![t] = apiCommandData.argument]
  /\ UNCHANGED <<flags, commandMutex, apiCommandData, argument, command, callbackVars,
                 af, stack>>

\* releaseCommandMutex()
Release(t) ==
  /\ Calls(t, "release", "none")
  /\ commandMutex' = None
  /\ argument' = [argument EXCEPT ![t] = None]
  /\ result' = [result EXCEPT ![t] = None]
  /\ UNCHANGED <<flags, apiCommandData, command, callbackVars, af, stack>>

Proceed(t) ==
  \/ Acquire(t) \/ Format(t) \/ PostCommand(t) \/ WakeStack(t)
  \/ PendResponse(t) \/ FetchResponse(t) \/ Release(t)

-----------------------------------------------------------------------------
(* The stack task.                                                         *)

StackAt(place) == stack = place
Goes(place) == stack' = place
Returns == stack' = back /\ back' = "tick"
CallbackRest == UNCHANGED <<callVars, af, taken, pointer, callbackData>>

\* Buffers that no handle points to may be allocated.
Free == Heap \ {callbackBuffer[i] : i \in Index}

\* connect_stack_tick() and a command's handler may send a callback.
Raise ==
  /\ stack \in {"tick", "serve"}
  /\ \E c \in Callbacks : raised' = c
  /\ back' = stack
  /\ Goes("lock")
  /\ UNCHANGED <<flags, bufferSystemMutex, callbackBuffer, heap, callbackQueue, slot>>
  /\ CallbackRest

StackAcquiresBuffers ==
  /\ StackAt("lock") /\ bufferSystemMutex = None
  /\ bufferSystemMutex' = Stack
  /\ Goes("allocate")
  /\ UNCHANGED <<flags, callbackBuffer, heap, callbackQueue, back, raised, slot>>
  /\ CallbackRest

\* The first handle that is free; a full table, or a heap without memory, and the
\* callback is lost.
TableFull == \A i \in Index : callbackBuffer[i] # None
FirstFree == CHOOSE i \in Index :
  /\ callbackBuffer[i] = None \/ TableFull
  /\ \A j \in 1 .. i - 1 : callbackBuffer[j] # None \/ TableFull

\* Bug: the search for a free handle goes one too far.
AllocateBeyond ==
  /\ StackAt("allocate")
  /\ \E p \in Free :
       /\ callbackBuffer' = [callbackBuffer EXCEPT ![FirstFree] = p]
       /\ slot' = IF TableFull THEN Slots + 1 ELSE FirstFree
  /\ bufferSystemMutex' = None
  /\ Goes("copy")
  /\ UNCHANGED <<flags, heap, callbackQueue, back, raised>> /\ CallbackRest

Allocate ==
  /\ StackAt("allocate")
  /\ \E p \in Free :
       /\ ~TableFull
       /\ callbackBuffer' = [callbackBuffer EXCEPT ![FirstFree] = p]
       /\ slot' = FirstFree
  /\ bufferSystemMutex' = None
  /\ Goes("copy")
  /\ UNCHANGED <<flags, heap, callbackQueue, back, raised>> /\ CallbackRest

\* What emberAllocateBuffer() finds no memory for is up to the rest of the heap.
Drop ==
  /\ StackAt("allocate")
  /\ bufferSystemMutex' = None
  /\ raised' = None
  /\ Returns
  /\ UNCHANGED <<flags, callbackBuffer, heap, callbackQueue, slot>>
  /\ CallbackRest

\* The callback is written to its buffer without the mutex.
CopyIn ==
  /\ StackAt("copy")
  /\ heap' = [heap EXCEPT ![callbackBuffer[slot]] = raised]
  /\ raised' = None
  /\ Goes("put")
  /\ UNCHANGED <<flags, bufferSystemMutex, callbackBuffer, callbackQueue, back, slot>>
  /\ CallbackRest

\* Bug: the descriptor is put again although the queue has it.
PutAgain ==
  /\ StackAt("put")
  /\ callbackQueue' = callbackQueue \o <<slot, slot>>
  /\ slot' = None
  /\ Goes("post")
  /\ UNCHANGED <<flags, bufferSystemMutex, callbackBuffer, heap, back, raised>>
  /\ CallbackRest

\* osMessageQueuePut() with no time to wait, and nobody asks whether it failed.
Put ==
  /\ StackAt("put")
  /\ callbackQueue' = IF Len(callbackQueue) < Slots THEN Append(callbackQueue, slot)
                      ELSE callbackQueue
  /\ slot' = None
  /\ Goes("post")
  /\ UNCHANGED <<flags, bufferSystemMutex, callbackBuffer, heap, back, raised>>
  /\ CallbackRest

PostCallback ==
  /\ StackAt("post")
  /\ flags' = flags \cup {"CALLBACK"}
  /\ Returns
  /\ UNCHANGED <<bufferSystemMutex, callbackBuffer, heap, callbackQueue, raised, slot>>
  /\ CallbackRest

\* The stack reclaims memory in its tick: a buffer moves, and its handle with it.
Compact ==
  /\ StackAt("tick") /\ bufferSystemMutex = None
  /\ \E i \in Index, p \in Free :
       /\ callbackBuffer[i] # None
       /\ heap' = [heap EXCEPT ![p] = heap[callbackBuffer[i]],
                               ![callbackBuffer[i]] = None]
       /\ callbackBuffer' = [callbackBuffer EXCEPT ![i] = p]
  /\ UNCHANGED <<flags, bufferSystemMutex, callbackQueue, back, raised, slot, stack>>
  /\ CallbackRest

EndTick ==
  /\ StackAt("tick") /\ Goes("process")
  /\ UNCHANGED <<flags, callVars, callbackVars, af>>

\* emAfPluginCmsisRtosProcessIncomingApiCommand(); the handler fetches the
\* command's parameters.
TakeCommand ==
  /\ StackAt("process")
  /\ \/ /\ "COMMAND" \in flags
        /\ flags' = flags \ {"COMMAND"}
        /\ Goes("handle")
     \/ /\ "COMMAND" \notin flags
        /\ Goes("yield")
        /\ UNCHANGED flags
  /\ UNCHANGED <<callVars, callbackVars, af>>

FetchCommand ==
  /\ StackAt("handle") /\ Goes("serve")
  /\ command' = apiCommandData
  /\ UNCHANGED <<flags, commandMutex, apiCommandData, call, argument, result,
                 callbackVars, af>>

\* The API function has run: its answer goes to the buffer the command came in.
FormatResponse ==
  /\ StackAt("serve") /\ Goes("respond")
  /\ apiCommandData' = [kind |-> "response", of |-> command.of,
                        argument |-> command.argument]
  /\ command' = NoMessage
  /\ UNCHANGED <<flags, commandMutex, call, argument, result, callbackVars, af>>

\* sendResponse()
PostResponse ==
  /\ StackAt("respond") /\ Goes("yield")
  /\ flags' = flags \cup {"RESPONSE"}
  /\ UNCHANGED <<callVars, callbackVars, af>>

\* connectStackTaskYield(): the stack may have something to do at once.
Yield ==
  /\ StackAt("yield")
  /\ Goes("tick") \/ Goes("wait")
  /\ UNCHANGED <<flags, callVars, callbackVars, af>>

StackWoken ==
  /\ StackAt("wait") /\ Goes("tick")
  /\ "ACTION" \in flags
  /\ flags' = flags \ {"ACTION"}
  /\ UNCHANGED <<callVars, callbackVars, af>>

StackTimeout ==
  /\ StackAt("wait") /\ Goes("tick")
  /\ UNCHANGED <<flags, callVars, callbackVars, af>>

StackProceeds ==
  \/ StackAcquiresBuffers \/ Allocate \/ Drop \/ CopyIn \/ Put \/ PostCallback
  \/ TakeCommand \/ FetchCommand \/ FormatResponse \/ PostResponse
  \/ Yield \/ StackWoken

-----------------------------------------------------------------------------
(* The application framework's main loop.                                  *)

AfAt(place) == af = place /\ call[AF] = "none"
AfGoes(place) == af' = place
AfRest == UNCHANGED <<callVars, stack, back, raised, slot>>

AfEndTick ==
  /\ AfAt("tick") /\ AfGoes("receive")
  /\ UNCHANGED <<flags, callVars, callbackVars, stack>>

\* emAfPluginCmsisRtosProcessIncomingCallbackCommand()
Receive ==
  /\ AfAt("receive")
  /\ \/ /\ callbackQueue = <<>>
        /\ AfGoes("yield")
        /\ UNCHANGED <<callbackQueue, taken>>
     \/ /\ callbackQueue # <<>>
        /\ taken' = Head(callbackQueue)
        /\ callbackQueue' = Tail(callbackQueue)
        /\ AfGoes("lock")
  /\ UNCHANGED <<flags, bufferSystemMutex, callbackBuffer, heap, pointer, callbackData>>
  /\ AfRest

\* Bug: the buffer is used without the mutex.
AfTakesNoMutex ==
  /\ AfAt("lock")
  /\ AfGoes("point")
  /\ UNCHANGED <<flags, bufferSystemMutex, callbackBuffer, heap, callbackQueue, taken,
                 pointer, callbackData>>
  /\ AfRest

AfAcquiresBuffers ==
  /\ AfAt("lock") /\ bufferSystemMutex = None
  /\ bufferSystemMutex' = AF
  /\ AfGoes("point")
  /\ UNCHANGED <<flags, callbackBuffer, heap, callbackQueue, taken, pointer,
                 callbackData>>
  /\ AfRest

\* emberGetBufferPointer()
Point ==
  /\ AfAt("point") /\ AfGoes("copy")
  /\ pointer' = callbackBuffer[taken]
  /\ UNCHANGED <<flags, bufferSystemMutex, callbackBuffer, heap, callbackQueue, taken,
                 callbackData>>
  /\ AfRest

\* Bug: the handle is not given back.
CopyOutOnly ==
  /\ AfAt("copy") /\ AfGoes("handle")
  /\ callbackData' = heap[pointer]
  /\ taken' = None /\ pointer' = None
  /\ bufferSystemMutex' = None
  /\ UNCHANGED <<flags, callbackBuffer, heap, callbackQueue>>
  /\ AfRest

\* A buffer without a handle is the heap's again, and what it held is lost.
CopyOut ==
  /\ AfAt("copy") /\ AfGoes("handle")
  /\ callbackData' = heap[pointer]
  /\ heap' = [heap EXCEPT ![pointer] = None]
  /\ callbackBuffer' = [callbackBuffer EXCEPT ![taken] = None]
  /\ taken' = None /\ pointer' = None
  /\ bufferSystemMutex' = None
  /\ UNCHANGED <<flags, callbackQueue>>
  /\ AfRest

\* Bug: the framework waits for the flag again although it has handled a callback.
HandledAndYields ==
  /\ AfAt("handle") /\ AfGoes("yield")
  /\ callbackData' = None
  /\ UNCHANGED <<flags, bufferSystemMutex, callbackBuffer, heap, callbackQueue, taken,
                 pointer>>
  /\ AfRest

\* handleIncomingCallbackCommand() has returned.
Handled ==
  /\ AfAt("handle") /\ AfGoes("tick")
  /\ callbackData' = None
  /\ UNCHANGED <<flags, bufferSystemMutex, callbackBuffer, heap, callbackQueue, taken,
                 pointer>>
  /\ AfRest

\* appFrameworkTaskYield(): an event of the application may be due at once.
AfYield ==
  /\ AfAt("yield")
  /\ AfGoes("tick") \/ AfGoes("wait")
  /\ UNCHANGED <<flags, callVars, callbackVars, stack>>

AfWoken ==
  /\ AfAt("wait") /\ AfGoes("tick")
  /\ "CALLBACK" \in flags
  /\ flags' = flags \ {"CALLBACK"}
  /\ UNCHANGED <<callVars, callbackVars, stack>>

AfTimeout ==
  /\ AfAt("wait") /\ AfGoes("tick")
  /\ UNCHANGED <<flags, callVars, callbackVars, stack>>

AfProceeds ==
  Receive \/ AfAcquiresBuffers \/ Point \/ CopyOut \/ AfYield \/ AfWoken

-----------------------------------------------------------------------------
\* emAfPluginCmsisStackIsrHandler()
StackIsr ==
  /\ flags' = flags \cup {"ACTION"}
  /\ UNCHANGED <<callVars, callbackVars, af, stack>>

Next ==
  \/ \E t \in Tasks : Begin(t) \/ Proceed(t)
  \/ Raise \/ Compact \/ EndTick \/ StackProceeds \/ StackTimeout \/ StackIsr
  \/ AfEndTick \/ AfProceeds \/ Handled \/ AfTimeout

Spec == Init /\ [][Next]_vars

-----------------------------------------------------------------------------
(* Fairness: a task that may take its next step takes it, and one that     *)
(* waits for a mutex gets it some time (SF: mutexes queue their waiters by *)
(* priority, and every task waits for something before it comes again).    *)
(* No tick and no handler sends callbacks or makes calls for ever.         *)
(* Nothing rests on a timeout.                                             *)

Fairness ==
  /\ \A t \in Tasks : SF_vars(Proceed(t))
  /\ SF_vars(StackProceeds) /\ SF_vars(EndTick \/ FormatResponse)
  /\ SF_vars(AfProceeds) /\ SF_vars(AfEndTick \/ Handled)

FairSpec == Spec /\ Fairness

-----------------------------------------------------------------------------
(* Properties.                                                             *)

Calling == {"format", "post", "wake", "pend", "fetch", "release"}

CallTypes ==
  /\ flags \subseteq Flags
  /\ commandMutex \in Tasks \cup {None}
  /\ apiCommandData \in Message \cup {NoMessage}
  /\ call \in [Tasks -> {"none", "acquire"} \cup Calling]
  /\ argument \in [Tasks -> Arguments \cup {None}]
  /\ result \in [Tasks -> Arguments \cup {None}]
  /\ command \in Message \cup {NoMessage}

CallbackTypes ==
  /\ bufferSystemMutex \in {None, Stack, AF}
  /\ callbackBuffer \in [Index -> Handle]
  /\ heap \in [Heap -> Callbacks \cup {None}]
  /\ callbackQueue \in Seq(Index)
  /\ taken \in Index \cup {None} /\ pointer \in Handle
  /\ callbackData \in Callbacks \cup {None}
  /\ back \in {"tick", "serve"}
  /\ raised \in Callbacks \cup {None}
  /\ slot \in Index \cup {None}

PlaceTypes ==
  /\ af \in {"tick", "receive", "lock", "point", "copy", "handle", "yield", "wait"}
  /\ stack \in {"tick", "lock", "allocate", "copy", "put", "post", "process", "handle",
                "serve", "respond", "yield", "wait"}

\* Every variable has its type.
TypeOK == CallTypes /\ CallbackTypes /\ PlaceTypes

\* While the stack carries out a command, the task it answers waits for it with
\* the command mutex: nobody writes another command over the answer.
ServesTheCaller ==
  stack \in {"serve", "respond"} =>
    \E t \in Tasks : commandMutex = t /\ call[t] \in {"wake", "pend"}

\* What a task fetches (fetchApiParams() after sendBlockingCommand()) is the answer
\* to the command it sent.
AnswersTheCall ==
  \A t \in Tasks : call[t] = "fetch" =>
    apiCommandData = [kind |-> "response", of |-> t, argument |-> argument[t]]

\* Handles that are not free are those in the queue and the ones that the two
\* tasks have in hand: none is lost, and none is used twice.
HandlesAccounted ==
  LET queued == {callbackQueue[i] : i \in 1 .. Len(callbackQueue)}
      inHand == {taken, slot} \ {None}
  IN /\ {i \in Index : callbackBuffer[i] # None} = queued \cup inHand
     /\ queued \cap inHand = {}
     /\ taken = None \/ taken # slot
     /\ \A i, j \in 1 .. Len(callbackQueue) :
          callbackQueue[i] = callbackQueue[j] => i = j

\* osMessageQueuePut(), whose result nobody looks at, never fails: whoever has a
\* handle finds room in the queue.
PutSucceeds == stack = "put" => Len(callbackQueue) < Slots

\* Where the tasks' calls and the callbacks are in the abstract service. A handle
\* that the framework has taken from the queue is still the first of the mailbox.
Asking == {"acquire", "format", "post", "wake", "pend", "fetch"}
Asked == [t \in Tasks |-> IF call[t] \in Asking THEN argument[t] ELSE None]
Answered ==
  {t \in Tasks : call[t] \in {"wake", "pend", "fetch"} /\ apiCommandData.kind = "response"}
Content(i) == heap[callbackBuffer[i]]
Mailbox ==
  IF taken = None
    THEN [i \in 1 .. Len(callbackQueue) |-> Content(callbackQueue[i])]
    ELSE [i \in 1 .. Len(callbackQueue) + 1 |->
            IF i = 1 THEN Content(taken) ELSE Content(callbackQueue[i - 1])]

Service == INSTANCE StackService WITH
  asked <- Asked, answered <- Answered, got <- result,
  mailbox <- Mailbox, delivered <- callbackData,
  MayStop <- FALSE

\* The flags, mutexes, buffers and queue of cmsis-stack-ipc/ implement the service:
\* the stack carries out each call once, the call returns its own answer, and
\* callbacks arrive once, unchanged and in order.
ImplementsService == Service!Spec

\* Every API call returns (sendBlockingCommand() waits without a limit), without
\* the stack task's timeout: the wake-up is never lost.
CallReturns == \A t \in Tasks : call[t] = "acquire" ~> call[t] = "none"

\* Every callback that found a buffer is handled, without the framework's timeout,
\* and its handle becomes free again.
CallbackArrives ==
  \A i \in Index : callbackBuffer[i] # None ~> callbackBuffer[i] = None
=============================================================================
