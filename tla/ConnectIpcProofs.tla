-------------------------- MODULE ConnectIpcProofs --------------------------
(***************************************************************************)
(* Proofs about ConnectIpc, for any tasks, arguments, callbacks, number of *)
(* handles and heap: the calls of the API never get in each other's way,   *)
(* and handles for callbacks are neither lost nor used twice.              *)
(***************************************************************************)
EXTENDS ConnectIpc, FiniteSetTheorems, WellFoundedInduction, TLAPS

-----------------------------------------------------------------------------
(* Calls. Exactly one place holds the turn of the task that owns the       *)
(* command mutex: the task itself, the COMMAND flag, the stack task's      *)
(* handler, or the RESPONSE flag.                                          *)

Sending == {"lock", "allocate", "copy", "put", "post"}
Serving == stack = "serve" \/ (stack \in Sending /\ back = "serve")
Busy == stack \in {"handle", "respond"} \/ Serving
NoFlag == "COMMAND" \notin flags /\ "RESPONSE" \notin flags

CommandOf(t) == [kind |-> "command", of |-> t, argument |-> argument[t]]
ResponseTo(t) == [kind |-> "response", of |-> t, argument |-> argument[t]]

Idle == NoFlag /\ ~Busy

Turn(t) ==
  \/ /\ "COMMAND" \in flags /\ "RESPONSE" \notin flags /\ ~Busy
     /\ apiCommandData = CommandOf(t)
  \/ NoFlag /\ stack = "handle" /\ apiCommandData = CommandOf(t)
  \/ NoFlag /\ Serving /\ command = CommandOf(t) /\ apiCommandData = CommandOf(t)
  \/ NoFlag /\ stack = "respond" /\ apiCommandData = ResponseTo(t)
  \/ /\ "RESPONSE" \in flags /\ "COMMAND" \notin flags /\ ~Busy
     /\ apiCommandData = ResponseTo(t)

Owner(t) ==
  /\ call[t] \in {"none", "acquire"} => commandMutex # t
  /\ call[t] \in Calling => commandMutex = t
  /\ call[t] # "none" => argument[t] \in Arguments
  /\ call[t] \in {"format", "release"} => Idle
  /\ call[t] = "post" => Idle /\ apiCommandData = CommandOf(t)
  /\ call[t] \in {"wake", "pend"} => Turn(t)
  /\ call[t] = "fetch" => Idle /\ apiCommandData = ResponseTo(t)

Owners == \A t \in Tasks : Owner(t)
NobodyOwns == commandMutex = None => Idle

CallInv == CallTypes /\ PlaceTypes /\ back \in {"tick", "serve"} /\ Owners /\ NobodyOwns

LEMMA InitCallInv == Init => CallInv
  BY ConstantsAssumption, SMTT(30)
  DEF Init, CallInv, CallTypes, PlaceTypes, Owners, Owner, NobodyOwns, Idle, NoFlag, Busy,
      Serving, Calling, Sending, NoMessage, Flags

\* A step of the task's own call: what the other tasks need of it is that it does
\* not take the mutex from them, nor move the turn.
LEMMA CallStep ==
  ASSUME CallInv, NEW t \in Tasks, Begin(t) \/ Proceed(t)
  PROVE  CallInv'
<1>0. t # None /\ \A u \in Tasks : u # None
  BY ConstantsAssumption
<1> USE <1>0 DEF CallInv, Calls
<1>1. CASE Begin(t)
  <2>1. CallTypes' /\ PlaceTypes' /\ back' \in {"tick", "serve"}
    BY <1>1 DEF Begin, CallTypes, PlaceTypes, callbackVars
  <2>2. ASSUME NEW u \in Tasks PROVE Owner(u)'
    BY <1>1, <2>2 DEF Begin, CallTypes, Owners, Owner, Idle, NoFlag, Busy, Serving, Turn,
       callbackVars, CommandOf, ResponseTo, Calling
  <2>3. NobodyOwns'
    BY <1>1 DEF Begin, NobodyOwns, Idle, NoFlag, Busy, Serving, callbackVars
  <2> QED BY <2>1, <2>2, <2>3 DEF Owners
<1>2. CASE Acquire(t)
  <2>1. CallTypes' /\ PlaceTypes' /\ back' \in {"tick", "serve"}
    BY <1>2 DEF Acquire, CallTypes, PlaceTypes, callbackVars, Calling
  <2>2. Idle /\ Idle'
    BY <1>2 DEF Acquire, NobodyOwns, Idle, NoFlag, Busy, Serving, callbackVars
  <2>3. ASSUME NEW u \in Tasks PROVE Owner(u)'
    BY <1>2, <2>2, <2>3 DEF Acquire, CallTypes, Owners, Owner, Calling
  <2> QED BY <1>2, <2>1, <2>2, <2>3 DEF Owners, NobodyOwns, Acquire
<1>3. CASE Format(t)
  <2>1. Owner(t) /\ commandMutex = t /\ Idle /\ Idle' /\ commandMutex' = t
    BY <1>3 DEF Format, Owners, Owner, Calling, Idle, NoFlag, Busy, Serving, callbackVars
  <2>2. argument[t] \in Arguments
    BY <1>3, <2>1 DEF Format, Owner
  <2>3. CallTypes' /\ PlaceTypes' /\ back' \in {"tick", "serve"}
    BY <1>3, <2>2 DEF Format, CallTypes, PlaceTypes, callbackVars, Calling, Message
  <2>4. ASSUME NEW u \in Tasks PROVE Owner(u)'
    BY <1>3, <2>1, <2>2, <2>4 DEF Format, CallTypes, Owners, Owner, Calling, CommandOf
  <2> QED BY <2>1, <2>3, <2>4 DEF Owners, NobodyOwns
<1>4. CASE PostCommand(t)
  <2>1. commandMutex = t /\ Idle /\ commandMutex' = t /\ apiCommandData = CommandOf(t)
    BY <1>4 DEF PostCommand, Owners, Owner, Calling
  <2>2. CallTypes' /\ PlaceTypes' /\ back' \in {"tick", "serve"}
    BY <1>4 DEF PostCommand, CallTypes, PlaceTypes, callbackVars, Calling, Flags
  <2>3. Turn(t)'
    BY <1>4, <2>1 DEF PostCommand, Turn, Idle, NoFlag, Busy, Serving, callbackVars, CommandOf
  <2>4. ASSUME NEW u \in Tasks PROVE Owner(u)'
    BY <1>4, <2>1, <2>3, <2>4 DEF PostCommand, CallTypes, Owners, Owner, Calling
  <2> QED BY <2>1, <2>2, <2>4 DEF Owners, NobodyOwns
<1>5. CASE WakeStack(t)
  <2>1. commandMutex = t /\ Turn(t) /\ commandMutex' = t
    BY <1>5 DEF WakeStack, Owners, Owner, Calling
  <2>2. CallTypes' /\ PlaceTypes' /\ back' \in {"tick", "serve"}
    BY <1>5 DEF WakeStack, CallTypes, PlaceTypes, callbackVars, Calling, Flags
  <2>3. Turn(t)'
    BY <1>5, <2>1 DEF WakeStack, Turn, NoFlag, Busy, Serving, callbackVars, CommandOf,
       ResponseTo
  <2>4. ASSUME NEW u \in Tasks PROVE Owner(u)'
    BY <1>5, <2>1, <2>3, <2>4 DEF WakeStack, CallTypes, Owners, Owner, Calling
  <2> QED BY <2>1, <2>2, <2>4 DEF Owners, NobodyOwns
<1>6. CASE PendResponse(t)
  <2>1. commandMutex = t /\ Turn(t) /\ commandMutex' = t
    BY <1>6 DEF PendResponse, Owners, Owner, Calling
  <2>2. CallTypes' /\ PlaceTypes' /\ back' \in {"tick", "serve"}
    BY <1>6 DEF PendResponse, CallTypes, PlaceTypes, callbackVars, Calling, Flags
  <2>3. Idle' /\ apiCommandData' = ResponseTo(t) /\ argument' = argument
    BY <1>6, <2>1 DEF PendResponse, Turn, Idle, NoFlag, Busy, Serving, callbackVars
  <2>4. ASSUME NEW u \in Tasks PROVE Owner(u)'
    BY <1>6, <2>1, <2>3, <2>4 DEF PendResponse, CallTypes, Owners, Owner, Calling, ResponseTo
  <2> QED BY <2>1, <2>2, <2>4 DEF Owners, NobodyOwns
<1>7. CASE FetchResponse(t)
  <2>1. commandMutex = t /\ Idle /\ Idle' /\ commandMutex' = t /\ argument[t] \in Arguments
        /\ apiCommandData = ResponseTo(t)
    BY <1>7 DEF FetchResponse, Owners, Owner, Calling, Idle, NoFlag, Busy, Serving,
       callbackVars
  <2>2. CallTypes' /\ PlaceTypes' /\ back' \in {"tick", "serve"}
    BY <1>7, <2>1 DEF FetchResponse, CallTypes, PlaceTypes, callbackVars, Calling, ResponseTo
  <2>3. ASSUME NEW u \in Tasks PROVE Owner(u)'
    BY <1>7, <2>1, <2>3 DEF FetchResponse, CallTypes, Owners, Owner, Calling
  <2> QED BY <2>1, <2>2, <2>3 DEF Owners, NobodyOwns
<1>8. CASE Release(t)
  <2>1. commandMutex = t /\ Idle /\ Idle' /\ commandMutex' = None
    BY <1>8 DEF Release, Owners, Owner, Calling, Idle, NoFlag, Busy, Serving, callbackVars
  <2>2. CallTypes' /\ PlaceTypes' /\ back' \in {"tick", "serve"}
    BY <1>8 DEF Release, CallTypes, PlaceTypes, callbackVars, Calling
  <2>3. ASSUME NEW u \in Tasks PROVE Owner(u)'
    BY <1>8, <2>1, <2>3 DEF Release, CallTypes, Owners, Owner, Calling
  <2> QED BY <2>1, <2>2, <2>3 DEF Owners, NobodyOwns
<1> QED
  BY <1>1, <1>2, <1>3, <1>4, <1>5, <1>6, <1>7, <1>8 DEF Proceed

\* A step that touches neither a call nor the flags, the buffer and the places that
\* hold the turn.
LEMMA CallFrame ==
  ASSUME CallInv, UNCHANGED callVars, PlaceTypes', back' \in {"tick", "serve"},
         flags' \subseteq Flags,
         "COMMAND" \in flags' <=> "COMMAND" \in flags,
         "RESPONSE" \in flags' <=> "RESPONSE" \in flags,
         stack' = "handle" <=> stack = "handle",
         stack' = "respond" <=> stack = "respond",
         Serving' <=> Serving
  PROVE  CallInv'
<1>1. CallTypes'
  BY DEF CallInv, CallTypes, callVars
<1>2. Idle' <=> Idle
  BY DEF Idle, NoFlag, Busy
<1>3. ASSUME NEW t \in Tasks PROVE Turn(t)' <=> Turn(t)
  BY DEF Turn, NoFlag, Busy, callVars, CommandOf, ResponseTo
<1>4. ASSUME NEW t \in Tasks PROVE Owner(t)'
  BY <1>2, <1>3, <1>4 DEF CallInv, Owners, Owner, callVars, CommandOf, ResponseTo
<1>5. NobodyOwns'
  BY <1>2 DEF CallInv, NobodyOwns, callVars
<1> QED
  BY <1>1, <1>4, <1>5 DEF CallInv, Owners

\* Whenever the stack is busy with a command, a task that waits owns the turn.
LEMMA BusyHasOwner ==
  ASSUME CallInv, Busy \/ "COMMAND" \in flags
  PROVE  \E t \in Tasks :
           /\ commandMutex = t /\ call[t] \in {"wake", "pend"} /\ Turn(t)
           /\ argument[t] \in Arguments
           /\ \A u \in Tasks : u # t => call[u] \in {"none", "acquire"}
<1>1. commandMutex # None
  BY DEF CallInv, NobodyOwns, Idle, NoFlag
<1>2. PICK t \in Tasks : commandMutex = t
  BY <1>1 DEF CallInv, CallTypes
<1>3. call[t] \in {"wake", "pend"} /\ Turn(t) /\ argument[t] \in Arguments
  BY <1>2 DEF CallInv, CallTypes, Owners, Owner, Calling, Idle, NoFlag
<1>4. \A u \in Tasks : u # t => call[u] \in {"none", "acquire"}
  BY <1>2 DEF CallInv, CallTypes, Owners, Owner
<1> QED
  BY <1>2, <1>3, <1>4

\* The stack task's steps that move the turn.
LEMMA CommandStep ==
  ASSUME CallInv, TakeCommand \/ FetchCommand \/ FormatResponse \/ PostResponse
  PROVE  CallInv'
<1>0. PlaceTypes' /\ back' \in {"tick", "serve"}
  BY DEF CallInv, PlaceTypes, TakeCommand, FetchCommand, FormatResponse, PostResponse,
     StackAt, Goes, callbackVars
<1>1. CASE TakeCommand /\ "COMMAND" \notin flags
  BY <1>0, <1>1, CallFrame
  DEF TakeCommand, StackAt, Goes, CallInv, CallTypes, Serving, Sending, callbackVars
<1>2. CASE TakeCommand /\ "COMMAND" \in flags
  <2>1. PICK t \in Tasks :
           /\ commandMutex = t /\ call[t] \in {"wake", "pend"} /\ Turn(t)
           /\ argument[t] \in Arguments
           /\ \A u \in Tasks : u # t => call[u] \in {"none", "acquire"}
    BY <1>2, BusyHasOwner
  <2>2. CallTypes'
    BY <1>2 DEF TakeCommand, CallInv, CallTypes, callVars
  <2>3. Turn(t)'
    BY <1>2, <2>1 DEF TakeCommand, StackAt, Goes, Turn, NoFlag, callVars, CommandOf
  <2>4. commandMutex' = commandMutex /\ call' = call /\ argument' = argument
    BY <1>2 DEF TakeCommand, callVars
  <2>5. ASSUME NEW u \in Tasks PROVE Owner(u)'
    BY <2>1, <2>3, <2>4, <2>5 DEF CallInv, Owners, Owner, Calling
  <2>6. NobodyOwns'
    BY <2>1, <2>4, ConstantsAssumption DEF NobodyOwns
  <2> QED BY <1>0, <2>2, <2>5, <2>6 DEF CallInv, Owners
<1>3. CASE FetchCommand \/ FormatResponse \/ PostResponse
  <2>0. Busy
    BY <1>3 DEF FetchCommand, FormatResponse, PostResponse, StackAt, Busy, Serving
  <2>1. PICK t \in Tasks :
           /\ commandMutex = t /\ call[t] \in {"wake", "pend"} /\ Turn(t)
           /\ argument[t] \in Arguments
           /\ \A u \in Tasks : u # t => call[u] \in {"none", "acquire"}
    BY <2>0, BusyHasOwner
  <2>2. commandMutex' = commandMutex /\ call' = call /\ argument' = argument
        /\ result' = result
    BY <1>3 DEF FetchCommand, FormatResponse, PostResponse, callVars
  <2>3. ASSUME FetchCommand PROVE CallTypes' /\ Turn(t)'
    <3>1. NoFlag /\ apiCommandData = CommandOf(t)
      BY <2>1, <2>3 DEF FetchCommand, StackAt, Turn, Busy, Serving, Sending
    <3>2. CallTypes'
      BY <2>3 DEF FetchCommand, CallInv, CallTypes
    <3>3. Turn(t)'
      BY <2>2, <2>3, <3>1 DEF FetchCommand, Goes, Turn, NoFlag, CommandOf, Serving
    <3> QED BY <3>2, <3>3
  <2>4. ASSUME FormatResponse PROVE CallTypes' /\ Turn(t)'
    <3>1. NoFlag /\ command = CommandOf(t)
      BY <2>1, <2>4 DEF FormatResponse, StackAt, Turn, Busy, Serving, Sending
    <3>2. CallTypes'
      BY <2>1, <2>4, <3>1 DEF FormatResponse, CallInv, CallTypes, Message, CommandOf
    <3>3. Turn(t)'
      BY <2>2, <2>4, <3>1 DEF FormatResponse, Goes, Turn, NoFlag, CommandOf, ResponseTo
    <3> QED BY <3>2, <3>3
  <2>5. ASSUME PostResponse PROVE CallTypes' /\ Turn(t)'
    <3>1. NoFlag /\ apiCommandData = ResponseTo(t)
      BY <2>1, <2>5 DEF PostResponse, StackAt, Turn, Busy, Serving, Sending
    <3>2. CallTypes'
      BY <2>5 DEF PostResponse, CallInv, CallTypes, callVars, Flags
    <3>3. Turn(t)'
      BY <2>2, <2>5, <3>1
      DEF PostResponse, Goes, Turn, NoFlag, ResponseTo, Busy, Serving, Sending, callVars
    <3> QED BY <3>2, <3>3
  <2>6. CallTypes' /\ Turn(t)'
    BY <1>3, <2>3, <2>4, <2>5
  <2>7. ASSUME NEW u \in Tasks PROVE Owner(u)'
    BY <2>1, <2>2, <2>6, <2>7 DEF CallInv, Owners, Owner, Calling
  <2>8. NobodyOwns'
    BY <2>1, <2>2, ConstantsAssumption DEF NobodyOwns
  <2> QED BY <1>0, <2>6, <2>7, <2>8 DEF CallInv, Owners
<1> QED
  BY <1>1, <1>2, <1>3

\* All the other steps leave the turn where it is.
LEMMA OtherStep ==
  ASSUME CallInv,
         \/ Raise \/ Compact \/ EndTick \/ StackAcquiresBuffers \/ Allocate \/ Drop
         \/ CopyIn \/ Put \/ PostCallback \/ Yield \/ StackWoken \/ StackTimeout \/ StackIsr
         \/ AfEndTick \/ AfProceeds \/ Handled \/ AfTimeout
  PROVE  CallInv'
<1> USE CallFrame
<1>1. CASE Raise \/ EndTick \/ Yield \/ StackWoken \/ StackTimeout
  BY <1>1 DEF Raise, EndTick, Yield, StackWoken, StackTimeout, StackAt, Goes, Serving, Sending,
     CallInv, CallTypes, PlaceTypes, callbackVars, CallbackRest
<1>2. CASE StackAcquiresBuffers \/ Allocate \/ CopyIn \/ Put
  BY <1>2 DEF StackAcquiresBuffers, Allocate, CopyIn, Put, StackAt, Goes, Serving, Sending,
     CallInv, CallTypes, PlaceTypes, CallbackRest
<1>3. CASE Drop \/ PostCallback
  BY <1>3 DEF Drop, PostCallback, StackAt, Returns, Goes, Serving, Sending, Flags,
     CallInv, CallTypes, PlaceTypes, CallbackRest
<1>4. CASE Compact \/ StackIsr
  BY <1>4 DEF Compact, StackIsr, StackAt, Serving, Sending, Flags,
     CallInv, CallTypes, PlaceTypes, CallbackRest, callbackVars
<1>5. CASE AfEndTick \/ Handled \/ AfTimeout
  BY <1>5 DEF AfEndTick, Handled, AfTimeout, AfAt, AfGoes, AfRest, Serving,
     CallInv, CallTypes, PlaceTypes, callbackVars
<1>6. CASE AfProceeds
  BY <1>6 DEF AfProceeds, Receive, AfAcquiresBuffers, Point, CopyOut, AfYield, AfWoken, AfAt,
     AfGoes, AfRest, Serving, CallInv, CallTypes, PlaceTypes, callbackVars
<1> QED
  BY <1>1, <1>2, <1>3, <1>4, <1>5, <1>6

LEMMA NextCallInv == CallInv /\ [Next]_vars => CallInv'
<1> SUFFICES ASSUME CallInv, [Next]_vars PROVE CallInv'
  OBVIOUS
<1>1. CASE UNCHANGED vars
  BY <1>1, CallFrame DEF vars, CallInv, CallTypes, PlaceTypes, callbackVars, Serving
<1>2. ASSUME NEW t \in Tasks, Begin(t) \/ Proceed(t) PROVE CallInv'
  BY <1>2, CallStep
<1>3. CASE StackProceeds
  BY <1>3, CommandStep, OtherStep DEF StackProceeds
<1> QED
  BY <1>1, <1>2, <1>3, OtherStep DEF Next

THEOREM CallsKeepTheTurn == Spec => []CallInv
<1>1. Init => CallInv BY InitCallInv
<1>2. CallInv /\ [Next]_vars => CallInv' BY NextCallInv
<1> QED BY <1>1, <1>2, PTL DEF Spec

\* What a task fetches after sendBlockingCommand() is the answer to its command.
THEOREM AnswersBelong == Spec => []AnswersTheCall
<1>1. CallInv => AnswersTheCall
  BY DEF CallInv, Owners, Owner, AnswersTheCall, ResponseTo
<1> QED BY <1>1, CallsKeepTheTurn, PTL

\* While the stack carries out a command, its caller waits and keeps others out.
THEOREM ServesOnlyTheCaller == Spec => []ServesTheCaller
<1>1. CallInv => ServesTheCaller
  BY BusyHasOwner DEF ServesTheCaller, Busy, Serving
<1> QED BY <1>1, CallsKeepTheTurn, PTL

-----------------------------------------------------------------------------
(* Callbacks. A handle that is not free is in one place: in the queue, in  *)
(* the stack task's hand or in the framework's.                            *)

Queued(i) == \E k \in 1 .. Len(callbackQueue) : callbackQueue[k] = i

Hands ==
  /\ taken # None <=> af \in {"lock", "point", "copy"}
  /\ slot # None <=> stack \in {"copy", "put"}
  /\ raised # None <=> stack \in {"lock", "allocate", "copy"}
  /\ bufferSystemMutex = Stack <=> stack = "allocate"
  /\ bufferSystemMutex = AF <=> af \in {"point", "copy"}
  /\ af = "copy" => pointer = callbackBuffer[taken]
  /\ taken # None => taken # slot

Distinct ==
  /\ \A i, j \in Index :
       callbackBuffer[i] # None /\ callbackBuffer[i] = callbackBuffer[j] => i = j
  /\ \A k, l \in 1 .. Len(callbackQueue) : callbackQueue[k] = callbackQueue[l] => k = l

Accounted ==
  \A i \in Index :
    /\ callbackBuffer[i] # None <=> Queued(i) \/ i = taken \/ i = slot
    /\ Queued(i) => i # taken /\ i # slot

Contents ==
  /\ \A i \in Index :
       Queued(i) \/ i = taken \/ (i = slot /\ stack = "put") =>
         heap[callbackBuffer[i]] \in Callbacks
  /\ callbackData # None <=> af = "handle"

HandleInv ==
  CallbackTypes /\ PlaceTypes /\ Hands /\ Distinct /\ Accounted /\ Contents

LEMMA InitHandleInv == Init => HandleInv
<1> SUFFICES ASSUME Init PROVE HandleInv
  OBVIOUS
<1>1. CallbackTypes
  BY DEF Init, CallbackTypes, Handle
<1>2. PlaceTypes /\ Hands
  BY ConstantsAssumption DEF Init, PlaceTypes, Hands
<1>3. Len(callbackQueue) = 0 /\ ~ \E k \in 1 .. Len(callbackQueue) : TRUE
  BY DEF Init
<1>4. Distinct
  BY <1>3 DEF Init, Distinct
<1>5. Accounted /\ Contents
  BY <1>3, ConstantsAssumption DEF Init, Accounted, Contents, Queued, Index
<1> QED BY <1>1, <1>2, <1>4, <1>5 DEF HandleInv

\* A step that leaves the handles alone: the tasks are where they were, or between
\* places where they hold nothing.
LEMMA HandleFrame ==
  ASSUME HandleInv, PlaceTypes',
         UNCHANGED <<bufferSystemMutex, callbackBuffer, heap, callbackQueue, taken, pointer,
                     callbackData, raised, slot>>,
         back' \in {"tick", "serve"},
         stack' # stack => {stack, stack'} \cap {"lock", "allocate", "copy", "put"} = {},
         af' # af => {af, af'} \cap {"lock", "point", "copy", "handle"} = {}
  PROVE  HandleInv'
<1>1. CallbackTypes' /\ Distinct' /\ Accounted'
  BY DEF HandleInv, CallbackTypes, Distinct, Accounted, Queued
<1>2. Hands'
  BY DEF HandleInv, PlaceTypes, Hands
<1>3. Contents'
  BY DEF HandleInv, PlaceTypes, Contents, Queued
<1> QED BY <1>1, <1>2, <1>3 DEF HandleInv

LEMMA CallKeepsHandles ==
  ASSUME HandleInv, NEW t \in Tasks, Begin(t) \/ Proceed(t)
  PROVE  HandleInv'
<1>1. UNCHANGED <<callbackVars, af, stack>>
  BY DEF Begin, Proceed, Acquire, Format, PostCommand, WakeStack, PendResponse,
     FetchResponse, Release
<1> QED BY <1>1, HandleFrame DEF HandleInv, CallbackTypes, PlaceTypes, callbackVars

LEMMA QuietKeepsHandles ==
  ASSUME HandleInv,
         \/ EndTick \/ PostCallback \/ TakeCommand \/ FetchCommand \/ FormatResponse
         \/ PostResponse \/ Yield \/ StackWoken \/ StackTimeout \/ StackIsr
         \/ AfEndTick \/ AfYield \/ AfWoken \/ AfTimeout
  PROVE  HandleInv'
<1>1. CASE EndTick \/ TakeCommand \/ FetchCommand \/ FormatResponse \/ PostResponse
  BY <1>1, HandleFrame
  DEF EndTick, TakeCommand, FetchCommand, FormatResponse, PostResponse, StackAt, Goes,
      HandleInv, CallbackTypes, PlaceTypes, callbackVars
<1>2. CASE PostCallback \/ Yield \/ StackWoken \/ StackTimeout \/ StackIsr
  BY <1>2, HandleFrame
  DEF PostCallback, Yield, StackWoken, StackTimeout, StackIsr, StackAt, Goes, Returns,
      HandleInv, CallbackTypes, PlaceTypes, callbackVars, CallbackRest
<1>3. CASE AfEndTick \/ AfYield \/ AfWoken \/ AfTimeout
  BY <1>3, HandleFrame
  DEF AfEndTick, AfYield, AfWoken, AfTimeout, AfAt, AfGoes,
      HandleInv, CallbackTypes, PlaceTypes, callbackVars
<1> QED BY <1>1, <1>2, <1>3

\* The first free handle exists when the table is not full.
LEMMA FirstFreeIsFree ==
  ASSUME ~TableFull
  PROVE  FirstFree \in Index /\ callbackBuffer[FirstFree] = None
<1> DEFINE FreeIndex == {i \in Index : callbackBuffer[i] = None}
<1>1. FreeIndex \in SUBSET Nat /\ FreeIndex # {}
  BY ConstantsAssumption DEF TableFull, Index
<1>2. PICK i \in FreeIndex : \A j \in FreeIndex : ~(j < i)
  <2>1. PICK i \in FreeIndex : \A j \in FreeIndex : ~(<<j, i>> \in OpToRel(<, Nat))
    <3> HIDE DEF FreeIndex
    <3> QED BY <1>1, NatLessThanWellFounded, WFMin
  <2> QED BY <1>1, <2>1 DEF OpToRel
<1>3. \A j \in 1 .. i - 1 : callbackBuffer[j] # None
  BY <1>2, ConstantsAssumption DEF Index
<1> QED BY <1>2, <1>3 DEF FirstFree

\* The queue's entries are distinct handles: those that are not queued leave room.
LEMMA RoomForOthers ==
  ASSUME HandleInv, NEW Others \in SUBSET Index, NEW n \in Nat,
         IsFiniteSet(Others), Cardinality(Others) = n,
         \A i \in Index : Queued(i) => i \in Others
  PROVE  Len(callbackQueue) <= n
<1>1. Len(callbackQueue) \in Nat /\ callbackQueue \in Seq(Index)
  BY DEF HandleInv, CallbackTypes
<1> SUFFICES ASSUME n < Len(callbackQueue) PROVE FALSE
  BY <1>1
<1> DEFINE Entries == 1 .. Len(callbackQueue)
           f == [k \in Entries |-> callbackQueue[k]]
<1>2. IsFiniteSet(Entries) /\ Cardinality(Entries) = Len(callbackQueue)
  BY <1>1, FS_Interval
<1>3. f \in [Entries -> Others]
  BY <1>1 DEF Queued
<1>4. \E k, l \in Entries : k # l /\ f[k] = f[l]
  <2> HIDE DEF Entries, f
  <2> QED BY <1>2, <1>3, FS_PigeonHole
<1> QED
  BY <1>4 DEF HandleInv, Distinct

\* A task that has a handle in hand finds room in the queue.
LEMMA RoomToPut ==
  ASSUME HandleInv, stack = "put"
  PROVE  Len(callbackQueue) + (IF taken = None THEN 0 ELSE 1) < Slots
<1>1. slot \in Index /\ ~Queued(slot) /\ Slots \in Nat /\ Slots > 0
      /\ Len(callbackQueue) \in Nat
  BY ConstantsAssumption DEF HandleInv, Hands, CallbackTypes, Accounted
<1>2. IsFiniteSet(Index) /\ Cardinality(Index) = Slots
  <2>1. Slots \in Int /\ 1 \in Int /\ ~(1 > Slots) /\ Slots - 1 + 1 = Slots
    BY <1>1
  <2> QED BY <2>1, FS_Interval DEF Index
<1>3. IsFiniteSet(Index \ {slot}) /\ Cardinality(Index \ {slot}) = Slots - 1
  BY <1>1, <1>2, FS_RemoveElement
<1>4. CASE taken = None
  <2>1. \A i \in Index : Queued(i) => i \in Index \ {slot}
    BY <1>1
  <2>2. Len(callbackQueue) <= Slots - 1
    BY <1>1, <1>3, <2>1, RoomForOthers
  <2> QED BY <1>1, <1>4, <2>2
<1>5. CASE taken # None
  <2> DEFINE Others == (Index \ {slot}) \ {taken}
  <2>1. taken \in Index /\ taken # slot /\ ~Queued(taken)
    BY <1>5 DEF HandleInv, Hands, CallbackTypes, Accounted
  <2>2. IsFiniteSet(Others) /\ Cardinality(Others) = Slots - 1 - 1
    BY <1>3, <2>1, FS_RemoveElement
  <2>3. Slots - 1 - 1 \in Nat
    BY <2>2, FS_CardinalityType
  <2>4. \A i \in Index : Queued(i) => i \in Others
    BY <1>1, <2>1
  <2>5. Len(callbackQueue) <= Slots - 1 - 1
    <3> HIDE DEF Others
    <3>1. Others \in SUBSET Index BY DEF Others
    <3> QED BY <2>2, <2>3, <2>4, <3>1, RoomForOthers
  <2> QED BY <1>1, <1>5, <2>5
<1> QED
  BY <1>4, <1>5

LEMMA RoomAtPut ==
  ASSUME HandleInv, stack = "put"
  PROVE  Len(callbackQueue) < Slots
<1>1. Slots \in Nat /\ Len(callbackQueue) \in Nat
  BY ConstantsAssumption DEF HandleInv, CallbackTypes
<1> QED BY <1>1, RoomToPut

LEMMA StackKeepsHandles ==
  ASSUME HandleInv,
         Raise \/ StackAcquiresBuffers \/ Allocate \/ Drop \/ CopyIn \/ Put \/ Compact
  PROVE  HandleInv'
<1>0. AF # Stack /\ AF # None /\ None # Stack /\ None \notin Index /\ None \notin Callbacks
      /\ None \notin Heap
  BY ConstantsAssumption DEF Index
<1> USE <1>0 DEF HandleInv, StackAt, Goes, Returns, CallbackRest
<1>1. CASE Raise
  <2>1. CallbackTypes' /\ PlaceTypes' /\ Hands'
    BY <1>1 DEF Raise, CallbackTypes, PlaceTypes, Hands
  <2>2. Distinct' /\ Accounted' /\ Contents'
    BY <1>1 DEF Raise, Distinct, Accounted, Contents, Queued
  <2> QED BY <2>1, <2>2
<1>2. CASE StackAcquiresBuffers
  <2>1. CallbackTypes' /\ PlaceTypes' /\ Hands'
    BY <1>2 DEF StackAcquiresBuffers, CallbackTypes, PlaceTypes, Hands
  <2>2. Distinct' /\ Accounted' /\ Contents'
    BY <1>2 DEF StackAcquiresBuffers, Distinct, Accounted, Contents, Queued
  <2> QED BY <2>1, <2>2
<1>3. CASE Drop
  <2>0. stack' \in {"tick", "serve"}
    BY <1>3 DEF Drop, CallbackTypes
  <2>1. CallbackTypes' /\ PlaceTypes' /\ Hands'
    <3>1. CallbackTypes' BY <1>3 DEF Drop, CallbackTypes
    <3>2. PlaceTypes' BY <1>3, <2>0 DEF Drop, PlaceTypes
    <3>3. Hands' BY <1>3, <2>0 DEF Drop, Hands
    <3> QED BY <3>1, <3>2, <3>3
  <2>2. UNCHANGED <<callbackBuffer, heap, callbackQueue, taken, slot, callbackData, af>>
        /\ stack = "allocate"
    BY <1>3 DEF Drop
  <2>3. Distinct' /\ Accounted'
    BY <2>2 DEF Distinct, Accounted, Queued
  <2>4. Contents'
    BY <2>0, <2>2 DEF Contents, Queued
  <2> QED BY <2>1, <2>3, <2>4
<1>4. CASE CopyIn
  <2>1. slot \in Index /\ callbackBuffer[slot] \in Heap /\ raised \in Callbacks
        /\ ~Queued(slot) /\ slot # taken
    BY <1>4 DEF CopyIn, CallbackTypes, Hands, Accounted, Handle
  <2>2. CallbackTypes' /\ PlaceTypes' /\ Hands'
    BY <1>4, <2>1 DEF CopyIn, CallbackTypes, PlaceTypes, Hands
  <2>3. Distinct' /\ Accounted'
    BY <1>4 DEF CopyIn, Distinct, Accounted, Queued
  <2>4. Contents'
    BY <1>4, <2>1 DEF CopyIn, Contents, Queued, CallbackTypes, Accounted, Distinct, Handle
  <2> QED BY <2>2, <2>3, <2>4
<1>5. CASE Compact
  <2>1. PICK i \in Index, p \in Free :
          /\ callbackBuffer[i] # None
          /\ heap' = [heap EXCEPT ![p] = heap[callbackBuffer[i]],
                                  ![callbackBuffer[i]] = None]
          /\ callbackBuffer' = [callbackBuffer EXCEPT ![i] = p]
    BY <1>5 DEF Compact
  <2>2. p \in Heap /\ p # None /\ \A j \in Index : callbackBuffer[j] # p
    BY <2>1 DEF Free
  <2>3. CallbackTypes' /\ PlaceTypes'
    BY <1>5, <2>1, <2>2 DEF Compact, CallbackTypes, PlaceTypes, Handle
  <2>4. Hands'
    BY <1>5 DEF Compact, Hands
  <2>5. Distinct' /\ Accounted'
    BY <1>5, <2>1, <2>2 DEF Compact, Distinct, Accounted, Queued, CallbackTypes
  <2>6. \A j \in Index : callbackBuffer[j] # None =>
          callbackBuffer'[j] # None /\ heap'[callbackBuffer'[j]] = heap[callbackBuffer[j]]
    BY <1>5, <2>1, <2>2 DEF CallbackTypes, Handle, Distinct
  <2>7. Contents'
    BY <1>5, <2>6 DEF Compact, Contents, Queued, Accounted
  <2> QED BY <2>3, <2>4, <2>5, <2>7
<1>6. CASE Allocate
  <2>1. PICK p \in Free :
          /\ ~TableFull
          /\ callbackBuffer' = [callbackBuffer EXCEPT ![FirstFree] = p]
          /\ slot' = FirstFree
    BY <1>6 DEF Allocate
  <2>2. p \in Heap /\ p # None /\ \A j \in Index : callbackBuffer[j] # p
    BY <2>1 DEF Free
  <2>3. FirstFree \in Index /\ callbackBuffer[FirstFree] = None
    BY <2>1, FirstFreeIsFree
  <2>4. slot = None /\ ~Queued(FirstFree) /\ FirstFree # taken
    BY <1>6, <2>3 DEF Allocate, Hands, Accounted
  <2>5. CallbackTypes' /\ PlaceTypes'
    BY <1>6, <2>1, <2>2, <2>3 DEF Allocate, CallbackTypes, PlaceTypes, Handle
  <2>6. Hands'
    BY <1>6, <2>1, <2>3, <2>4 DEF Allocate, Hands, CallbackTypes
  <2>7. Distinct'
    BY <1>6, <2>1, <2>2, <2>3 DEF Allocate, Distinct, CallbackTypes
  <2>8. Accounted'
    BY <1>6, <2>1, <2>2, <2>3, <2>4 DEF Allocate, Accounted, Queued, CallbackTypes
  <2>9. Contents'
    BY <1>6, <2>1, <2>3, <2>4 DEF Allocate, Contents, Queued, CallbackTypes
  <2> QED BY <2>5, <2>6, <2>7, <2>8, <2>9
<1>7. CASE Put
  <2>0. Len(callbackQueue) < Slots
    BY <1>7, RoomAtPut DEF Put
  <2>1. slot \in Index /\ ~Queued(slot) /\ slot # taken /\ Len(callbackQueue) < Slots
    BY <1>7, <2>0 DEF Put, CallbackTypes, Hands, Accounted
  <2>2. callbackQueue' = Append(callbackQueue, slot) /\ callbackQueue' \in Seq(Index)
    BY <1>7, <2>1 DEF Put, CallbackTypes
  <2>3. \A i \in Index : Queued(i)' <=> Queued(i) \/ i = slot
    BY <2>1, <2>2 DEF Queued, CallbackTypes
  <2>4. CallbackTypes' /\ PlaceTypes' /\ Hands'
    BY <1>7, <2>2 DEF Put, CallbackTypes, PlaceTypes, Hands
  <2>5. Distinct'
    BY <1>7, <2>1, <2>2 DEF Put, Distinct, Queued, CallbackTypes
  <2>6. Accounted' /\ Contents'
    BY <1>7, <2>1, <2>3 DEF Put, Accounted, Contents
  <2> QED BY <2>4, <2>5, <2>6
<1> QED
  BY <1>1, <1>2, <1>3, <1>4, <1>5, <1>6, <1>7

LEMMA AfKeepsHandles ==
  ASSUME HandleInv, Receive \/ AfAcquiresBuffers \/ Point \/ CopyOut \/ Handled
  PROVE  HandleInv'
<1>0. AF # Stack /\ AF # None /\ None # Stack /\ None \notin Index /\ None \notin Callbacks
      /\ None \notin Heap
  BY ConstantsAssumption DEF Index
<1> USE <1>0 DEF HandleInv, AfAt, AfGoes, AfRest
<1>1. CASE AfAcquiresBuffers
  <2>1. CallbackTypes' /\ PlaceTypes' /\ Hands'
    BY <1>1 DEF AfAcquiresBuffers, CallbackTypes, PlaceTypes, Hands
  <2>2. Distinct' /\ Accounted' /\ Contents'
    BY <1>1 DEF AfAcquiresBuffers, Distinct, Accounted, Contents, Queued
  <2> QED BY <2>1, <2>2
<1>2. CASE Point
  <2>1. taken \in Index
    BY <1>2 DEF Point, Hands, CallbackTypes
  <2>2. CallbackTypes' /\ PlaceTypes' /\ Hands'
    BY <1>2, <2>1 DEF Point, CallbackTypes, PlaceTypes, Hands
  <2>3. Distinct' /\ Accounted' /\ Contents'
    BY <1>2 DEF Point, Distinct, Accounted, Contents, Queued
  <2> QED BY <2>2, <2>3
<1>3. CASE Handled
  <2>1. CallbackTypes' /\ PlaceTypes' /\ Hands'
    BY <1>3 DEF Handled, CallbackTypes, PlaceTypes, Hands
  <2>2. Distinct' /\ Accounted' /\ Contents'
    BY <1>3 DEF Handled, Distinct, Accounted, Contents, Queued
  <2> QED BY <2>1, <2>2
<1>4. CASE Receive /\ callbackQueue = <<>>
  <2>1. CallbackTypes' /\ PlaceTypes' /\ Hands'
    BY <1>4 DEF Receive, CallbackTypes, PlaceTypes, Hands
  <2>2. Distinct' /\ Accounted' /\ Contents'
    BY <1>4 DEF Receive, Distinct, Accounted, Contents, Queued
  <2> QED BY <2>1, <2>2
<1>5. CASE Receive /\ callbackQueue # <<>>
  <2>1. Head(callbackQueue) \in Index /\ Queued(Head(callbackQueue)) /\ taken = None
    BY <1>5 DEF Receive, Queued, CallbackTypes, Hands
  <2>2. callbackQueue' = Tail(callbackQueue) /\ callbackQueue' \in Seq(Index)
        /\ taken' = Head(callbackQueue)
    <3>1. callbackQueue' = Tail(callbackQueue) /\ taken' = Head(callbackQueue)
      BY <1>5 DEF Receive
    <3>2. callbackQueue \in Seq(Index)
      BY DEF CallbackTypes
    <3> QED BY <1>5, <3>1, <3>2
  <2>3. \A i \in Index : Queued(i)' <=> Queued(i) /\ i # Head(callbackQueue)
    <3>1. ASSUME NEW i \in Index, NEW k \in 1 .. Len(callbackQueue), callbackQueue[k] = i,
                 i # Head(callbackQueue)
          PROVE  Queued(i)'
      <4>1. k # 1 /\ k - 1 \in 1 .. Len(Tail(callbackQueue))
            /\ Tail(callbackQueue)[k - 1] = i
        BY <1>5, <3>1 DEF CallbackTypes
      <4> QED BY <2>2, <4>1 DEF Queued
    <3>2. ASSUME NEW i \in Index, NEW k \in 1 .. Len(callbackQueue'), callbackQueue'[k] = i
          PROVE  Queued(i) /\ i # Head(callbackQueue)
      <4>1. k + 1 \in 1 .. Len(callbackQueue) /\ callbackQueue[k + 1] = i /\ k + 1 # 1
            /\ 1 \in 1 .. Len(callbackQueue)
        BY <1>5, <2>2, <3>2 DEF CallbackTypes
      <4>2. callbackQueue[k + 1] # callbackQueue[1]
        BY <4>1 DEF Distinct
      <4> QED BY <4>1, <4>2 DEF Queued
    <3> QED BY <3>1, <3>2 DEF Queued
  <2>4. CallbackTypes' /\ PlaceTypes'
    BY <1>5, <2>1, <2>2 DEF Receive, CallbackTypes, PlaceTypes
  <2>5. Hands'
    BY <1>5, <2>1, <2>2 DEF Receive, Hands, Accounted
  <2>6. Distinct'
    <3>1. \A k \in 1 .. Len(callbackQueue') :
            k + 1 \in 1 .. Len(callbackQueue) /\ callbackQueue'[k] = callbackQueue[k + 1]
      BY <1>5, <2>2 DEF CallbackTypes
    <3>2. \A k, l \in 1 .. Len(callbackQueue') :
            callbackQueue'[k] = callbackQueue'[l] => k = l
      BY <2>2, <3>1 DEF Distinct
    <3> QED BY <1>5, <3>2 DEF Receive, Distinct
  <2>7. Accounted' /\ Contents'
    BY <1>5, <2>1, <2>2, <2>3 DEF Receive, Accounted, Contents
  <2> QED BY <2>4, <2>5, <2>6, <2>7
<1>6. CASE CopyOut
  <2>1. taken \in Index /\ pointer = callbackBuffer[taken] /\ pointer \in Heap
        /\ heap[pointer] \in Callbacks /\ ~Queued(taken) /\ taken # slot
    BY <1>6 DEF CopyOut, Hands, Accounted, Contents, CallbackTypes, Handle
  <2>2. CallbackTypes' /\ PlaceTypes'
    BY <1>6, <2>1 DEF CopyOut, CallbackTypes, PlaceTypes, Handle
  <2>3. Hands'
    BY <1>6 DEF CopyOut, Hands
  <2>4. Distinct' /\ Accounted'
    BY <1>6, <2>1 DEF CopyOut, Distinct, Accounted, Queued, CallbackTypes
  <2>5. \A i \in Index : i # taken /\ callbackBuffer[i] # None =>
          heap'[callbackBuffer'[i]] = heap[callbackBuffer[i]]
    BY <1>6, <2>1 DEF CopyOut, CallbackTypes, Handle, Distinct
  <2>6. Contents'
    BY <1>6, <2>1, <2>5 DEF CopyOut, Contents, Queued, Accounted
  <2> QED BY <2>2, <2>3, <2>4, <2>6
<1> QED
  BY <1>1, <1>2, <1>3, <1>4, <1>5, <1>6 DEF Receive

LEMMA NextHandleInv == HandleInv /\ [Next]_vars => HandleInv'
<1> SUFFICES ASSUME HandleInv, [Next]_vars PROVE HandleInv'
  OBVIOUS
<1>1. CASE UNCHANGED vars
  BY <1>1, HandleFrame DEF vars, HandleInv, CallbackTypes, PlaceTypes, callbackVars
<1>2. ASSUME NEW t \in Tasks, Begin(t) \/ Proceed(t) PROVE HandleInv'
  BY <1>2, CallKeepsHandles
<1>3. CASE StackProceeds
  BY <1>3, StackKeepsHandles, QuietKeepsHandles DEF StackProceeds
<1>4. CASE AfProceeds
  BY <1>4, AfKeepsHandles, QuietKeepsHandles DEF AfProceeds
<1> QED
  BY <1>1, <1>2, <1>3, <1>4, StackKeepsHandles, AfKeepsHandles, QuietKeepsHandles DEF Next

THEOREM HandlesAreKept == Spec => []HandleInv
<1>1. Init => HandleInv BY InitHandleInv
<1>2. HandleInv /\ [Next]_vars => HandleInv' BY NextHandleInv
<1> QED BY <1>1, <1>2, PTL DEF Spec

\* Every variable keeps its type.
THEOREM TypeCorrect == Spec => []TypeOK
<1>1. CallInv /\ HandleInv => TypeOK
  BY DEF CallInv, HandleInv, TypeOK
<1> QED BY <1>1, CallsKeepTheTurn, HandlesAreKept, PTL

\* No handle of callbackBuffer[] is lost or used twice.
THEOREM HandlesNeverLost == Spec => []HandlesAccounted
<1>1. HandleInv => HandlesAccounted
  <2> SUFFICES ASSUME HandleInv PROVE HandlesAccounted
    OBVIOUS
  <2> DEFINE queued == {callbackQueue[k] : k \in 1 .. Len(callbackQueue)}
             inHand == {taken, slot} \ {None}
  <2>1. \A i \in Index : i \in queued <=> Queued(i)
    BY DEF Queued
  <2>2. queued \subseteq Index /\ inHand \subseteq Index
    BY DEF HandleInv, CallbackTypes
  <2>3. \A i \in Index : i \in inHand <=> i = taken \/ i = slot
    BY ConstantsAssumption DEF Index
  <2>4. {i \in Index : callbackBuffer[i] # None} = queued \cup inHand
        /\ queued \cap inHand = {}
    <3> HIDE DEF queued, inHand
    <3> QED BY <2>1, <2>2, <2>3 DEF HandleInv, Accounted
  <2> QED BY <2>4 DEF HandlesAccounted, HandleInv, Hands, Distinct
<1> QED BY <1>1, HandlesAreKept, PTL

\* osMessageQueuePut() always finds room.
THEOREM PutNeverFails == Spec => []PutSucceeds
<1>1. HandleInv => PutSucceeds
  BY RoomAtPut DEF PutSucceeds
<1> QED BY <1>1, HandlesAreKept, PTL

-----------------------------------------------------------------------------
(* Refinement: each step is a step of StackService or leaves it as it is *)

Returned ==
  /\ result \in [Tasks -> Arguments \cup {None}]
  /\ \A t \in Tasks : result[t] # None <=> call[t] = "release"

Inv == CallInv /\ HandleInv /\ Returned

LEMMA InitInv == Init => Inv
  BY InitCallInv, InitHandleInv DEF Inv, Returned, Init

LEMMA NextReturned == Inv /\ [Next]_vars => Returned'
<1> SUFFICES ASSUME Inv, [Next]_vars PROVE Returned'
  OBVIOUS
<1>0. None \notin Arguments
  BY ConstantsAssumption
<1>1. CASE UNCHANGED <<call, result>>
  BY <1>1 DEF Inv, Returned
<1>2. ASSUME NEW t \in Tasks, FetchResponse(t) PROVE Returned'
  <2>1. apiCommandData.argument \in Arguments
    BY <1>2 DEF FetchResponse, Calls, Inv, CallInv, Owners, Owner, ResponseTo
  <2> QED
    BY <1>0, <1>2, <2>1 DEF FetchResponse, Calls, Inv, Returned, CallInv, CallTypes
<1>3. ASSUME NEW t \in Tasks, Release(t) PROVE Returned'
  BY <1>3 DEF Release, Calls, Inv, Returned, CallInv, CallTypes
<1>4. ASSUME NEW t \in Tasks,
             Begin(t) \/ Acquire(t) \/ Format(t) \/ PostCommand(t) \/ WakeStack(t)
               \/ PendResponse(t)
      PROVE  Returned'
  BY <1>4 DEF Begin, Acquire, Format, PostCommand, WakeStack, PendResponse, Calls, Inv,
     Returned, CallInv, CallTypes
<1>5. UNCHANGED <<call, result>> \/ \E t \in Tasks : Begin(t) \/ Proceed(t)
  BY DEF Next, vars, callVars, Raise, Compact, EndTick, StackProceeds, StackTimeout, StackIsr,
     AfEndTick, AfProceeds, Handled, AfTimeout, StackAcquiresBuffers, Allocate, Drop, CopyIn,
     Put, PostCallback, TakeCommand, FetchCommand, FormatResponse, PostResponse, Yield,
     StackWoken, Receive, AfAcquiresBuffers, Point, CopyOut, AfYield, AfWoken, AfRest,
     CallbackRest
<1> QED
  BY <1>1, <1>2, <1>3, <1>4, <1>5 DEF Proceed

\* The part of the mapping that calls change, and the part that callbacks change.
SameCalls == Asked' = Asked /\ Answered' = Answered /\ result' = result
SameMailbox == Mailbox' = Mailbox /\ callbackData' = callbackData

LEMMA MailboxUnchanged ==
  ASSUME UNCHANGED <<callbackBuffer, heap, callbackQueue, taken, callbackData>>
  PROVE  SameMailbox
  BY DEF SameMailbox, Mailbox, Content

LEMMA CallsUnchanged ==
  ASSUME UNCHANGED <<call, argument, result, apiCommandData>>
  PROVE  SameCalls
  BY DEF SameCalls, Asked, Answered

LEMMA CallRefines ==
  ASSUME Inv, NEW t \in Tasks, Begin(t) \/ Proceed(t)
  PROVE  /\ SameMailbox
         /\ \/ SameCalls
            \/ Service!Ask(t)
            \/ Service!Return(t)
            \/ Service!Use(t)
<1>0. SameMailbox
  BY MailboxUnchanged
  DEF Begin, Proceed, Acquire, Format, PostCommand, WakeStack, PendResponse,
      FetchResponse, Release, callbackVars
<1> USE <1>0 DEF Calls
<1>1. CASE Begin(t)
  <2>1. PICK x \in Arguments : argument' = [argument EXCEPT ![t] = x]
    BY <1>1 DEF Begin
  <2>2. Asked[t] = None /\ result[t] = None
    BY <1>1 DEF Begin, Asked, Asking, Inv, Returned
  <2>3. Asked' = [Asked EXCEPT ![t] = x]
    BY <1>1, <2>1 DEF Begin, Asked, Asking, Inv, CallInv, CallTypes
  <2>4. Answered' = Answered /\ result' = result
    BY <1>1 DEF Begin, Answered, Inv, CallInv, CallTypes
  <2> QED BY <2>2, <2>3, <2>4 DEF Service!Ask, SameMailbox
<1>2. CASE Acquire(t) \/ PostCommand(t) \/ WakeStack(t) \/ PendResponse(t)
  <2>1. Asked' = Asked /\ result' = result
    BY <1>2 DEF Acquire, PostCommand, WakeStack, PendResponse, Asked, Asking, Inv, CallInv,
       CallTypes
  <2>2. CASE Acquire(t) \/ WakeStack(t) \/ PendResponse(t)
    BY <2>1, <2>2 DEF Acquire, WakeStack, PendResponse, SameCalls, Answered, Inv, CallInv,
       CallTypes
  <2>3. CASE PostCommand(t)
    <3>1. apiCommandData.kind = "command"
      BY <2>3 DEF PostCommand, Inv, CallInv, Owners, Owner, CommandOf
    <3> QED BY <2>1, <2>3, <3>1 DEF PostCommand, SameCalls, Answered
  <2> QED BY <1>2, <2>2, <2>3
<1>3. CASE Format(t)
  <2>1. \A u \in Tasks : call[u] \notin {"wake", "pend", "fetch"}
    BY <1>3 DEF Format, Inv, CallInv, Owners, Owner, Calling
  <2>2. Answered = {} /\ Answered' = {}
    BY <1>3, <2>1 DEF Format, Answered, Inv, CallInv, CallTypes
  <2>3. Asked' = Asked /\ result' = result
    BY <1>3 DEF Format, Asked, Asking, Inv, CallInv, CallTypes
  <2> QED BY <2>2, <2>3 DEF SameCalls
<1>4. CASE FetchResponse(t)
  <2>1. apiCommandData = ResponseTo(t)
    BY <1>4 DEF FetchResponse, Inv, CallInv, Owners, Owner
  <2>2. t \in Answered /\ Asked[t] = argument[t]
    BY <1>4, <2>1 DEF FetchResponse, Answered, Asked, Asking, ResponseTo
  <2>3. Answered' = Answered \ {t}
    BY <1>4 DEF FetchResponse, Answered, Inv, CallInv, CallTypes
  <2>4. result' = [result EXCEPT ![t] = Asked[t]]
    BY <1>4, <2>1, <2>2 DEF FetchResponse, ResponseTo
  <2>5. Asked' = [Asked EXCEPT ![t] = None]
    BY <1>4 DEF FetchResponse, Asked, Asking, Inv, CallInv, CallTypes
  <2> QED BY <2>2, <2>3, <2>4, <2>5 DEF Service!Return, SameMailbox
<1>5. CASE Release(t)
  <2>1. result[t] # None
    BY <1>5 DEF Release, Inv, Returned
  <2>2. Asked' = Asked /\ Answered' = Answered
    BY <1>5 DEF Release, Asked, Asking, Answered, Inv, CallInv, CallTypes
  <2> QED BY <1>5, <2>1, <2>2 DEF Release, Service!Use, SameMailbox
<1> QED
  BY <1>0, <1>1, <1>2, <1>3, <1>4, <1>5 DEF Proceed

\* The stack's answer is the service's.
LEMMA AnswerRefines ==
  ASSUME Inv, FormatResponse
  PROVE  SameMailbox /\ \E t \in Tasks : Service!Answer(t)
<1>0. SameMailbox
  BY MailboxUnchanged DEF FormatResponse, callbackVars
<1>1. Busy /\ Serving /\ stack = "serve"
  BY DEF FormatResponse, StackAt, Busy, Serving
<1>2. PICK t \in Tasks :
        /\ call[t] \in {"wake", "pend"} /\ Turn(t) /\ argument[t] \in Arguments
        /\ \A u \in Tasks : u # t => call[u] \in {"none", "acquire"}
  BY <1>1, BusyHasOwner DEF Inv
<1>3. command = CommandOf(t) /\ apiCommandData = CommandOf(t)
  BY <1>1, <1>2 DEF Turn, Busy, Serving, Sending
<1>4. Answered = {} /\ Answered' = {t}
  BY <1>2, <1>3 DEF FormatResponse, Answered, CommandOf
<1>5. Asked[t] # None /\ Asked' = Asked /\ result' = result
  BY <1>2, ConstantsAssumption DEF FormatResponse, Asked, Asking
<1> QED
  BY <1>0, <1>4, <1>5 DEF Service!Answer, SameMailbox

\* The other steps of the stack task change nothing but what is accepted.
LEMMA StackRefines ==
  ASSUME Inv,
         \/ Raise \/ Compact \/ EndTick \/ StackAcquiresBuffers \/ Allocate \/ Drop
         \/ CopyIn \/ Put \/ PostCallback \/ TakeCommand \/ FetchCommand \/ PostResponse
         \/ Yield \/ StackWoken \/ StackTimeout \/ StackIsr
  PROVE  SameCalls /\ (SameMailbox \/ Service!Accept)
<1>0. SameCalls
  BY CallsUnchanged
  DEF Raise, Compact, EndTick, StackAcquiresBuffers, Allocate, Drop, CopyIn, Put,
      PostCallback, TakeCommand, FetchCommand, PostResponse, Yield, StackWoken, StackTimeout,
      StackIsr, callVars, CallbackRest
<1>00. None \notin Index /\ None \notin Heap
  BY ConstantsAssumption DEF Index
<1> USE DEF Inv, HandleInv, StackAt, CallbackRest
<1>1. CASE \/ Raise \/ EndTick \/ StackAcquiresBuffers \/ Drop \/ PostCallback \/ TakeCommand
           \/ FetchCommand \/ PostResponse \/ Yield \/ StackWoken \/ StackTimeout \/ StackIsr
  <2>1. UNCHANGED <<callbackBuffer, heap, callbackQueue, taken, callbackData>>
    BY <1>1 DEF Raise, EndTick, StackAcquiresBuffers, Drop, PostCallback, TakeCommand,
       FetchCommand, PostResponse, Yield, StackWoken, StackTimeout, StackIsr, callbackVars
  <2> QED BY <1>0, <2>1, MailboxUnchanged
\* What is queued or taken keeps its contents.
<1>2. ASSUME UNCHANGED <<callbackQueue, taken, callbackData>>,
             \A i \in Index : Queued(i) \/ i = taken => Content(i)' = Content(i)
      PROVE  SameMailbox
  <2>1. \A k \in 1 .. Len(callbackQueue) :
          Content(callbackQueue[k])' = Content(callbackQueue[k])
    <3> TAKE k \in 1 .. Len(callbackQueue)
    <3>1. callbackQueue[k] \in Index /\ Queued(callbackQueue[k])
          /\ callbackQueue'[k] = callbackQueue[k]
      BY <1>2 DEF CallbackTypes, Queued
    <3> QED BY <1>2, <3>1 DEF Content
  <2>2. CASE taken = None
    BY <1>2, <2>1, <2>2 DEF SameMailbox, Mailbox
  <2>3. CASE taken # None
    <3>1. Content(taken)' = Content(taken)
      BY <1>2, <2>3 DEF CallbackTypes, Content
    <3>2. \A k \in 1 .. Len(callbackQueue) + 1 :
            k # 1 => k - 1 \in 1 .. Len(callbackQueue)
      BY DEF CallbackTypes
    <3> QED BY <1>2, <2>1, <2>3, <3>1, <3>2 DEF SameMailbox, Mailbox
  <2> QED BY <2>2, <2>3
<1>3. CASE Allocate
  <2>1. FirstFree \in Index /\ callbackBuffer[FirstFree] = None
    BY <1>3, FirstFreeIsFree DEF Allocate
  <2>2. ~Queued(FirstFree) /\ FirstFree # taken
    BY <2>1 DEF Accounted
  <2> QED BY <1>0, <1>2, <1>3, <2>1, <2>2 DEF Allocate, Content, CallbackTypes
<1>4. CASE CopyIn
  <2>1. slot \in Index /\ callbackBuffer[slot] \in Heap /\ ~Queued(slot) /\ slot # taken
    BY <1>4, <1>00 DEF CopyIn, CallbackTypes, Hands, Accounted, Handle
  <2>2. \A i \in Index : Queued(i) \/ i = taken => callbackBuffer[i] # None /\ i # slot
    BY <2>1 DEF Accounted
  <2>3. \A i \in Index : Queued(i) \/ i = taken => callbackBuffer[i] # callbackBuffer[slot]
    BY <2>1, <2>2 DEF Distinct
  <2> QED BY <1>0, <1>2, <1>4, <2>1, <2>3 DEF CopyIn, Content, CallbackTypes
<1>5. CASE Compact
  <2>1. PICK i \in Index, p \in Free :
          /\ callbackBuffer[i] # None
          /\ heap' = [heap EXCEPT ![p] = heap[callbackBuffer[i]],
                                  ![callbackBuffer[i]] = None]
          /\ callbackBuffer' = [callbackBuffer EXCEPT ![i] = p]
    BY <1>5 DEF Compact
  <2>2. p \in Heap /\ p # None /\ \A j \in Index : callbackBuffer[j] # p
    BY <2>1, <1>00 DEF Free
  <2>3. \A j \in Index : callbackBuffer[j] # None =>
          heap'[callbackBuffer'[j]] = heap[callbackBuffer[j]]
    BY <2>1, <2>2 DEF CallbackTypes, Handle, Distinct
  <2>4. \A j \in Index : Queued(j) \/ j = taken => callbackBuffer[j] # None
    BY DEF Accounted
  <2> QED BY <1>0, <1>2, <1>5, <2>3, <2>4 DEF Compact, Content
<1>6. CASE Put
  <2>1. slot \in Index /\ Len(callbackQueue) < Slots /\ Content(slot) \in Callbacks
    BY <1>6, RoomAtPut DEF Put, CallbackTypes, Hands, Contents, Content
  <2>2. callbackQueue' = Append(callbackQueue, slot) /\ callbackQueue \in Seq(Index)
    BY <1>6, <2>1 DEF Put, CallbackTypes
  <2>3. UNCHANGED <<callbackBuffer, heap, taken, callbackData>>
    BY <1>6 DEF Put
  <2>4. Mailbox' = Append(Mailbox, Content(slot))
    <3>1. Len(callbackQueue') = Len(callbackQueue) + 1
          /\ callbackQueue'[Len(callbackQueue) + 1] = slot
          /\ \A k \in 1 .. Len(callbackQueue) : callbackQueue'[k] = callbackQueue[k]
      BY <2>1, <2>2
    <3>2. \A i : Content(i)' = heap[callbackBuffer[i]]
      BY <2>3 DEF Content
    <3>3. CASE taken = None
      <4>1. Mailbox = [k \in 1 .. Len(callbackQueue) |-> Content(callbackQueue[k])]
        BY <3>3 DEF Mailbox
      <4>2. Mailbox' = [k \in 1 .. Len(callbackQueue) + 1 |->
                          heap[callbackBuffer[callbackQueue'[k]]]]
        BY <2>3, <3>1, <3>2, <3>3 DEF Mailbox
      <4> QED BY <2>2, <3>1, <4>1, <4>2 DEF Content
    <3>4. CASE taken # None
      <4>1. Mailbox = [k \in 1 .. Len(callbackQueue) + 1 |->
                         IF k = 1 THEN Content(taken) ELSE Content(callbackQueue[k - 1])]
        BY <3>4 DEF Mailbox
      <4>2. Mailbox' = [k \in 1 .. Len(callbackQueue) + 2 |->
                          IF k = 1 THEN heap[callbackBuffer[taken]]
                          ELSE heap[callbackBuffer[callbackQueue'[k - 1]]]]
        BY <2>2, <2>3, <3>1, <3>2, <3>4 DEF Mailbox
      <4> QED BY <2>2, <3>1, <4>1, <4>2 DEF Content
    <3> QED BY <3>3, <3>4
  <2>5. Len(Mailbox) < Slots
    <3>1. Len(callbackQueue) + (IF taken = None THEN 0 ELSE 1) < Slots
      BY <1>6, RoomToPut DEF Put
    <3>2. Len(callbackQueue) \in Nat
      BY DEF CallbackTypes
    <3>3. CASE taken = None
      <4>1. Len(Mailbox) = Len(callbackQueue)
        BY <3>2, <3>3 DEF Mailbox
      <4> QED BY <3>1, <3>3, <4>1
    <3>4. CASE taken # None
      <4>1. Len(Mailbox) = Len(callbackQueue) + 1
        BY <3>2, <3>4 DEF Mailbox
      <4> QED BY <3>1, <3>4, <4>1
    <3> QED BY <3>3, <3>4
  <2> QED BY <1>0, <2>1, <2>3, <2>4, <2>5 DEF Service!Accept, SameCalls
<1> QED
  BY <1>1, <1>3, <1>4, <1>5, <1>6

LEMMA AfRefines ==
  ASSUME Inv, AfEndTick \/ AfProceeds \/ Handled \/ AfTimeout
  PROVE  SameCalls /\ (SameMailbox \/ Service!Deliver \/ Service!Handle)
<1>0. SameCalls
  BY CallsUnchanged
  DEF AfEndTick, AfProceeds, Handled, AfTimeout, Receive, AfAcquiresBuffers, Point, CopyOut,
      AfYield, AfWoken, callVars, AfRest
<1>00. None \notin Index /\ None \notin Heap /\ None \notin Callbacks
  BY ConstantsAssumption DEF Index
<1> USE DEF Inv, HandleInv, AfAt, AfGoes, AfRest
<1>1. CASE AfEndTick \/ AfTimeout \/ AfAcquiresBuffers \/ Point \/ AfYield \/ AfWoken
  BY <1>0, <1>1, MailboxUnchanged
  DEF AfEndTick, AfTimeout, AfAcquiresBuffers, Point, AfYield, AfWoken, callbackVars
<1>2. CASE Handled
  <2>1. callbackData # None
    BY <1>2 DEF Handled, Contents
  <2>2. Mailbox' = Mailbox
    BY <1>2 DEF Handled, Mailbox, Content
  <2> QED BY <1>0, <1>2, <2>1, <2>2 DEF Handled, Service!Handle, SameCalls
<1>3. CASE Receive
  <2>1. CASE callbackQueue = <<>>
    BY <1>0, <1>3, <2>1, MailboxUnchanged DEF Receive
  <2>2. CASE callbackQueue # <<>>
    <3>1. taken = None /\ callbackQueue' = Tail(callbackQueue)
          /\ taken' = Head(callbackQueue) /\ callbackQueue \in Seq(Index)
          /\ UNCHANGED <<callbackBuffer, heap, callbackData>>
      BY <1>3, <2>2 DEF Receive, Hands, CallbackTypes
    <3>2. taken' = callbackQueue[1] /\ taken' \in Index
          /\ Len(callbackQueue') = Len(callbackQueue) - 1 /\ Len(callbackQueue) \in Nat
          /\ \A k \in 1 .. Len(callbackQueue) :
               k # 1 => callbackQueue'[k - 1] = callbackQueue[k]
      BY <2>2, <3>1
    <3>3. \A i : Content(i)' = heap[callbackBuffer[i]]
      BY <3>1 DEF Content
    <3>4. Mailbox = [k \in 1 .. Len(callbackQueue) |-> heap[callbackBuffer[callbackQueue[k]]]]
      BY <3>1 DEF Mailbox, Content
    <3>5. Mailbox' = [k \in 1 .. Len(callbackQueue) |->
                        IF k = 1 THEN heap[callbackBuffer[taken']]
                        ELSE heap[callbackBuffer[callbackQueue'[k - 1]]]]
      <4>1. taken' # None /\ Len(callbackQueue') + 1 = Len(callbackQueue)
        BY <1>00, <3>2
      <4>2. Mailbox' = [k \in 1 .. Len(callbackQueue') + 1 |->
                          IF k = 1 THEN heap[callbackBuffer[taken']]
                          ELSE heap[callbackBuffer[callbackQueue'[k - 1]]]]
        BY <3>3, <4>1 DEF Mailbox
      <4> QED BY <4>1, <4>2
    <3>6. Mailbox' = Mailbox
      BY <3>2, <3>4, <3>5
    <3> QED BY <1>0, <3>1, <3>6 DEF SameMailbox
  <2> QED BY <2>1, <2>2
<1>4. CASE CopyOut
  <2>1. taken \in Index /\ pointer = callbackBuffer[taken] /\ pointer \in Heap
        /\ ~Queued(taken) /\ callbackData = None
    BY <1>4, <1>00 DEF CopyOut, Hands, Accounted, Contents, CallbackTypes, Handle
  <2>2. \A k \in 1 .. Len(callbackQueue) :
          /\ callbackQueue[k] \in Index /\ callbackQueue[k] # taken
          /\ callbackBuffer[callbackQueue[k]] # None
          /\ callbackBuffer[callbackQueue[k]] # pointer
    <3> TAKE k \in 1 .. Len(callbackQueue)
    <3>1. callbackQueue[k] \in Index /\ Queued(callbackQueue[k])
      BY DEF CallbackTypes, Queued
    <3>2. callbackQueue[k] # taken /\ callbackBuffer[callbackQueue[k]] # None
      BY <2>1, <3>1 DEF Accounted
    <3> QED BY <2>1, <3>1, <3>2 DEF Distinct
  <2>3. \A k \in 1 .. Len(callbackQueue) :
          heap'[callbackBuffer'[callbackQueue[k]]] = heap[callbackBuffer[callbackQueue[k]]]
    BY <1>4, <2>1, <2>2 DEF CopyOut, CallbackTypes, Handle
  <2>4. Mailbox = [k \in 1 .. Len(callbackQueue) + 1 |->
                     IF k = 1 THEN heap[pointer]
                     ELSE heap[callbackBuffer[callbackQueue[k - 1]]]]
    BY <1>00, <2>1 DEF Mailbox, Content
  <2>5. taken' = None /\ callbackQueue' = callbackQueue
    BY <1>4 DEF CopyOut
  <2>6. Mailbox' = [k \in 1 .. Len(callbackQueue) |->
                      heap'[callbackBuffer'[callbackQueue[k]]]]
    BY <2>5 DEF Mailbox, Content
  <2>7. Mailbox' = [k \in 1 .. Len(callbackQueue) |->
                      heap[callbackBuffer[callbackQueue[k]]]]
    BY <2>3, <2>6
  <2>8. Mailbox # <<>> /\ Head(Mailbox) = heap[pointer] /\ Tail(Mailbox) = Mailbox'
    <3>1. Len(callbackQueue) \in Nat
      BY DEF CallbackTypes
    <3> QED BY <2>4, <2>7, <3>1
  <2>9. callbackData' = heap[pointer]
    BY <1>4 DEF CopyOut
  <2> QED BY <1>0, <2>1, <2>8, <2>9 DEF Service!Deliver, SameCalls
<1> QED
  BY <1>1, <1>2, <1>3, <1>4 DEF AfProceeds

LEMMA InitRefines == Init => Service!Init
<1> SUFFICES ASSUME Init PROVE Service!Init
  OBVIOUS
<1>1. Asked = [t \in Tasks |-> None] /\ Answered = {}
  BY DEF Init, Asked, Asking, Answered
<1>2. Mailbox = <<>>
  BY DEF Init, Mailbox
<1> QED BY <1>1, <1>2 DEF Init, Service!Init

LEMMA NextRefines == Inv /\ [Next]_vars => [Service!Next]_(Service!vars)
<1> SUFFICES ASSUME Inv, [Next]_vars PROVE [Service!Next]_(Service!vars)
  OBVIOUS
<1> USE DEF Service!Next, Service!vars, SameCalls, SameMailbox
<1>1. CASE UNCHANGED vars
  BY <1>1, CallsUnchanged, MailboxUnchanged DEF vars, callVars, callbackVars
<1>2. ASSUME NEW t \in Tasks, Begin(t) \/ Proceed(t) PROVE [Service!Next]_(Service!vars)
  BY <1>2, CallRefines
<1>3. CASE StackProceeds
  BY <1>3, AnswerRefines, StackRefines DEF StackProceeds
<1>4. CASE Raise \/ Compact \/ EndTick \/ StackTimeout \/ StackIsr
  BY <1>4, StackRefines
<1>5. CASE AfEndTick \/ AfProceeds \/ Handled \/ AfTimeout
  BY <1>5, AfRefines
<1> QED
  BY <1>1, <1>2, <1>3, <1>4, <1>5 DEF Next

\* The flags, mutexes, buffers and queue implement the service.
THEOREM ServiceImplemented == Spec => ImplementsService
<1>1. Init => Inv
  BY InitInv
<1>2. Inv /\ [Next]_vars => Inv'
  BY NextCallInv, NextHandleInv, NextReturned DEF Inv
<1>3. Init => Service!Init
  BY InitRefines
<1>4. Inv /\ [Next]_vars => [Service!Next]_(Service!vars)
  BY NextRefines
<1> QED
  BY <1>1, <1>2, <1>3, <1>4, PTL DEF Spec, ImplementsService, Service!Spec
=============================================================================
