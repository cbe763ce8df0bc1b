----------------------- MODULE BtRtosAdaptationProofs -----------------------
(***************************************************************************)
(* Proofs about BtRtosAdaptation, for any tasks that call BGAPI commands,  *)
(* arguments, events and bounds: commands exclude each other and read      *)
(* their own responses, the event buffer is never overwritten, a start     *)
(* finds nothing of the run before it, and StackService is implemented.    *)
(***************************************************************************)
EXTENDS BtRtosAdaptation, FiniteSetTheorems, TLAPS

-----------------------------------------------------------------------------
(* The inductive invariant. Its parts follow what the threads share.       *)

Both == {"event flags", "mutex"}
Loop == {"loop", "serve", "nested", "unnest", "served", "respond", "run", "hand", "sleep"}
Serves == {"serve", "nested", "unnest"}
Turned == Serves \cup {"served", "respond"}

\* What bluetooth_thread() has created and recorded at each of its places: the
\* RTOS objects live from its first step to its clean-up, the stack is known as
\* started only while its loop runs, and it leaves the loop only to stop.
LifeInv ==
  /\ Idle <=> bt = "none"
  /\ "STARTED" \in state => bt \in Loop \cup {"delete", "clear"}
  /\ "STOPPING" \in state => "STARTED" \in state
  /\ objects = IF bt \in {"none", "clear"} THEN {} ELSE Both
  /\ objects = {} => flags = {}
  /\ bt = "none" => local = {} /\ ~failed
  /\ bt \in {"none", "created"} => ~tid
  /\ bt \in {"none", "created", "delete", "clear"} => threads = {} /\ handler = "gone"
  /\ "STOPPED" \in flags \cup local => failed \/ "STOPPING" \in state
  /\ bt \in {"delete", "clear"} => failed \/ "STOPPING" \in state
  /\ failed => "STARTED" \notin state /\ bt \in {"loop", "delete", "clear"} /\ "STOPPED" \in local
  /\ bt \in Loop /\ ~failed => "STARTED" \in state

\* No command is under way: no flag tells of one, and the thread serves none.
Quiet == "CMD_WAITING" \notin flags \cup local /\ "RSP_WAITING" \notin flags /\ bt \notin Turned
CommandOf(t) == [kind |-> "command", of |-> t, argument |-> argument[t]]
ResponseTo(t) == [kind |-> "response", of |-> t, argument |-> argument[t]]

\* While a caller waits, exactly one place holds its command: the CMD_WAITING flag
\* (set, or taken by the thread), the thread, or the RSP_WAITING flag.
Turn(t) ==
  \/ /\ "CMD_WAITING" \in flags \cup local /\ "CMD_WAITING" \notin flags \cap local
     /\ "RSP_WAITING" \notin flags
     /\ bt \notin Turned /\ command = CommandOf(t) /\ message = CommandOf(t) /\ Available
  \/ /\ "CMD_WAITING" \notin flags /\ "RSP_WAITING" \notin flags /\ bt \in Serves
     /\ serving = CommandOf(t) /\ Available /\ message = CommandOf(t)
  \/ /\ "CMD_WAITING" \notin flags /\ "RSP_WAITING" \notin flags /\ bt = "served"
     /\ message = ResponseTo(t)
  \/ /\ "CMD_WAITING" \notin flags \cup local /\ "RSP_WAITING" \notin flags /\ bt = "respond"
     /\ message = ResponseTo(t)
  \/ /\ "CMD_WAITING" \notin flags \cup local /\ ("RSP_WAITING" \in flags \/ objects = {})
     /\ bt \notin Turned
     /\ message = ResponseTo(t)

\* What a caller may rely on at each of its steps: inside, the mutex is its own.
\* The one owner that is not inside is the event handler, terminated while it held it.
Owner(t) ==
  /\ call[t] \in Inside => mutex = t
  /\ call[t] = "none" <=> argument[t] = None
  /\ mutex = t /\ call[t] \notin Inside => t = Handler /\ bt \in {"delete", "clear", "none"}
  /\ call[t] = "start" => argument[t] = "start"
  /\ call[t] \in {"delegate", "signal", "pend", "fetch"} => argument[t] \in Arguments
  /\ call[t] \in {"count", "start", "delegate", "unlock", "release"} => Quiet
  /\ call[t] = "delegate" => Available
  /\ call[t] = "signal" => Quiet /\ Available /\ command = CommandOf(t) /\ message = CommandOf(t)
  /\ call[t] = "pend" => Turn(t)
  /\ call[t] = "fetch" => Quiet /\ message = ResponseTo(t)
  /\ call[t] # "none" => Running

Owners == \A t \in Callers : Owner(t)
LockInv == Owners /\ mutex # Bluetooth /\ (mutex = None => Quiet) /\ (mutex # None => Running)

\* The recursion counter follows the owner and the Bluetooth thread's nested command.
CountOf(t) ==
  /\ call[t] \in {"count", "release"} => recursion = 0
  /\ call[t] \in Counted \ {"pend"} => recursion = 1
  /\ call[t] = "pend" => recursion = IF bt \in {"nested", "unnest"} THEN 2 ELSE 1

CountInv ==
  /\ recursion \in Nat
  /\ mutex = None => recursion = 0
  /\ \A t \in Callers : CountOf(t)

\* One token guards the event buffer: EVT_HANDLED (set, or taken by the thread),
\* EVT_WAITING, or the event handler that works on the buffer.
Token ==
  /\ bt = "created" => {"EVT_HANDLED", "EVT_WAITING"} \cap flags = {}
  /\ bt = "hand" => "EVT_HANDLED" \in local
  /\ "EVT_HANDLED" \in local => {"EVT_HANDLED", "EVT_WAITING"} \cap flags = {} /\ handler # "handle"
  /\ "EVT_HANDLED" \in flags => "EVT_WAITING" \notin flags /\ handler # "handle"
  /\ "EVT_WAITING" \in flags => handler # "handle"
  /\ handler = "handle" => evt = handling

\* The types of a call's variables.
CallShape ==
  /\ command \in Message \cup {Nothing} /\ message \in Message \cup {Nothing}
  /\ mutex \in Callers \cup {Bluetooth, None}
  /\ call \in [Callers -> {"none", "lock"} \cup Inside]
  /\ argument \in [Callers -> Arguments \cup {"start", None}]
  /\ result \in [Callers -> Arguments \cup {None}]

\* At most one caller starts the stack, and only while there is none.
StartInv ==
  /\ \A t \in Callers : argument[t] = "start" => t \in Starters
  /\ \A t, u \in Callers : argument[t] = "start" /\ argument[u] = "start" => t = u
  /\ \A t \in Callers : argument[t] = "start" =>
       \/ /\ call[t] \in {"lock", "count", "start"} /\ bt = "none"
          /\ retired = "none" \/ (t = Retired /\ retired = "process")
       \/ call[t] \in {"unlock", "release"}
  /\ retired = "deliver" => bt = "none"
  /\ retired # "none" => Running

\* What the mapping to the abstract service rests on besides.
MapInv ==
  /\ \A t \in Callers : result[t] # None => call[t] \in {"unlock", "release"}
  /\ handler # "handle" <=> handling = None
  /\ Handed => evt # None
  /\ pending # <<>> => "STARTED" \in state /\ bt \in Loop /\ "STOPPED" \notin flags \cup local

\* The event of a thread that failed to start stays while it is processed.
ErrorInv ==
  /\ retired # "none" => bt = "none"
  /\ retired = "process" => evt = "system_error"

-----------------------------------------------------------------------------
(* Every step keeps each part.                                             *)

\* The thread's places and the state flags of the adaptation stay in step.
LEMMA LifeStep ==
  ASSUME LifeTypes, ThreadTypes, LifeInv, Next
  PROVE  LifeInv'
<1> USE DEF LifeTypes, ThreadTypes, LifeInv, Idle, Loop, Both, Serves, Turned, callVars, lockVars,
       lifeVars, eventVars, btVars, StateFlags, Flags, Kept, Awaited, At, Goes, Calls
<1>1. CASE AppInit BY <1>1 DEF AppInit, StartAdaptation
<1>2. CASE KernelStart BY <1>2 DEF KernelStart
<1>3. ASSUME NEW t \in Callers, Begin(t) PROVE LifeInv' BY <1>3 DEF Begin
<1>4. ASSUME NEW t \in Callers, Lock(t) PROVE LifeInv' BY <1>4 DEF Lock
<1>5. ASSUME NEW t \in Callers, Count(t) PROVE LifeInv' BY <1>5 DEF Count
<1>6. ASSUME NEW t \in Callers, Start(t) PROVE LifeInv' BY <1>6 DEF Start, StartAdaptation
<1>7. ASSUME NEW t \in Callers, Delegate(t) PROVE LifeInv' BY <1>7 DEF Delegate
<1>8. ASSUME NEW t \in Callers, Signal(t) PROVE LifeInv' BY <1>8 DEF Signal
<1>9. ASSUME NEW t \in Callers, Pend(t) PROVE LifeInv' BY <1>9 DEF Pend
<1>10. ASSUME NEW t \in Callers, Fetch(t) PROVE LifeInv' BY <1>10 DEF Fetch
<1>32. ASSUME NEW t \in Callers, Unlock(t) PROVE LifeInv'
  <2>1. UNCHANGED lifeVars /\ UNCHANGED eventVars /\ UNCHANGED btVars /\ UNCHANGED flags
    BY <1>32 DEF Unlock
  <2> QED BY <2>1
<1>33. ASSUME NEW t \in Callers, Release(t) PROVE LifeInv' BY <1>33 DEF Release
<1>11. CASE BtCreates BY <1>11 DEF BtCreates
<1>12. CASE BtStarts
  <2>1. CASE state' = (state \ {"STARTING"}) \cup {"STARTED"} /\ UNCHANGED <<failed, local>>
    <3>1. bt = "start" /\ bt' = "loop" /\ UNCHANGED <<objects, tid, threads, flags, handler>>
      BY <1>12 DEF BtStarts
    <3>5. ~failed BY <3>1
    <3>2. ~failed /\ ~failed' BY <2>1, <3>5
    <3>3. ~Idle' /\ "STARTED" \in state' BY <2>1
    <3>4. UNCHANGED <<objects, tid, threads, flags, handler, local>> BY <2>1, <3>1
    <3> QED BY <3>1, <3>2, <3>3, <3>4, <2>1
  <2>2. CASE failed' /\ local' = local \cup {"STOPPED"} /\ UNCHANGED state
    BY <1>12, <2>2 DEF BtStarts
  <2> QED BY <1>12, <2>1, <2>2 DEF BtStarts
<1>13. CASE BtTakesCommand BY <1>13 DEF BtTakesCommand
<1>14. CASE BtTakesNone BY <1>14 DEF BtTakesNone
<1>15. CASE NestLock BY <1>15 DEF NestLock
<1>34. CASE NestDelegate BY <1>34 DEF NestDelegate
<1>35. CASE NestUnlock BY <1>35 DEF NestUnlock
<1>16. CASE BtServes BY <1>16 DEF BtServes
<1>17. CASE BtForgets BY <1>17 DEF BtForgets
<1>18. CASE BtResponds BY <1>18 DEF BtResponds
<1>19. CASE BtRaises BY <1>19 DEF BtRaises
<1>20. CASE BtStopped BY <1>20 DEF BtStopped
<1>21. CASE BtPops BY <1>21 DEF BtPops
<1>36. CASE BtFailsToPop BY <1>36 DEF BtFailsToPop
<1>37. CASE BtPopsNone BY <1>37 DEF BtPopsNone
<1>38. CASE BtStays BY <1>38 DEF BtStays
<1>22. CASE BtHands BY <1>22 DEF BtHands
<1>23. CASE BtWakes BY <1>23 DEF BtWakes
<1>24. CASE BtTerminates BY <1>24 DEF BtTerminates
<1>25. CASE BtDeletes BY <1>25 DEF BtDeletes
<1>26. CASE BtClears BY <1>26 DEF BtClears
<1>27. CASE RetiredDelivers BY <1>27 DEF RetiredDelivers
<1>39. CASE RetiredEnds BY <1>39 DEF RetiredEnds
<1>28. CASE HandlerTakes BY <1>28 DEF HandlerTakes
<1>29. CASE HandlerDone BY <1>29 DEF HandlerDone
<1>30. CASE Interrupt BY <1>30 DEF Interrupt
<1>31. CASE LinkLayer BY <1>31 DEF LinkLayer
<1> QED
  BY <1>1, <1>2, <1>3, <1>4, <1>5, <1>6, <1>7, <1>8, <1>9, <1>10, <1>11, <1>12, <1>13, <1>14,
     <1>15, <1>16, <1>17, <1>18, <1>19, <1>20, <1>21, <1>22, <1>23, <1>24, <1>25, <1>26, <1>27,
     <1>28, <1>29, <1>30, <1>31, <1>32, <1>33, <1>34, <1>35, <1>36, <1>37, <1>38, <1>39
  DEF Next, Proceed, BtProceeds

-----------------------------------------------------------------------------
(* The lock. A step that leaves the mutex and the calls alone keeps LockInv *)
(* when it keeps the command where it is.                                  *)

LEMMA LockFrame ==
  ASSUME LockInv, UNCHANGED <<mutex, call, argument>>, Running => Running',
         Quiet => Quiet' /\ (Available => Available') /\ UNCHANGED <<command, message>>,
         bt \in {"delete", "clear", "none"} => bt' \in {"delete", "clear", "none"},
         \A t \in Callers : Turn(t) => Turn(t)'
  PROVE  LockInv'
<1>1. ASSUME NEW t \in Callers PROVE Owner(t)'
  BY <1>1 DEF LockInv, Owners, Owner, CommandOf, ResponseTo
<1> QED BY <1>1 DEF LockInv, Owners

\* A step of the caller that has or takes the mutex leaves the others' facts alone:
\* they are not inside.
LEMMA Others ==
  ASSUME LockInv, CallShape, NEW t \in Callers, mutex \in {t, None}, mutex' \in {t, None},
         call' = [call EXCEPT ![t] = call'[t]], argument' = [argument EXCEPT ![t] = argument'[t]],
         Running => Running'
  PROVE  \A u \in Callers \ {t} : Owner(u)'
<1>1. SUFFICES ASSUME NEW u \in Callers \ {t} PROVE Owner(u)' OBVIOUS
<1>2. mutex # u /\ mutex' # u BY ConstantsAssumption
<1>3. call[u] \notin Inside /\ call'[u] = call[u] /\ argument'[u] = argument[u]
  BY <1>2 DEF LockInv, Owners, Owner, CallShape
<1>4. call[u] \in {"none", "lock"} BY <1>3 DEF CallShape
<1> QED BY <1>2, <1>3, <1>4 DEF LockInv, Owners, Owner, Inside

\* A caller's own steps through sli_bt_cmd_handler_rtos_delegate().
LEMMA CallerStep ==
  ASSUME LockInv, CallShape, CountInv, LifeInv, LifeTypes, ThreadTypes,
         NEW t \in Callers, Begin(t) \/ Proceed(t)
  PROVE  LockInv' /\ CallShape'
<1>0. Owner(t) BY DEF LockInv, Owners
<1>00. t # None /\ None \notin Arguments \cup {"start"} /\ Bluetooth # t /\ None # Bluetooth
  BY ConstantsAssumption DEF Callers, Arguments, Handler, Retired, Bluetooth
<1> USE <1>0, <1>00 DEF Calls, CallShape, Inside, lockVars, callVars, lifeVars, eventVars, btVars, Arguments
<1>1. CASE Begin(t)
  <2>1. CallShape' BY <1>1 DEF Begin
  <2>2. ASSUME NEW u \in Callers PROVE Owner(u)'
    <3>1. CASE u = t BY <1>1, <3>1 DEF Begin, MayCall, Owner, Quiet, Running
    <3>2. CASE u # t
      BY <1>1, <3>2
      DEF LockInv, Owners, Begin, Owner, Quiet, Turn, CommandOf, ResponseTo, Available, Running
    <3> QED BY <3>1, <3>2
  <2> QED BY <1>1, <2>1, <2>2 DEF Begin, LockInv, Owners, Quiet, Running
<1>2. CASE Lock(t)
  <2>1. CallShape' BY <1>2 DEF Lock
  <2>2. \A u \in Callers \ {t} : Owner(u)' BY <1>2, Others DEF Lock, Running
  <2>3. Owner(t)' BY <1>2 DEF Lock, LockInv, Owner, Quiet, Running
  <2> QED BY <1>2, <2>1, <2>2, <2>3 DEF Lock, LockInv, Owners, Running, Owner
<1>3. CASE Count(t)
  <2>1. mutex = t /\ Quiet BY <1>3 DEF Count, LockInv, Owner
  <2>2. CallShape' BY <1>3, <2>1 DEF Count
  <2>3. \A u \in Callers \ {t} : Owner(u)' BY <1>3, <2>1, Others DEF Count, Running
  <2>4. Quiet' BY <1>3, <2>1 DEF Count, Quiet, Available
  <2>5. Owner(t)'
    <3>1. CASE call'[t] = "start" BY <1>3, <2>1, <2>4, <3>1 DEF Count, Owner, Running
    <3>2. CASE call'[t] = "delegate" BY <1>3, <2>1, <2>4, <3>2 DEF Count, Owner, Running, Available
    <3>3. CASE call'[t] = "unlock" BY <1>3, <2>1, <2>4, <3>3 DEF Count, Owner, Running
    <3> QED BY <1>3, <3>1, <3>2, <3>3 DEF Count
  <2> QED BY <1>3, <2>1, <2>2, <2>3, <2>4, <2>5 DEF Count, LockInv, Owners, Running
<1>4. CASE Start(t)
  <2>1. mutex = t /\ Quiet BY <1>4 DEF Start, LockInv, Owner
  <2>2. CallShape' BY <1>4, <2>1 DEF Start
  <2>3. \A u \in Callers \ {t} : Owner(u)' BY <1>4, <2>1, Others DEF Start, StartAdaptation, Running
  <2>4. Quiet' BY <1>4, <2>1 DEF Start, Quiet, StartAdaptation, Turned, Serves
  <2>5. Owner(t)' BY <1>4, <2>1, <2>4 DEF Start, Owner, Running, StartAdaptation
  <2> QED BY <1>4, <2>1, <2>2, <2>3, <2>4, <2>5 DEF Start, LockInv, Owners, Running, StartAdaptation
<1>5. CASE Delegate(t)
  <2>1. mutex = t /\ Quiet /\ argument[t] \in Arguments /\ Available
    BY <1>5 DEF Delegate, LockInv, Owner
  <2>2. CallShape' BY <1>5, <2>1 DEF Delegate, Message
  <2>3. \A u \in Callers \ {t} : Owner(u)' BY <1>5, <2>1, Others DEF Delegate, Running
  <2>4. Quiet' /\ Available' /\ command' = CommandOf(t)' /\ message' = CommandOf(t)'
    BY <1>5, <2>1 DEF Delegate, Quiet, Available, CommandOf
  <2>5. Owner(t)' BY <1>5, <2>1, <2>4 DEF Delegate, Owner, Running
  <2> QED BY <1>5, <2>1, <2>2, <2>3, <2>4, <2>5 DEF Delegate, LockInv, Owners, Running
<1>6. CASE Signal(t)
  <2>1. /\ mutex = t /\ Quiet /\ Available /\ argument[t] \in Arguments
        /\ command = CommandOf(t) /\ message = CommandOf(t)
    BY <1>6 DEF Signal, LockInv, Owner
  <2>2. CallShape' BY <1>6, <2>1 DEF Signal
  <2>3. \A u \in Callers \ {t} : Owner(u)' BY <1>6, <2>1, Others DEF Signal, Running
  <2>6. "event flags" \in objects BY <2>1 DEF LifeInv, Available, Loop, Both
  <2>4. Turn(t)' BY <1>6, <2>1, <2>6 DEF Signal, Quiet, Available, Turn, CommandOf, ResponseTo
  <2>5. Owner(t)' BY <1>6, <2>1, <2>4 DEF Signal, Owner, Running
  <2> QED BY <1>6, <2>1, <2>2, <2>3, <2>4, <2>5 DEF Signal, LockInv, Owners, Running
<1>7. CASE Pend(t)
  <2>1. mutex = t /\ Turn(t) /\ argument[t] \in Arguments BY <1>7 DEF Pend, LockInv, Owner
  <2>2. CallShape' BY <1>7, <2>1 DEF Pend
  <2>3. \A u \in Callers \ {t} : Owner(u)' BY <1>7, <2>1, Others DEF Pend, Running
  <2>6. "RSP_WAITING" \in flags \/ objects = {} BY <1>7 DEF Pend, LifeInv, Both
  <2>7. "event flags" \in objects \/ (flags = {} /\ bt \in {"none", "clear"} /\ ~Available)
    <3>1. CASE bt \in {"none", "clear"} BY <3>1 DEF LifeInv, Available, Loop
    <3>2. CASE bt \notin {"none", "clear"} BY <3>2 DEF LifeInv, Both
    <3> QED BY <3>1, <3>2
  <2>8. "CMD_WAITING" \notin flags \cup local /\ bt \notin Turned /\ message = ResponseTo(t)
    BY <2>1, <2>6, <2>7, <1>7 DEF Pend, Turn, Turned, Serves
  <2>4. Quiet' /\ message' = ResponseTo(t)' BY <1>7, <2>1, <2>8 DEF Pend, Quiet, ResponseTo
  <2>5. Owner(t)' BY <1>7, <2>1, <2>4 DEF Pend, Owner, Running
  <2> QED BY <1>7, <2>1, <2>2, <2>3, <2>4, <2>5 DEF Pend, LockInv, Owners, Running
<1>8. CASE Fetch(t)
  <2>1. mutex = t /\ Quiet /\ message = ResponseTo(t) /\ argument[t] \in Arguments
    BY <1>8 DEF Fetch, LockInv, Owner
  <2>2. CallShape' BY <1>8, <2>1 DEF Fetch, ResponseTo
  <2>3. \A u \in Callers \ {t} : Owner(u)' BY <1>8, <2>1, Others DEF Fetch, Running
  <2>4. Quiet' BY <1>8, <2>1 DEF Fetch, Quiet, Available
  <2>5. Owner(t)' BY <1>8, <2>1, <2>4 DEF Fetch, Owner, Running
  <2> QED BY <1>8, <2>1, <2>2, <2>3, <2>4, <2>5 DEF Fetch, LockInv, Owners, Running
<1>9. CASE Unlock(t)
  <2>1. mutex = t /\ Quiet BY <1>9 DEF Unlock, LockInv, Owner
  <2>2. CallShape' BY <1>9, <2>1 DEF Unlock
  <2>3. \A u \in Callers \ {t} : Owner(u)' BY <1>9, <2>1, Others DEF Unlock, Running
  <2>4. Quiet' BY <1>9, <2>1 DEF Unlock, Quiet, Available
  <2>6. recursion = 1 BY <1>9 DEF Unlock, CountInv, CountOf, Counted
  <2>7. call'[t] = "release" BY <1>9, <2>6 DEF Unlock
  <2>5. Owner(t)' BY <1>9, <2>1, <2>4, <2>7 DEF Unlock, Owner, Running
  <2> QED BY <1>9, <2>1, <2>2, <2>3, <2>4, <2>5 DEF Unlock, LockInv, Owners, Running
<1>10. CASE Release(t)
  <2>1. mutex = t /\ Quiet BY <1>10 DEF Release, LockInv, Owner
  <2>2. CallShape' BY <1>10, <2>1 DEF Release
  <2>3. \A u \in Callers \ {t} : Owner(u)' BY <1>10, <2>1, Others DEF Release, Running
  <2>4. Quiet' BY <1>10, <2>1 DEF Release, Quiet, Available
  <2>5. Owner(t)' BY <1>10, <2>1, <2>4 DEF Release, Owner, Running
  <2> QED BY <1>10, <2>1, <2>2, <2>3, <2>4, <2>5 DEF Release, LockInv, Owners, Running
<1> QED
  BY <1>1, <1>2, <1>3, <1>4, <1>5, <1>6, <1>7, <1>8, <1>9, <1>10 DEF Proceed

\* The steps of the Bluetooth thread and of all the others but the callers.
Elsewhere ==
  \/ AppInit \/ KernelStart
  \/ NestLock \/ BtServes \/ BtRaises \/ BtStopped \/ BtPops \/ BtFailsToPop \/ BtStays
  \/ BtWakes \/ BtProceeds \/ RetiredDelivers \/ RetiredEnds
  \/ HandlerTakes \/ HandlerDone \/ Interrupt \/ LinkLayer

\* A command under way has an owner that waits for it, until the clean-up.
LEMMA ServedHasOwner ==
  ASSUME LockInv, CallShape, ~Quiet, bt \notin {"delete", "clear", "none"}
  PROVE  \E t \in Callers : mutex = t /\ call[t] = "pend" /\ Turn(t)
<1>1. PICK t \in Callers : mutex = t BY DEF LockInv, CallShape
<1>2. call[t] \in Inside BY <1>1 DEF LockInv, Owners, Owner
<1>3. call[t] = "pend" BY <1>1, <1>2 DEF LockInv, Owners, Owner, Inside
<1> QED BY <1>1, <1>3 DEF LockInv, Owners, Owner

\* The steps of everyone else.
LEMMA LockStep ==
  ASSUME LockInv, CallShape, LifeInv, LifeTypes, ThreadTypes, Elsewhere
  PROVE  LockInv'
<1> USE DEF lockVars, callVars, lifeVars, eventVars, btVars, At, Goes
<1> DEFINE Turns == \A t \in Callers : Turn(t) => Turn(t)'
<1>1. CASE AppInit
  <2>1. ~Running /\ mutex = None /\ \A t \in Callers : call[t] = "none"
    BY <1>1 DEF AppInit, LockInv, Owners, Owner
  <2>2. Quiet' BY <1>1, <2>1 DEF AppInit, StartAdaptation, LockInv, Quiet, Turned, Serves
  <2>3. ASSUME NEW t \in Callers PROVE Owner(t)'
    BY <1>1, <2>1, <2>2, ConstantsAssumption DEF AppInit, LockInv, Owners, Owner, Inside
  <2> QED BY <1>1, <2>1, <2>2, <2>3 DEF AppInit, LockInv, Owners
<1>2. CASE KernelStart
  <2>1. Turns BY <1>2 DEF KernelStart, Turn, CommandOf, ResponseTo, Available
  <2> QED BY <1>2, <2>1, LockFrame DEF KernelStart, Running, Available, Quiet
<1>3. CASE BtCreates
  <2>3. bt = "created" /\ bt' \in {"start", "loop"} /\ "CMD_WAITING" \notin local'
        /\ UNCHANGED <<argument, message, flags, objects>> /\ ~Available
    BY <1>3 DEF BtCreates, Available, LifeInv, Loop
  <2>1. Turns BY <2>3 DEF Turn, ResponseTo, Turned, Serves
  <2> QED BY <1>3, <2>1, LockFrame DEF BtCreates, Running, Available, Quiet, Turned, Serves
<1>4. CASE BtStarts
  <2>1. Turns
    BY <1>4 DEF BtStarts, Turn, CommandOf, ResponseTo, Available, LifeInv, Turned, Serves, Loop
  <2> QED BY <1>4, <2>1, LockFrame DEF BtStarts, Running, Available, Quiet, Turned, Serves
<1>5. CASE BtTakesCommand
  <2>1. ~Quiet BY <1>5 DEF BtTakesCommand, Quiet
  <2>2. Turns
    BY <1>5 DEF BtTakesCommand, Turn, CommandOf, ResponseTo, Available, Turned, Serves, LifeInv
  <2> QED BY <1>5, <2>1, <2>2, LockFrame DEF BtTakesCommand, Running
<1>6. CASE NestLock
  <2>1. ~Quiet /\ mutex' = mutex BY <1>6 DEF NestLock, Quiet, LockInv, Turned, Serves
  <2>2. Turns BY <1>6 DEF NestLock, Turn, CommandOf, ResponseTo, Available, Turned, Serves
  <2> QED BY <1>6, <2>1, <2>2, LockFrame DEF NestLock, Running
<1>7. CASE NestDelegate
  <2>1. ~Quiet BY <1>7 DEF NestDelegate, Quiet, Turned, Serves
  <2>2. Turns BY <1>7 DEF NestDelegate, Turn, CommandOf, ResponseTo, Available, Turned, Serves
  <2> QED BY <1>7, <2>1, <2>2, LockFrame DEF NestDelegate, Running
<1>8. CASE NestUnlock
  <2>1. ~Quiet /\ mutex' = mutex BY <1>8 DEF NestUnlock, Quiet, LockInv, Turned, Serves
  <2>2. Turns BY <1>8 DEF NestUnlock, Turn, CommandOf, ResponseTo, Available, Turned, Serves
  <2> QED BY <1>8, <2>1, <2>2, LockFrame DEF NestUnlock, Running
<1>9. CASE BtServes
  <2>1. ~Quiet BY <1>9 DEF BtServes, Quiet, Turned, Serves
  <2>2. Turns BY <1>9 DEF BtServes, Turn, CommandOf, ResponseTo, Turned, Serves
  <2>3. Running => Running' BY <1>9 DEF BtServes, Running
  <2> QED BY <1>9, <2>1, <2>2, <2>3, LockFrame DEF BtServes
<1>10. CASE BtForgets
  <2>1. ~Quiet BY <1>10 DEF BtForgets, Quiet, Turned, Serves
  <2>2. Turns BY <1>10 DEF BtForgets, Turn, CommandOf, ResponseTo, Turned, Serves
  <2> QED BY <1>10, <2>1, <2>2, LockFrame DEF BtForgets, Running
<1>11. CASE BtResponds
  <2>1. ~Quiet BY <1>11 DEF BtResponds, Quiet, Turned, Serves
  <2>2. Turns BY <1>11 DEF BtResponds, Turn, CommandOf, ResponseTo, Turned, Serves
  <2> QED BY <1>11, <2>1, <2>2, LockFrame DEF BtResponds, Running
<1>12. CASE BtStopped
  <2>1. Turns BY <1>12 DEF BtStopped, Turn, CommandOf, ResponseTo, Available
  <2> QED BY <1>12, <2>1, LockFrame DEF BtStopped, Running, Available, Quiet
<1>13. CASE BtHands
  <2>1. Turns BY <1>13 DEF BtHands, Turn, CommandOf, ResponseTo, Available, Turned, Serves
  <2> QED BY <1>13, <2>1, LockFrame DEF BtHands, Running, Available, Quiet, Turned, Serves
<1>14. CASE BtWakes
  <2>1. Turns
    BY <1>14 DEF BtWakes, Turn, CommandOf, ResponseTo, Available, Turned, Serves, Awaited, Kept
  <2> QED
    BY <1>14, <2>1, LockFrame DEF BtWakes, Running, Available, Quiet, Turned, Serves, Awaited, Kept
<1>15. CASE BtTakesNone \/ BtFailsToPop \/ BtPopsNone \/ BtStays
  <2>1. /\ bt \in {"run", "loop", "sleep"} /\ bt' \in {"run", "loop", "sleep"}

        /\ UNCHANGED <<mutex, call, argument, state, flags, local, command, message, serving, objects>>
    BY <1>15 DEF BtTakesNone, BtFailsToPop, BtPopsNone, BtStays
  <2>2. Turns BY <2>1 DEF Turn, CommandOf, ResponseTo, Available, Turned, Serves
  <2> QED BY <2>1, <2>2, LockFrame DEF Running, Available, Quiet, Turned, Serves
<1>16. CASE BtPops
  <2>1. Turns BY <1>16 DEF BtPops, Turn, CommandOf, ResponseTo, Available, Turned, Serves
  <2> QED BY <1>16, <2>1, LockFrame DEF BtPops, Running, Available, Quiet, Turned, Serves
<1>17. CASE BtTerminates
  <2>1. /\ bt = "loop" /\ ~Available
        /\ call' = [call EXCEPT ![Handler] = "none"]
        /\ argument' = [argument EXCEPT ![Handler] = None]
        /\ bt' = "delete"
        /\ UNCHANGED <<mutex, command, message, state, objects, local, serving, flags>>
    BY <1>17 DEF BtTerminates, LifeInv, Available
  <2>2. \A t \in Callers : t # Handler /\ Turn(t) => Turn(t)'
    BY <2>1 DEF Turn, ResponseTo, Turned, Serves
  <2>3. Quiet => Quiet' BY <2>1 DEF Quiet, Turned, Serves
  <2>4. ASSUME NEW t \in Callers PROVE Owner(t)'
    <3>1. CASE t = Handler BY <2>1, <3>1 DEF LockInv, Owners, Owner, Inside, CallShape
    <3>2. CASE t # Handler
      BY <2>1, <2>2, <2>3, <3>2 DEF LockInv, Owners, Owner, CallShape, Running, ResponseTo
    <3> QED BY <3>1, <3>2
  <2> QED BY <2>1, <2>3, <2>4 DEF LockInv, Owners, Running
<1>18. CASE BtDeletes
  <2>1. ~Available BY <1>18 DEF BtDeletes, LifeInv, Available
  <2>2. Turns BY <1>18, <2>1 DEF BtDeletes, Turn, ResponseTo, Available, Turned, Serves
  <2> QED BY <1>18, <2>1, <2>2, LockFrame DEF BtDeletes, Running, Quiet, Turned, Serves
<1>19. CASE BtClears
  <2>1. ~Available /\ objects = {} BY <1>19 DEF BtClears, LifeInv, Available
  <2>2. Turns BY <1>19, <2>1 DEF BtClears, Turn, ResponseTo, Turned, Serves
  <2> QED BY <1>19, <2>1, <2>2, LockFrame DEF BtClears, Running, Quiet, Turned, Serves
<1>20. CASE BtRaises \/ RetiredDelivers \/ RetiredEnds
  <2>1. UNCHANGED <<mutex, call, argument, state, flags, local, command, message, serving,
                     objects, bt>>
    BY <1>20 DEF BtRaises, RetiredDelivers, RetiredEnds
  <2>2. Turns BY <2>1 DEF Turn, CommandOf, ResponseTo, Available
  <2> QED BY <2>1, <2>2, LockFrame DEF Running, Available, Quiet
<1>21. CASE HandlerTakes \/ HandlerDone \/ Interrupt \/ LinkLayer
  <2>1. /\ UNCHANGED <<mutex, call, argument, state, local, command, message, serving, objects, bt>>
        /\ "CMD_WAITING" \in flags' <=> "CMD_WAITING" \in flags
        /\ "RSP_WAITING" \in flags' <=> "RSP_WAITING" \in flags
    BY <1>21 DEF HandlerTakes, HandlerDone, Interrupt, LinkLayer
  <2>2. Turns BY <2>1 DEF Turn, CommandOf, ResponseTo, Available
  <2> QED BY <2>1, <2>2, LockFrame DEF Running, Available, Quiet
<1> QED
  BY <1>1, <1>2, <1>3, <1>4, <1>5, <1>6, <1>7, <1>8, <1>9, <1>10, <1>11, <1>12, <1>13, <1>14,
     <1>15, <1>16, <1>17, <1>18, <1>19, <1>20, <1>21
  DEF Elsewhere, BtProceeds

-----------------------------------------------------------------------------
(* Types.                                                                  *)

LEMMA LifeTypesStep ==
  ASSUME LifeTypes, Next
  PROVE  LifeTypes'
<1> USE DEF lockVars, callVars, lifeVars, eventVars, btVars, At, Goes, LifeTypes, StateFlags, Flags,
       Calls
<1>1. CASE AppInit BY <1>1 DEF AppInit, StartAdaptation
<1>2. CASE KernelStart BY <1>2 DEF KernelStart
<1>3. CASE NestLock BY <1>3 DEF NestLock
<1>4. CASE BtServes BY <1>4 DEF BtServes
<1>5. CASE BtRaises BY <1>5 DEF BtRaises
<1>6. CASE BtStopped BY <1>6 DEF BtStopped
<1>7. CASE BtPops BY <1>7 DEF BtPops
<1>8. CASE BtFailsToPop BY <1>8 DEF BtFailsToPop
<1>9. CASE BtStays BY <1>9 DEF BtStays
<1>10. CASE BtWakes BY <1>10 DEF BtWakes
<1>11. CASE BtCreates BY <1>11 DEF BtCreates
<1>12. CASE BtStarts BY <1>12 DEF BtStarts
<1>13. CASE BtTakesCommand BY <1>13 DEF BtTakesCommand
<1>14. CASE BtTakesNone BY <1>14 DEF BtTakesNone
<1>15. CASE BtForgets BY <1>15 DEF BtForgets
<1>16. CASE BtResponds BY <1>16 DEF BtResponds
<1>17. CASE BtHands BY <1>17 DEF BtHands
<1>18. CASE BtPopsNone BY <1>18 DEF BtPopsNone
<1>19. CASE BtTerminates BY <1>19 DEF BtTerminates
<1>20. CASE BtDeletes BY <1>20 DEF BtDeletes
<1>21. CASE BtClears BY <1>21 DEF BtClears
<1>22. CASE NestDelegate BY <1>22 DEF NestDelegate
<1>23. CASE NestUnlock BY <1>23 DEF NestUnlock
<1>24. CASE RetiredDelivers BY <1>24 DEF RetiredDelivers
<1>25. CASE RetiredEnds BY <1>25 DEF RetiredEnds
<1>26. CASE HandlerTakes BY <1>26 DEF HandlerTakes
<1>27. CASE HandlerDone BY <1>27 DEF HandlerDone
<1>28. CASE Interrupt BY <1>28 DEF Interrupt
<1>29. CASE LinkLayer BY <1>29 DEF LinkLayer
<1>30. ASSUME NEW t \in Callers, Begin(t) PROVE LifeTypes' BY <1>30 DEF Begin
<1>31. ASSUME NEW t \in Callers, Lock(t) PROVE LifeTypes' BY <1>31 DEF Lock
<1>32. ASSUME NEW t \in Callers, Count(t) PROVE LifeTypes' BY <1>32 DEF Count
<1>33. ASSUME NEW t \in Callers, Start(t) PROVE LifeTypes' BY <1>33 DEF Start, StartAdaptation
<1>34. ASSUME NEW t \in Callers, Delegate(t) PROVE LifeTypes' BY <1>34 DEF Delegate
<1>35. ASSUME NEW t \in Callers, Signal(t) PROVE LifeTypes' BY <1>35 DEF Signal
<1>36. ASSUME NEW t \in Callers, Pend(t) PROVE LifeTypes' BY <1>36 DEF Pend
<1>37. ASSUME NEW t \in Callers, Fetch(t) PROVE LifeTypes' BY <1>37 DEF Fetch
<1>38. ASSUME NEW t \in Callers, Unlock(t) PROVE LifeTypes' BY <1>38 DEF Unlock
<1>39. ASSUME NEW t \in Callers, Release(t) PROVE LifeTypes' BY <1>39 DEF Release
<1> QED
  BY <1>1, <1>2, <1>3, <1>4, <1>5, <1>6, <1>7, <1>8, <1>9, <1>10, <1>11, <1>12, <1>13, <1>14,
     <1>15, <1>16, <1>17, <1>18, <1>19, <1>20, <1>21, <1>22, <1>23, <1>24, <1>25, <1>26, <1>27,
     <1>28, <1>29, <1>30, <1>31, <1>32, <1>33, <1>34, <1>35, <1>36, <1>37, <1>38, <1>39
  DEF Next, Proceed, BtProceeds

LEMMA PendingTypes ==
  ASSUME NEW q \in Seq(Events), Len(q) <= MaxPending
  PROVE  /\ Len(q) < MaxPending =>
              \A e \in Events : Append(q, e) \in Seq(Events) /\ Len(Append(q, e)) <= MaxPending
         /\ q # <<>> =>
              Head(q) \in Events /\ Tail(q) \in Seq(Events) /\ Len(Tail(q)) <= MaxPending
         /\ <<>> \in Seq(Events) /\ Len(<<>>) <= MaxPending
<1>1. MaxPending \in Nat BY ConstantsAssumption
<1>2. Len(q) \in Nat OBVIOUS
<1>3. ASSUME Len(q) < MaxPending, NEW e \in Events
      PROVE  Append(q, e) \in Seq(Events) /\ Len(Append(q, e)) <= MaxPending
  <2>1. Append(q, e) \in Seq(Events) /\ Len(Append(q, e)) = Len(q) + 1 OBVIOUS
  <2> QED BY <1>1, <1>2, <1>3, <2>1
<1>4. ASSUME q # <<>>
      PROVE  Head(q) \in Events /\ Tail(q) \in Seq(Events) /\ Len(Tail(q)) <= MaxPending
  <2>1. Head(q) \in Events /\ Tail(q) \in Seq(Events) /\ Len(Tail(q)) = Len(q) - 1 BY <1>4
  <2> QED BY <1>1, <1>2, <2>1
<1>5. <<>> \in Seq(Events) /\ Len(<<>>) <= MaxPending BY <1>1
<1> QED BY <1>3, <1>4, <1>5

LEMMA ThreadTypesStep ==
  ASSUME ThreadTypes, CallShape, LifeTypes, Next
  PROVE  ThreadTypes'
<1> USE DEF lockVars, callVars, lifeVars, eventVars, btVars, At, Goes, ThreadTypes, Calls,
       CallShape, Kept, Awaited
<1>1. CASE AppInit BY <1>1 DEF AppInit, StartAdaptation
<1>2. CASE KernelStart BY <1>2 DEF KernelStart
<1>3. CASE NestLock BY <1>3 DEF NestLock
<1>4. CASE BtServes BY <1>4 DEF BtServes
<1>5. CASE BtRaises
  <2>1. PICK e \in Events : pending' = Append(pending, e) BY <1>5 DEF BtRaises
  <2>2. Len(pending) < MaxPending /\ UNCHANGED <<evt, bt, local, serving, handler, handling>>
    BY <1>5 DEF BtRaises
  <2>3. pending' \in Seq(Events) /\ Len(pending') <= MaxPending BY <2>1, <2>2, PendingTypes
  <2> QED BY <2>2, <2>3
<1>6. CASE BtStopped
  <2>1. pending' = <<>> /\ UNCHANGED <<evt, bt, local, serving, handler, handling>>
    BY <1>6 DEF BtStopped
  <2>2. pending' \in Seq(Events) /\ Len(pending') <= MaxPending BY <2>1, PendingTypes
  <2> QED BY <2>1, <2>2
<1>7. CASE BtPops
  <2>1. pending # <<>> /\ evt' = Head(pending) /\ pending' = Tail(pending) BY <1>7 DEF BtPops
  <2>2. evt' \in Events /\ pending' \in Seq(Events) /\ Len(pending') <= MaxPending
    BY <2>1, PendingTypes
  <2>4. bt' = "hand" /\ UNCHANGED <<local, serving, handler, handling>> BY <1>7 DEF BtPops
  <2> QED BY <2>2, <2>4
<1>8. CASE BtFailsToPop BY <1>8 DEF BtFailsToPop
<1>9. CASE BtStays BY <1>9 DEF BtStays
<1>10. CASE BtWakes BY <1>10 DEF BtWakes
<1>11. CASE BtCreates BY <1>11 DEF BtCreates
<1>12. CASE BtStarts BY <1>12 DEF BtStarts
<1>13. CASE BtTakesCommand BY <1>13 DEF BtTakesCommand
<1>14. CASE BtTakesNone BY <1>14 DEF BtTakesNone
<1>15. CASE BtForgets BY <1>15 DEF BtForgets
<1>16. CASE BtResponds BY <1>16 DEF BtResponds
<1>17. CASE BtHands BY <1>17 DEF BtHands
<1>18. CASE BtPopsNone BY <1>18 DEF BtPopsNone
<1>19. CASE BtTerminates BY <1>19 DEF BtTerminates
<1>20. CASE BtDeletes BY <1>20 DEF BtDeletes
<1>21. CASE BtClears BY <1>21 DEF BtClears
<1>22. CASE NestDelegate BY <1>22 DEF NestDelegate
<1>23. CASE NestUnlock BY <1>23 DEF NestUnlock
<1>24. CASE RetiredDelivers BY <1>24 DEF RetiredDelivers
<1>25. CASE RetiredEnds BY <1>25 DEF RetiredEnds
<1>26. CASE HandlerTakes BY <1>26 DEF HandlerTakes
<1>27. CASE HandlerDone BY <1>27 DEF HandlerDone
<1>28. CASE Interrupt BY <1>28 DEF Interrupt
<1>29. CASE LinkLayer BY <1>29 DEF LinkLayer
<1>30. ASSUME NEW t \in Callers, Begin(t) PROVE ThreadTypes' BY <1>30 DEF Begin
<1>31. ASSUME NEW t \in Callers, Lock(t) PROVE ThreadTypes' BY <1>31 DEF Lock
<1>32. ASSUME NEW t \in Callers, Count(t) PROVE ThreadTypes' BY <1>32 DEF Count
<1>33. ASSUME NEW t \in Callers, Start(t) PROVE ThreadTypes' BY <1>33 DEF Start, StartAdaptation
<1>34. ASSUME NEW t \in Callers, Delegate(t) PROVE ThreadTypes' BY <1>34 DEF Delegate
<1>35. ASSUME NEW t \in Callers, Signal(t) PROVE ThreadTypes' BY <1>35 DEF Signal
<1>36. ASSUME NEW t \in Callers, Pend(t) PROVE ThreadTypes' BY <1>36 DEF Pend
<1>37. ASSUME NEW t \in Callers, Fetch(t) PROVE ThreadTypes' BY <1>37 DEF Fetch
<1>38. ASSUME NEW t \in Callers, Unlock(t) PROVE ThreadTypes' BY <1>38 DEF Unlock
<1>39. ASSUME NEW t \in Callers, Release(t) PROVE ThreadTypes' BY <1>39 DEF Release
<1> QED
  BY <1>1, <1>2, <1>3, <1>4, <1>5, <1>6, <1>7, <1>8, <1>9, <1>10, <1>11, <1>12, <1>13, <1>14,
     <1>15, <1>16, <1>17, <1>18, <1>19, <1>20, <1>21, <1>22, <1>23, <1>24, <1>25, <1>26, <1>27,
     <1>28, <1>29, <1>30, <1>31, <1>32, <1>33, <1>34, <1>35, <1>36, <1>37, <1>38, <1>39
  DEF Next, Proceed, BtProceeds

LEMMA CallShapeStep ==
  ASSUME CallShape, LockInv, ThreadTypes, Elsewhere
  PROVE  CallShape'
<1> USE DEF lockVars, callVars, lifeVars, eventVars, btVars, At, Goes, CallShape, Calls
<1>1. CASE AppInit BY <1>1 DEF AppInit, StartAdaptation
<1>2. CASE KernelStart BY <1>2 DEF KernelStart
<1>3. CASE NestLock BY <1>3 DEF NestLock
<1>4. CASE BtServes
  <2>1. bt = "serve" /\ message' = [serving EXCEPT !.kind = "response"]
        /\ UNCHANGED <<command, mutex, call, argument, result>>
    BY <1>4 DEF BtServes
  <2>2. PICK t \in Callers : call[t] = "pend" /\ Turn(t)
    BY <2>1, ServedHasOwner DEF Quiet, Turned, Serves
  <2>3. serving = CommandOf(t) /\ argument[t] \in Arguments
    BY <2>1, <2>2 DEF Turn, Turned, Serves, LockInv, Owners, Owner
  <2>4. message' \in Message BY <2>1, <2>3 DEF CommandOf, Message
  <2> QED BY <2>1, <2>4
<1>5. CASE BtRaises BY <1>5 DEF BtRaises
<1>6. CASE BtStopped BY <1>6 DEF BtStopped
<1>7. CASE BtPops BY <1>7 DEF BtPops
<1>8. CASE BtFailsToPop BY <1>8 DEF BtFailsToPop
<1>9. CASE BtStays BY <1>9 DEF BtStays
<1>10. CASE BtWakes BY <1>10 DEF BtWakes
<1>11. CASE BtCreates BY <1>11 DEF BtCreates
<1>12. CASE BtStarts BY <1>12 DEF BtStarts
<1>13. CASE BtTakesCommand BY <1>13 DEF BtTakesCommand
<1>14. CASE BtTakesNone BY <1>14 DEF BtTakesNone
<1>15. CASE BtForgets BY <1>15 DEF BtForgets
<1>16. CASE BtResponds BY <1>16 DEF BtResponds
<1>17. CASE BtHands BY <1>17 DEF BtHands
<1>18. CASE BtPopsNone BY <1>18 DEF BtPopsNone
<1>19. CASE BtTerminates BY <1>19 DEF BtTerminates
<1>20. CASE BtDeletes BY <1>20 DEF BtDeletes
<1>21. CASE BtClears BY <1>21 DEF BtClears
<1>22. CASE NestDelegate
  <2>1. command' \in Message /\ UNCHANGED <<message, mutex, call, argument, result>>
    BY <1>22 DEF NestDelegate, Message, Arguments
  <2> QED BY <2>1
<1>23. CASE NestUnlock BY <1>23 DEF NestUnlock
<1>24. CASE RetiredDelivers BY <1>24 DEF RetiredDelivers
<1>25. CASE RetiredEnds BY <1>25 DEF RetiredEnds
<1>26. CASE HandlerTakes BY <1>26 DEF HandlerTakes
<1>27. CASE HandlerDone BY <1>27 DEF HandlerDone
<1>28. CASE Interrupt BY <1>28 DEF Interrupt
<1>29. CASE LinkLayer BY <1>29 DEF LinkLayer
<1> QED
  BY <1>1, <1>2, <1>3, <1>4, <1>5, <1>6, <1>7, <1>8, <1>9, <1>10, <1>11, <1>12, <1>13, <1>14,
     <1>15, <1>16, <1>17, <1>18, <1>19, <1>20, <1>21, <1>22, <1>23, <1>24, <1>25, <1>26, <1>27,
     <1>28, <1>29
  DEF Elsewhere, BtProceeds

-----------------------------------------------------------------------------
(* The recursion counter.                                                  *)

LEMMA CallerCounts ==
  ASSUME CountInv, LockInv, LockInv', CallShape, NEW t \in Callers, Begin(t) \/ Proceed(t)
  PROVE  CountInv'
<1> USE DEF lockVars, callVars, lifeVars, eventVars, btVars, Calls, CallShape
<1>0. CountOf(t) /\ Owner(t) /\ Owner(t)' /\ None # t
  BY ConstantsAssumption DEF CountInv, LockInv, Owners, Callers
<1> USE <1>0
<1>1. CASE Begin(t) BY <1>1 DEF Begin, CountInv, CountOf, Counted, Inside
<1>2. SUFFICES ASSUME mutex' \in {t, None}, mutex' = None => recursion' = 0, CountOf(t)',
                      recursion' \in Nat
      PROVE  CountInv'
  <2>1. CASE Begin(t) BY <1>1, <2>1
  <2>2. CASE Lock(t)
    <3>1. mutex' = t /\ call'[t] = "count" /\ recursion' = recursion /\ recursion = 0
      BY <2>2 DEF Lock, CountInv
    <3>2. CountOf(t)' BY <3>1 DEF CountOf, Counted
    <3> QED BY <3>1, <3>2, <1>2
  <2>3. CASE Count(t)
    <3>1. mutex' = t /\ call'[t] \in {"start", "delegate", "unlock"} /\ recursion' = recursion + 1
          /\ recursion = 0
      BY <2>3 DEF Count, CountOf, Owner, Inside
    <3>2. recursion' = 1 BY <3>1
    <3>3. CountOf(t)' BY <3>1, <3>2 DEF CountOf, Counted
    <3> QED BY <3>1, <3>3, <1>2
  <2>4. CASE Start(t) \/ Delegate(t) \/ Fetch(t)
    <3>1. mutex' = t /\ call'[t] \in {"unlock", "signal"} /\ recursion' = recursion
          /\ recursion = 1
      BY <2>4 DEF Start, Delegate, Fetch, CountOf, Counted, Owner, Inside
    <3>2. CountOf(t)' BY <3>1 DEF CountOf, Counted
    <3> QED BY <3>1, <3>2, <1>2
  <2>5. CASE Signal(t)
    <3>1. mutex' = t /\ call'[t] = "pend" /\ recursion' = recursion /\ recursion = 1
          /\ bt' = bt /\ Quiet
      BY <2>5 DEF Signal, CountOf, Counted, Owner, Inside
    <3>2. bt' \notin {"nested", "unnest"} BY <3>1 DEF Quiet, Turned, Serves
    <3>3. CountOf(t)' BY <3>1, <3>2 DEF CountOf, Counted
    <3> QED BY <3>1, <3>3, <1>2
  <2>6. CASE Pend(t)
    <3>1. mutex' = t /\ call[t] = "pend" /\ call'[t] = "fetch" /\ recursion' = recursion
          /\ bt' = bt
      BY <2>6 DEF Pend, Owner, Inside
    <3>2. bt \notin {"nested", "unnest"} BY <3>1 DEF Owner, Quiet, Turned, Serves
    <3>3. CountOf(t)' BY <3>1, <3>2 DEF CountOf, Counted
    <3>5. recursion' \in Nat BY <3>1 DEF CountInv
    <3>6. mutex' \in {t, None} /\ (mutex' = None => recursion' = 0) BY <3>1
    <3> QED BY <3>3, <3>5, <3>6, <1>2
  <2>7. CASE Unlock(t)
    <3>1. recursion = 1 /\ mutex' = t /\ recursion' = recursion - 1
      BY <2>7 DEF Unlock, CountOf, Counted, Owner, Inside
    <3>2. call'[t] = "release" BY <2>7, <3>1 DEF Unlock
    <3>3. recursion' = 0 BY <3>1
    <3>4. CountOf(t)' BY <3>2, <3>3 DEF CountOf, Counted
    <3> QED BY <3>1, <3>4, <1>2
  <2>8. CASE Release(t)
    <3>1. mutex' = None /\ call'[t] = "none" /\ recursion' = recursion /\ recursion = 0
      BY <2>8 DEF Release, CountOf, Owner, Inside
    <3>2. CountOf(t)' BY <3>1 DEF CountOf, Counted, Inside
    <3> QED BY <3>1, <3>2, <1>2
  <2> QED BY <2>1, <2>2, <2>3, <2>4, <2>5, <2>6, <2>7, <2>8 DEF Proceed
<1>3. ASSUME NEW u \in Callers PROVE CountOf(u)'
  <2>1. CASE u = t BY <1>2, <2>1
  <2>2. CASE u # t
    <3>1. mutex' # u BY <1>2, <2>2, ConstantsAssumption
    <3>2. call'[u] \notin Inside BY <3>1 DEF LockInv, Owners, Owner
    <3> QED BY <3>2 DEF CountOf, Counted, Inside
  <2> QED BY <2>1, <2>2
<1> QED BY <1>2, <1>3 DEF CountInv

LEMMA CountStep ==
  ASSUME CountInv, LockInv, CallShape, Elsewhere
  PROVE  CountInv'
<1> USE DEF lockVars, callVars, lifeVars, eventVars, btVars, At, Goes
<1>1. ASSUME UNCHANGED <<mutex, recursion, call>>,
             bt' \in {"nested", "unnest"} <=> bt \in {"nested", "unnest"}
      PROVE  CountInv'
  BY <1>1 DEF CountInv, CountOf
<1>2. CASE NestLock
  <2>1. bt = "serve" /\ bt' = "nested" /\ call' = call /\ recursion' = recursion + 1
        /\ ~Quiet /\ bt \notin {"delete", "clear", "none"}
    BY <1>2 DEF NestLock, Quiet, Turned, Serves
  <2>2. PICK t \in Callers : mutex = t /\ call[t] = "pend" BY <2>1, ServedHasOwner
  <2>3. recursion = 1 BY <2>1, <2>2 DEF CountInv, CountOf
  <2>4. recursion' = 2 /\ mutex' = t
    BY <1>2, <2>1, <2>2, <2>3, ConstantsAssumption DEF NestLock
  <2>5. \A u \in Callers : call[u] \in Inside => u = t BY <2>2 DEF LockInv, Owners, Owner
  <2>6. \A u \in Callers : CountOf(u)' BY <2>1, <2>2, <2>4, <2>5 DEF CountOf, Counted, Inside
  <2> QED BY <2>2, <2>4, <2>6, ConstantsAssumption DEF CountInv
<1>3. CASE NestUnlock
  <2>1. bt = "unnest" /\ bt' = "serve" /\ call' = call /\ recursion' = recursion - 1
        /\ ~Quiet /\ bt \notin {"delete", "clear", "none"} /\ mutex' = mutex
    BY <1>3 DEF NestUnlock, Quiet, Turned, Serves, LockInv
  <2>2. PICK t \in Callers : mutex = t /\ call[t] = "pend" BY <2>1, ServedHasOwner
  <2>3. recursion = 2 BY <2>1, <2>2 DEF CountInv, CountOf
  <2>4. recursion' = 1 BY <2>1, <2>3
  <2>5. \A u \in Callers : call[u] \in Inside => u = t BY <2>2 DEF LockInv, Owners, Owner
  <2>6. \A u \in Callers : CountOf(u)' BY <2>1, <2>2, <2>4, <2>5 DEF CountOf, Counted, Inside
  <2>7. t # None BY ConstantsAssumption
  <2>8. recursion' \in Nat /\ mutex' # None BY <2>1, <2>2, <2>4, <2>7
  <2> QED BY <2>6, <2>8 DEF CountInv
<1>4. CASE BtTerminates
  <2>1. /\ UNCHANGED <<mutex, recursion>> /\ bt = "loop" /\ bt' = "delete"
        /\ call' = [call EXCEPT ![Handler] = "none"]
    BY <1>4 DEF BtTerminates
  <2>2. ASSUME NEW u \in Callers PROVE call'[u] = call[u] \/ call'[u] = "none"
    BY <2>1 DEF CallShape
  <2> QED BY <2>1, <2>2 DEF CountInv, CountOf, Counted, Inside
<1>5. CASE AppInit
  BY <1>5, <1>1 DEF AppInit, StartAdaptation, LockInv, Quiet, Turned, Serves, Owners, Owner
<1>6. CASE KernelStart BY <1>6, <1>1 DEF KernelStart
<1>7. CASE BtServes BY <1>7, <1>1 DEF BtServes
<1>8. CASE BtRaises BY <1>8, <1>1 DEF BtRaises
<1>9. CASE BtStopped BY <1>9, <1>1 DEF BtStopped
<1>10. CASE BtPops BY <1>10, <1>1 DEF BtPops
<1>11. CASE BtFailsToPop BY <1>11, <1>1 DEF BtFailsToPop
<1>12. CASE BtStays BY <1>12, <1>1 DEF BtStays
<1>13. CASE BtWakes BY <1>13, <1>1 DEF BtWakes
<1>14. CASE BtCreates BY <1>14, <1>1 DEF BtCreates
<1>15. CASE BtStarts BY <1>15, <1>1 DEF BtStarts
<1>16. CASE BtTakesCommand BY <1>16, <1>1 DEF BtTakesCommand
<1>17. CASE BtTakesNone BY <1>17, <1>1 DEF BtTakesNone
<1>18. CASE BtForgets BY <1>18, <1>1 DEF BtForgets
<1>19. CASE BtResponds BY <1>19, <1>1 DEF BtResponds
<1>20. CASE BtHands BY <1>20, <1>1 DEF BtHands
<1>21. CASE BtPopsNone BY <1>21, <1>1 DEF BtPopsNone
<1>22. CASE BtDeletes BY <1>22, <1>1 DEF BtDeletes
<1>23. CASE BtClears BY <1>23, <1>1 DEF BtClears
<1>24. CASE NestDelegate BY <1>24, <1>1 DEF NestDelegate
<1>25. CASE RetiredDelivers BY <1>25, <1>1 DEF RetiredDelivers
<1>26. CASE RetiredEnds BY <1>26, <1>1 DEF RetiredEnds
<1>27. CASE HandlerTakes BY <1>27, <1>1 DEF HandlerTakes
<1>28. CASE HandlerDone BY <1>28, <1>1 DEF HandlerDone
<1>29. CASE Interrupt BY <1>29, <1>1 DEF Interrupt
<1>30. CASE LinkLayer BY <1>30, <1>1 DEF LinkLayer
<1> QED
  BY <1>2, <1>3, <1>4, <1>5, <1>6, <1>7, <1>8, <1>9, <1>10, <1>11, <1>12, <1>13, <1>14, <1>15,
     <1>16, <1>17, <1>18, <1>19, <1>20, <1>21, <1>22, <1>23, <1>24, <1>25, <1>26, <1>27, <1>28,
     <1>29, <1>30
  DEF Elsewhere, BtProceeds

-----------------------------------------------------------------------------
(* The event buffer, starts, and the event of a failed start.              *)

LEMMA TokenStep ==
  ASSUME Token, LifeInv, StartInv, ThreadTypes, Next
  PROVE  Token'
<1> USE DEF lockVars, callVars, lifeVars, eventVars, btVars, At, Goes, Token, Calls, LifeInv, Kept,
       Awaited
<1>1. CASE AppInit BY <1>1 DEF AppInit, StartAdaptation
<1>2. CASE KernelStart BY <1>2 DEF KernelStart
<1>3. CASE NestLock BY <1>3 DEF NestLock
<1>4. CASE BtServes BY <1>4 DEF BtServes
<1>5. CASE BtRaises BY <1>5 DEF BtRaises
<1>6. CASE BtStopped BY <1>6 DEF BtStopped
<1>7. CASE BtPops BY <1>7 DEF BtPops
<1>8. CASE BtFailsToPop BY <1>8 DEF BtFailsToPop
<1>9. CASE BtStays BY <1>9 DEF BtStays
<1>10. CASE BtWakes BY <1>10 DEF BtWakes
<1>11. CASE BtCreates BY <1>11 DEF BtCreates
<1>12. CASE BtStarts BY <1>12 DEF BtStarts
<1>13. CASE BtTakesCommand BY <1>13 DEF BtTakesCommand
<1>14. CASE BtTakesNone BY <1>14 DEF BtTakesNone
<1>15. CASE BtForgets BY <1>15 DEF BtForgets
<1>16. CASE BtResponds BY <1>16 DEF BtResponds
<1>17. CASE BtHands BY <1>17 DEF BtHands
<1>18. CASE BtPopsNone BY <1>18 DEF BtPopsNone
<1>19. CASE BtTerminates BY <1>19 DEF BtTerminates
<1>20. CASE BtDeletes BY <1>20 DEF BtDeletes
<1>21. CASE BtClears BY <1>21 DEF BtClears
<1>22. CASE NestDelegate BY <1>22 DEF NestDelegate
<1>23. CASE NestUnlock BY <1>23 DEF NestUnlock
<1>24. CASE RetiredDelivers
  <2>1. bt = "none" BY <1>24 DEF RetiredDelivers, StartInv
  <2> QED BY <1>24, <2>1 DEF RetiredDelivers
<1>25. CASE RetiredEnds BY <1>25 DEF RetiredEnds
<1>26. CASE HandlerTakes BY <1>26 DEF HandlerTakes
<1>27. CASE HandlerDone BY <1>27 DEF HandlerDone
<1>28. CASE Interrupt BY <1>28 DEF Interrupt
<1>29. CASE LinkLayer BY <1>29 DEF LinkLayer
<1>30. ASSUME NEW t \in Callers, Begin(t) PROVE Token' BY <1>30 DEF Begin
<1>31. ASSUME NEW t \in Callers, Lock(t) PROVE Token' BY <1>31 DEF Lock
<1>32. ASSUME NEW t \in Callers, Count(t) PROVE Token' BY <1>32 DEF Count
<1>33. ASSUME NEW t \in Callers, Start(t) PROVE Token' BY <1>33 DEF Start, StartAdaptation
<1>34. ASSUME NEW t \in Callers, Delegate(t) PROVE Token' BY <1>34 DEF Delegate
<1>35. ASSUME NEW t \in Callers, Signal(t) PROVE Token' BY <1>35 DEF Signal
<1>36. ASSUME NEW t \in Callers, Pend(t) PROVE Token' BY <1>36 DEF Pend
<1>37. ASSUME NEW t \in Callers, Fetch(t) PROVE Token' BY <1>37 DEF Fetch
<1>38. ASSUME NEW t \in Callers, Unlock(t) PROVE Token' BY <1>38 DEF Unlock
<1>39. ASSUME NEW t \in Callers, Release(t) PROVE Token' BY <1>39 DEF Release
<1> QED
  BY <1>1, <1>2, <1>3, <1>4, <1>5, <1>6, <1>7, <1>8, <1>9, <1>10, <1>11, <1>12, <1>13, <1>14,
     <1>15, <1>16, <1>17, <1>18, <1>19, <1>20, <1>21, <1>22, <1>23, <1>24, <1>25, <1>26, <1>27,
     <1>28, <1>29, <1>30, <1>31, <1>32, <1>33, <1>34, <1>35, <1>36, <1>37, <1>38, <1>39
  DEF Next, Proceed, BtProceeds

LEMMA StartStep ==
  ASSUME StartInv, CallShape, LifeInv, LockInv, Next
  PROVE  StartInv'
<1> USE DEF lockVars, callVars, lifeVars, eventVars, btVars, At, Goes, Calls, StartInv, CallShape,
       Running
<1>0. None # "start" /\ "start" \notin Arguments BY ConstantsAssumption DEF Arguments
<1>00. \A t \in Callers : Owner(t) BY DEF LockInv, Owners
<1>1. CASE AppInit
  <2>1. /\ ~Running /\ UNCHANGED <<argument, call, retired>>
        /\ \A t \in Callers : argument[t] # "start"
    BY <1>1, <1>0, <1>00 DEF AppInit, Owner
  <2> QED BY <2>1
<1>2. CASE KernelStart BY <1>2 DEF KernelStart
<1>3. CASE NestLock BY <1>3 DEF NestLock
<1>4. CASE BtServes BY <1>4 DEF BtServes
<1>5. CASE BtRaises BY <1>5 DEF BtRaises
<1>6. CASE BtStopped BY <1>6 DEF BtStopped
<1>7. CASE BtPops BY <1>7 DEF BtPops
<1>8. CASE BtFailsToPop BY <1>8 DEF BtFailsToPop
<1>9. CASE BtStays BY <1>9 DEF BtStays
<1>10. CASE BtWakes BY <1>10 DEF BtWakes
<1>11. CASE BtCreates BY <1>11 DEF BtCreates
<1>12. CASE BtStarts BY <1>12 DEF BtStarts
<1>13. CASE BtTakesCommand BY <1>13 DEF BtTakesCommand
<1>14. CASE BtTakesNone BY <1>14 DEF BtTakesNone
<1>15. CASE BtForgets BY <1>15 DEF BtForgets
<1>16. CASE BtResponds BY <1>16 DEF BtResponds
<1>17. CASE BtHands BY <1>17 DEF BtHands
<1>18. CASE BtPopsNone BY <1>18 DEF BtPopsNone
<1>19. CASE BtTerminates
  <2>1. bt = "loop" /\ bt' = "delete" /\ UNCHANGED <<state, retired>>
        /\ argument' = [argument EXCEPT ![Handler] = None]
        /\ call' = [call EXCEPT ![Handler] = "none"]
    BY <1>19 DEF BtTerminates
  <2>2. \A t \in Callers : argument'[t] = "start" => argument[t] = "start" /\ call'[t] = call[t]
    BY <2>1, <1>0
  <2> QED BY <2>1, <2>2
<1>20. CASE BtDeletes BY <1>20 DEF BtDeletes
<1>21. CASE BtClears BY <1>21 DEF BtClears
<1>22. CASE NestDelegate BY <1>22 DEF NestDelegate
<1>23. CASE NestUnlock BY <1>23 DEF NestUnlock
<1>24. CASE RetiredDelivers BY <1>24 DEF RetiredDelivers
<1>25. CASE RetiredEnds BY <1>25 DEF RetiredEnds
<1>26. CASE HandlerTakes BY <1>26 DEF HandlerTakes
<1>27. CASE HandlerDone BY <1>27 DEF HandlerDone
<1>28. CASE Interrupt BY <1>28 DEF Interrupt
<1>29. CASE LinkLayer BY <1>29 DEF LinkLayer
<1>30. ASSUME NEW t \in Callers, Begin(t) PROVE StartInv'
  <2>1. /\ UNCHANGED <<state, retired, bt>> /\ call' = [call EXCEPT ![t] = "lock"] /\ Running
        /\ \A u \in Callers \ {t} : argument'[u] = argument[u]
        /\ argument'[t] = "start" => MayStart(t) /\ (t = Retired => retired = "process")
    BY <1>30 DEF Begin, MayCall
  <2> QED BY <2>1 DEF MayStart
<1>31. ASSUME NEW t \in Callers, Lock(t) PROVE StartInv' BY <1>31 DEF Lock
<1>32. ASSUME NEW t \in Callers, Count(t) PROVE StartInv' BY <1>32 DEF Count
<1>33. ASSUME NEW t \in Callers, Start(t) PROVE StartInv'
  <2>1. /\ argument' = argument /\ argument[t] = "start" /\ bt = "none"
        /\ call' = [call EXCEPT ![t] = "unlock"] /\ retired' = retired /\ retired # "deliver"
        /\ state \subseteq state'
    BY <1>33, <1>00 DEF Start, StartAdaptation, Owner
  <2> QED BY <2>1
<1>34. ASSUME NEW t \in Callers, Delegate(t) PROVE StartInv' BY <1>34 DEF Delegate
<1>35. ASSUME NEW t \in Callers, Signal(t) PROVE StartInv' BY <1>35 DEF Signal
<1>36. ASSUME NEW t \in Callers, Pend(t) PROVE StartInv' BY <1>36 DEF Pend
<1>37. ASSUME NEW t \in Callers, Fetch(t) PROVE StartInv' BY <1>37 DEF Fetch
<1>38. ASSUME NEW t \in Callers, Unlock(t) PROVE StartInv'
  <2>1. /\ UNCHANGED <<state, retired, bt>>
        /\ \A u \in Callers \ {t} : argument'[u] = argument[u] /\ call'[u] = call[u]
        /\ argument'[t] = "start" => argument[t] = "start" /\ call'[t] = "release"
    BY <1>38, <1>0 DEF Unlock
  <2> QED BY <2>1
<1>39. ASSUME NEW t \in Callers, Release(t) PROVE StartInv'
  <2>1. /\ UNCHANGED <<state, retired, bt>>
        /\ \A u \in Callers \ {t} : argument'[u] = argument[u] /\ call'[u] = call[u]
        /\ argument'[t] # "start"
    BY <1>39, <1>0 DEF Release
  <2> QED BY <2>1
<1> QED
  BY <1>1, <1>2, <1>3, <1>4, <1>5, <1>6, <1>7, <1>8, <1>9, <1>10, <1>11, <1>12, <1>13, <1>14,
     <1>15, <1>16, <1>17, <1>18, <1>19, <1>20, <1>21, <1>22, <1>23, <1>24, <1>25, <1>26, <1>27,
     <1>28, <1>29, <1>30, <1>31, <1>32, <1>33, <1>34, <1>35, <1>36, <1>37, <1>38, <1>39
  DEF Next, Proceed, BtProceeds

LEMMA ErrorStep ==
  ASSUME ErrorInv, StartInv, CallShape, LifeInv, LockInv, Retired \notin Starters, Next
  PROVE  ErrorInv'
<1> USE DEF lockVars, callVars, lifeVars, eventVars, btVars, At, Goes, Calls, ErrorInv
<1>1. CASE AppInit
  <2>1. retired = "none" /\ retired' = "none" BY <1>1 DEF AppInit, StartInv
  <2> QED BY <2>1
<1>2. CASE KernelStart BY <1>2 DEF KernelStart
<1>3. CASE NestLock BY <1>3 DEF NestLock
<1>4. CASE BtServes BY <1>4 DEF BtServes
<1>5. CASE BtRaises BY <1>5 DEF BtRaises
<1>6. CASE BtStopped BY <1>6 DEF BtStopped
<1>7. CASE BtPops BY <1>7 DEF BtPops
<1>8. CASE BtFailsToPop BY <1>8 DEF BtFailsToPop
<1>9. CASE BtStays BY <1>9 DEF BtStays
<1>10. CASE BtWakes BY <1>10 DEF BtWakes
<1>11. CASE BtCreates BY <1>11 DEF BtCreates
<1>12. CASE BtStarts BY <1>12 DEF BtStarts
<1>13. CASE BtTakesCommand BY <1>13 DEF BtTakesCommand
<1>14. CASE BtTakesNone BY <1>14 DEF BtTakesNone
<1>15. CASE BtForgets BY <1>15 DEF BtForgets
<1>16. CASE BtResponds BY <1>16 DEF BtResponds
<1>17. CASE BtHands BY <1>17 DEF BtHands
<1>18. CASE BtPopsNone BY <1>18 DEF BtPopsNone
<1>19. CASE BtTerminates BY <1>19 DEF BtTerminates
<1>20. CASE BtDeletes BY <1>20 DEF BtDeletes
<1>21. CASE BtClears BY <1>21 DEF BtClears
<1>22. CASE NestDelegate BY <1>22 DEF NestDelegate
<1>23. CASE NestUnlock BY <1>23 DEF NestUnlock
<1>24. CASE RetiredDelivers
  <2> QED BY <1>24 DEF RetiredDelivers
<1>25. CASE RetiredEnds BY <1>25 DEF RetiredEnds
<1>26. CASE HandlerTakes BY <1>26 DEF HandlerTakes
<1>27. CASE HandlerDone BY <1>27 DEF HandlerDone
<1>28. CASE Interrupt BY <1>28 DEF Interrupt
<1>29. CASE LinkLayer BY <1>29 DEF LinkLayer
<1>30. ASSUME NEW t \in Callers, Begin(t) PROVE ErrorInv' BY <1>30 DEF Begin
<1>31. ASSUME NEW t \in Callers, Lock(t) PROVE ErrorInv' BY <1>31 DEF Lock
<1>32. ASSUME NEW t \in Callers, Count(t) PROVE ErrorInv' BY <1>32 DEF Count
<1>33. ASSUME NEW t \in Callers, Start(t) PROVE ErrorInv'
  <2>1. argument[t] = "start" /\ t # Retired
    BY <1>33 DEF Start, LockInv, Owners, Owner, StartInv
  <2>2. retired = "none" /\ retired' = "none" BY <1>33, <2>1 DEF Start, StartInv
  <2> QED BY <2>2
<1>34. ASSUME NEW t \in Callers, Delegate(t) PROVE ErrorInv' BY <1>34 DEF Delegate
<1>35. ASSUME NEW t \in Callers, Signal(t) PROVE ErrorInv' BY <1>35 DEF Signal
<1>36. ASSUME NEW t \in Callers, Pend(t) PROVE ErrorInv' BY <1>36 DEF Pend
<1>37. ASSUME NEW t \in Callers, Fetch(t) PROVE ErrorInv' BY <1>37 DEF Fetch
<1>38. ASSUME NEW t \in Callers, Unlock(t) PROVE ErrorInv' BY <1>38 DEF Unlock
<1>39. ASSUME NEW t \in Callers, Release(t) PROVE ErrorInv' BY <1>39 DEF Release
<1> QED
  BY <1>1, <1>2, <1>3, <1>4, <1>5, <1>6, <1>7, <1>8, <1>9, <1>10, <1>11, <1>12, <1>13, <1>14,
     <1>15, <1>16, <1>17, <1>18, <1>19, <1>20, <1>21, <1>22, <1>23, <1>24, <1>25, <1>26, <1>27,
     <1>28, <1>29, <1>30, <1>31, <1>32, <1>33, <1>34, <1>35, <1>36, <1>37, <1>38, <1>39
  DEF Next, Proceed, BtProceeds

-----------------------------------------------------------------------------
(* The invariant and what it gives.                                        *)

IInv ==
  /\ LifeTypes /\ CallShape /\ ThreadTypes
  /\ LifeInv /\ LockInv /\ CountInv /\ Token /\ StartInv

\* The program starts in it.
LEMMA InitIInv == Init => IInv /\ ErrorInv
<1> SUFFICES ASSUME Init PROVE IInv /\ ErrorInv OBVIOUS
<1> USE ConstantsAssumption DEF Init
<1>1. LifeTypes BY DEF LifeTypes
<1>2. LifeInv BY DEF LifeInv, Idle, Loop, Both
<1>3. Quiet /\ mutex = None BY DEF Quiet, Turned, Serves
<1>4. \A t \in Callers : Owner(t) BY DEF Owner, Callers, Inside
<1>5. LockInv BY <1>3, <1>4, ConstantsAssumption DEF LockInv, Owners
<1>6. CountInv BY DEF CountInv, CountOf, Counted, Inside
<1>7. Token BY DEF Token
<1>8. ThreadTypes BY DEF ThreadTypes
<1>9. CallShape BY DEF CallShape
<1>10. StartInv BY DEF StartInv
<1>11. ErrorInv BY DEF ErrorInv
<1> QED BY <1>1, <1>2, <1>5, <1>6, <1>7, <1>8, <1>9, <1>10, <1>11 DEF IInv

\* Every step keeps it.
LEMMA IInvStep == IInv /\ [Next]_vars => IInv'
<1> SUFFICES ASSUME IInv, [Next]_vars PROVE IInv' OBVIOUS
<1>1. CASE UNCHANGED vars
  <2>6. LifeTypes' BY <1>1 DEF IInv, vars, LifeTypes, lifeVars
  <2>7. ThreadTypes' BY <1>1 DEF IInv, vars, ThreadTypes, eventVars, btVars
  <2>8. CallShape' BY <1>1 DEF IInv, vars, CallShape, lockVars, callVars
  <2>2. Quiet' <=> Quiet BY <1>1 DEF Quiet, vars, lifeVars, btVars
  <2>3. LifeInv'
    BY <1>1 DEF IInv, vars, LifeInv, lifeVars, eventVars, btVars, Idle
  <2>4. CountInv' /\ Token' /\ StartInv'

      BY <1>1
      DEF IInv, vars, CountInv, CountOf, Token, StartInv, lockVars, callVars, lifeVars,
          eventVars, btVars, Running
  <2>5. LockInv'
    <3>1. \A t \in Callers : Turn(t) => Turn(t)'
      BY <1>1 DEF Turn, vars, callVars, lifeVars, btVars, CommandOf, ResponseTo, Available
    <3> QED BY <1>1, <2>2, <3>1, LockFrame
      DEF IInv, vars, lockVars, callVars, lifeVars, btVars, Available, Running
  <2> QED BY <2>3, <2>4, <2>5, <2>6, <2>7, <2>8 DEF IInv
<1>2. CASE Next
  <2>1. LifeTypes' /\ ThreadTypes' /\ LifeInv' /\ Token' /\ StartInv'
    BY <1>2, LifeTypesStep, ThreadTypesStep, LifeStep, TokenStep, StartStep DEF IInv
  <2>2. CASE Elsewhere
    BY <2>1, <2>2, LockStep, CallShapeStep, CountStep DEF IInv
  <2>3. ASSUME NEW t \in Callers, Begin(t) \/ Proceed(t) PROVE IInv'
    <3>1. LockInv' /\ CallShape' BY <2>3, CallerStep DEF IInv
    <3>2. CountInv' BY <2>3, <3>1, CallerCounts DEF IInv
    <3> QED BY <2>1, <3>1, <3>2 DEF IInv
  <2> QED BY <1>2, <2>2, <2>3 DEF Next, Elsewhere
<1> QED BY <1>1, <1>2

\* The invariant holds in every state: whatever the interleaving of callers, the
\* Bluetooth thread, the event handler and interrupts, a command keeps the BGAPI
\* lock from sli_bgapi_lock() to sli_bgapi_unlock() and its place in the handshake.
THEOREM CommandsKeepTheLock == Spec => []IInv
  BY InitIInv, IInvStep, PTL DEF Spec

\* Every variable keeps its type.
THEOREM TypeCorrect == Spec => []TypeOK
<1>1. IInv => TypeOK BY DEF IInv, CountInv, CallShape, TypeOK, CallTypes
<1> QED BY <1>1, CommandsKeepTheLock, PTL

\* Only the owner of the BGAPI mutex is past sli_bgapi_lock(), and the recursion
\* counter tells how many locks are held: sli_bgapi_unlock() gives the mutex back
\* exactly when the last one is.
THEOREM LockExcludesOthers == Spec => []LockExcludes
<1>1. IInv => LockExcludes
  <2> SUFFICES ASSUME IInv PROVE LockExcludes OBVIOUS
  <2>1. \A t \in Callers : call[t] \in Inside => mutex = t
    BY DEF IInv, LockInv, Owners, Owner
  <2> DEFINE counted == {t \in Callers : call[t] \in Counted}
             nested == IF bt \in {"nested", "unnest"} THEN 1 ELSE 0
  <2>2. ASSUME ~Orphaned PROVE recursion = Cardinality(counted) + nested
    <3>1. CASE mutex = None
      <4>1. counted = {} BY <2>1, <3>1, ConstantsAssumption DEF Counted
      <4>2. recursion = 0 /\ nested = 0
        BY <3>1 DEF IInv, CountInv, LockInv, Quiet, Turned, Serves
      <4> QED BY <4>1, <4>2, FS_EmptySet
    <3>2. CASE mutex # None
      <4>1. PICK t \in Callers : mutex = t BY <3>2 DEF IInv, LockInv, CallShape
      <4>2. call[t] \in Inside /\ CountOf(t) /\ Owner(t)
        BY <2>2, <4>1 DEF IInv, LockInv, Owners, Owner, Orphaned, CountInv
      <4>3. counted \subseteq {t} BY <2>1, <4>1 DEF Counted
      <4>4. CASE call[t] \in {"count", "release"}
        <5>1. counted = {} BY <4>3, <4>4 DEF Counted
        <5>2. recursion = 0 /\ nested = 0 BY <4>2, <4>4 DEF CountOf, Owner, Quiet, Turned, Serves
        <5> QED BY <5>1, <5>2, FS_EmptySet
      <4>5. CASE call[t] = "pend"
        <5>1. counted = {t} BY <4>3, <4>5 DEF Counted, Inside
        <5>2. recursion = 1 + nested BY <4>2, <4>5 DEF CountOf
        <5>3. Cardinality({t}) = 1 BY FS_Singleton
        <5>4. nested \in Nat OBVIOUS
        <5> HIDE DEF nested, counted
        <5> QED BY <5>1, <5>2, <5>3, <5>4
      <4>6. CASE call[t] \notin {"count", "release", "pend"}
        <5>1. counted = {t} BY <4>2, <4>3, <4>6 DEF Counted
        <5>2. recursion = 1 /\ nested = 0
          BY <4>2, <4>6 DEF CountOf, Counted, Inside, Owner, Quiet, Turned, Serves
        <5>3. Cardinality({t}) = 1 BY FS_Singleton
        <5> HIDE DEF nested, counted
        <5> QED BY <5>1, <5>2, <5>3
      <4> QED BY <4>4, <4>5, <4>6
    <3> QED BY <3>1, <3>2
  <2> QED BY <2>1, <2>2 DEF LockExcludes
<1> QED BY <1>1, CommandsKeepTheLock, PTL

\* The response a caller fetches from the one shared response buffer is that of
\* its own command, with the argument it sent, for any number of callers.
THEOREM AnswersBelong == Spec => []AnswersTheCall
<1>1. IInv => AnswersTheCall
  BY DEF IInv, LockInv, Owners, Owner, AnswersTheCall, ResponseTo
<1> QED BY <1>1, CommandsKeepTheLock, PTL

\* A thread that starts the stack finds the flags, the objects and the threads of
\* the run before it gone.
THEOREM StartsClean == Spec => []StartFindsNothing
<1>1. IInv => StartFindsNothing
  BY DEF IInv, LifeInv, StartFindsNothing
<1> QED BY <1>1, CommandsKeepTheLock, PTL

\* The buffer for the event being handled is not overwritten while its handler
\* reads it. It holds when the thread that failed to start does not itself start
\* Bluetooth again from its system_error event: the light's handler does not.
THEOREM EventStaysIntact ==
  ASSUME Retired \notin Starters
  PROVE  Spec => []EventIntact
<1>1. IInv /\ ErrorInv /\ [Next]_vars => ErrorInv'
  <2> SUFFICES ASSUME IInv, ErrorInv, [Next]_vars PROVE ErrorInv' OBVIOUS
  <2>1. CASE UNCHANGED vars BY <2>1 DEF ErrorInv, vars, lifeVars, eventVars, btVars
  <2>2. CASE Next BY <2>2, ErrorStep DEF IInv
  <2> QED BY <2>1, <2>2
<1>2. IInv /\ ErrorInv => EventIntact
  BY DEF IInv, Token, ErrorInv, EventIntact
<1> QED BY <1>1, <1>2, InitIInv, CommandsKeepTheLock, PTL DEF Spec

-----------------------------------------------------------------------------
(* The mapping to StackService.                                            *)

LEMMA MapStep ==
  ASSUME MapInv, CallShape, LifeInv, ThreadTypes, Token, Next
  PROVE  MapInv'
<1> USE DEF lockVars, callVars, lifeVars, eventVars, btVars, At, Goes, Calls, MapInv, CallShape,
       LifeInv, Handed, Loop, Available, Awaited, Kept
<1>0. None \notin Events \cup {"system_error"} BY ConstantsAssumption
<1>1. CASE AppInit BY <1>1 DEF AppInit, StartAdaptation
<1>2. CASE KernelStart BY <1>2 DEF KernelStart
<1>3. CASE NestLock BY <1>3 DEF NestLock
<1>4. CASE BtServes BY <1>4 DEF BtServes
<1>5. CASE BtRaises BY <1>5 DEF BtRaises
<1>6. CASE BtStopped BY <1>6 DEF BtStopped
<1>7. CASE BtPops
  <2>1. pending # <<>> /\ evt' = Head(pending) BY <1>7 DEF BtPops
  <2>2. evt' # None BY <1>0, <2>1, PendingTypes DEF ThreadTypes
  <2>3. /\ UNCHANGED <<state, flags, local, call, result, handler, handling>> /\ bt' = "hand"
    BY <1>7 DEF BtPops
  <2> QED BY <2>1, <2>2, <2>3
<1>8. CASE BtFailsToPop BY <1>8 DEF BtFailsToPop
<1>9. CASE BtStays BY <1>9 DEF BtStays
<1>10. CASE BtWakes BY <1>10 DEF BtWakes
<1>11. CASE BtCreates BY <1>11 DEF BtCreates
<1>12. CASE BtStarts BY <1>12 DEF BtStarts
<1>13. CASE BtTakesCommand BY <1>13 DEF BtTakesCommand
<1>14. CASE BtTakesNone BY <1>14 DEF BtTakesNone
<1>15. CASE BtForgets BY <1>15 DEF BtForgets
<1>16. CASE BtResponds BY <1>16 DEF BtResponds
<1>17. CASE BtHands BY <1>17 DEF BtHands
<1>18. CASE BtPopsNone BY <1>18 DEF BtPopsNone
<1>19. CASE BtTerminates BY <1>19 DEF BtTerminates
<1>20. CASE BtDeletes BY <1>20 DEF BtDeletes
<1>21. CASE BtClears BY <1>21 DEF BtClears
<1>22. CASE NestDelegate BY <1>22 DEF NestDelegate
<1>23. CASE NestUnlock BY <1>23 DEF NestUnlock
<1>24. CASE RetiredDelivers BY <1>0, <1>24 DEF RetiredDelivers
<1>25. CASE RetiredEnds BY <1>25 DEF RetiredEnds
<1>26. CASE HandlerTakes BY <1>26 DEF HandlerTakes
<1>27. CASE HandlerDone BY <1>27 DEF HandlerDone
<1>28. CASE Interrupt BY <1>28 DEF Interrupt
<1>29. CASE LinkLayer BY <1>29 DEF LinkLayer
<1>30. ASSUME NEW t \in Callers, Begin(t) PROVE MapInv' BY <1>30 DEF Begin
<1>31. ASSUME NEW t \in Callers, Lock(t) PROVE MapInv' BY <1>31 DEF Lock
<1>32. ASSUME NEW t \in Callers, Count(t) PROVE MapInv' BY <1>32 DEF Count
<1>33. ASSUME NEW t \in Callers, Start(t) PROVE MapInv' BY <1>33 DEF Start, StartAdaptation
<1>34. ASSUME NEW t \in Callers, Delegate(t) PROVE MapInv' BY <1>34 DEF Delegate
<1>35. ASSUME NEW t \in Callers, Signal(t) PROVE MapInv' BY <1>35 DEF Signal
<1>36. ASSUME NEW t \in Callers, Pend(t) PROVE MapInv' BY <1>36 DEF Pend
<1>37. ASSUME NEW t \in Callers, Fetch(t) PROVE MapInv' BY <1>37 DEF Fetch
<1>38. ASSUME NEW t \in Callers, Unlock(t) PROVE MapInv' BY <1>38 DEF Unlock
<1>39. ASSUME NEW t \in Callers, Release(t) PROVE MapInv' BY <1>39 DEF Release
<1> QED
  BY <1>1, <1>2, <1>3, <1>4, <1>5, <1>6, <1>7, <1>8, <1>9, <1>10, <1>11, <1>12, <1>13, <1>14,
     <1>15, <1>16, <1>17, <1>18, <1>19, <1>20, <1>21, <1>22, <1>23, <1>24, <1>25, <1>26, <1>27,
     <1>28, <1>29, <1>30, <1>31, <1>32, <1>33, <1>34, <1>35, <1>36, <1>37, <1>38, <1>39
  DEF Next, Proceed, BtProceeds

\* Each step is a step of StackService or leaves what it shows as it is.

RInv == IInv /\ MapInv

SameCalls == UNCHANGED <<Asked, Answered, result>>
SameEvents == UNCHANGED <<Mailbox, handling>>

LEMMA EventsUnchanged ==
  ASSUME UNCHANGED <<pending, handling>>, Handed' <=> Handed, Handed => evt' = evt
  PROVE  SameEvents
  BY DEF SameEvents, Mailbox

LEMMA CallsUnchanged ==
  ASSUME UNCHANGED <<call, argument, result>>, message' = message \/ message'.kind = message.kind
  PROVE  SameCalls
  BY DEF SameCalls, Asked, Answered

\* Facts about sequences.
LEMMA OfLengthOne ==
  ASSUME NEW S, NEW r \in Seq(S), Len(r) = 1
  PROVE  r = <<r[1]>>
  OBVIOUS

LEMMA Prepended ==
  ASSUME NEW S, NEW q \in Seq(S), NEW v \in S
  PROVE  /\ <<v>> \o q \in Seq(S)
         /\ Len(<<v>> \o q) = Len(q) + 1
         /\ <<v>> \o q # <<>> /\ Head(<<v>> \o q) = v /\ Tail(<<v>> \o q) = q
         /\ \A e \in S : <<v>> \o Append(q, e) = Append(<<v>> \o q, e)
         /\ SubSeq(<<v>> \o q, 1, 1) = <<v>>
<1>1. Len(<<v>> \o q) = Len(q) + 1 /\ <<v>> \o q \in Seq(S)
  OBVIOUS
<1>2. <<v>> \o q # <<>> /\ Head(<<v>> \o q) = v
  OBVIOUS
<1>3. Tail(<<v>> \o q) = q
  OBVIOUS
<1>4. ASSUME NEW e \in S
      PROVE  <<v>> \o Append(q, e) = Append(<<v>> \o q, e)
  OBVIOUS
<1>5. SubSeq(<<v>> \o q, 1, 1) = <<v>>
  <2> DEFINE s == <<v>> \o q
  <2>1. s \in Seq(S) /\ 1 <= Len(s) /\ s[1] = v
    BY <1>1
  <2>2. /\ SubSeq(s, 1, 1) \in Seq(S) /\ Len(SubSeq(s, 1, 1)) = 1
        /\ SubSeq(s, 1, 1)[1] = v
    <3> HIDE DEF s
    <3> QED BY <2>1
  <2>3. SubSeq(s, 1, 1) = <<SubSeq(s, 1, 1)[1]>>
    <3> DEFINE r == SubSeq(s, 1, 1)
    <3>1. r \in Seq(S) /\ Len(r) = 1
      BY <2>2
    <3> HIDE DEF r
    <3>2. r = <<r[1]>>
      BY <3>1, OfLengthOne
    <3> QED BY <3>2 DEF r
  <2> HIDE DEF s
  <2>4. SubSeq(s, 1, 1) = <<v>>
    BY <2>2, <2>3
  <2> QED BY <2>4 DEF s
<1> QED
  BY <1>1, <1>2, <1>3, <1>4, <1>5

LEMMA Shortened ==
  ASSUME NEW S, NEW q \in Seq(S)
  PROVE  SubSeq(q, 1, 0) = <<>> /\ SubSeq(q, 1, Len(q)) = q /\ Len(q) \in Nat
  OBVIOUS

SomeEvent == Events \cup {"system_error", None}

LEMMA MailboxType ==
  ASSUME ThreadTypes
  PROVE  /\ pending \in Seq(SomeEvent) /\ evt \in SomeEvent
         /\ Mailbox \in Seq(SomeEvent)
         /\ Handed => Len(Mailbox) = Len(pending) + 1
<1>1. pending \in Seq(SomeEvent) /\ evt \in SomeEvent
  BY DEF ThreadTypes, SomeEvent
<1> QED BY <1>1, Prepended DEF Mailbox

\* A caller asks, takes its answer and uses it.
LEMMA CallRefines ==
  ASSUME RInv, NEW t \in Callers, Begin(t) \/ Proceed(t)
  PROVE  /\ SameEvents
         /\ \/ SameCalls
            \/ Service!Ask(t)
            \/ Service!Return(t)
            \/ Service!Use(t)
<1> USE DEF Calls, lockVars, callVars, lifeVars, eventVars, btVars, RInv, IInv
<1>0. SameEvents
  <2>1. CASE Start(t)
    <3>1. /\ UNCHANGED <<pending, handling, evt>>
          /\ "EVT_WAITING" \in flags' <=> "EVT_WAITING" \in flags
          /\ bt' = "hand" <=> bt = "hand"
      BY <2>1 DEF Start, StartAdaptation, LifeInv
    <3> QED BY <3>1, EventsUnchanged DEF Handed
  <2>2. ASSUME ~Start(t) PROVE SameEvents
    <3>1. /\ UNCHANGED <<pending, handling, evt, bt>>
          /\ "EVT_WAITING" \in flags' <=> "EVT_WAITING" \in flags
      BY <2>2 DEF Begin, Proceed, Lock, Count, Delegate, Signal, Pend, Fetch, Unlock, Release
    <3> QED BY <3>1, EventsUnchanged DEF Handed
  <2> QED BY <2>1, <2>2
<1>1. ASSUME UNCHANGED <<argument, result, message>>, call' = [call EXCEPT ![t] = call'[t]],
             call[t] \in {"delegate", "signal", "pend", "fetch"}
               <=> call'[t] \in {"delegate", "signal", "pend", "fetch"},
             call[t] \in {"signal", "pend", "fetch"} <=> call'[t] \in {"signal", "pend", "fetch"}
      PROVE  SameCalls
  <2>1. Asked' = Asked BY <1>1 DEF Asked, CallShape
  <2>2. Answered' = Answered BY <1>1 DEF Answered, CallShape
  <2> QED BY <1>1, <2>1, <2>2 DEF SameCalls
<1>2. CASE Begin(t)
  <2>1. Asked' = Asked BY <1>2 DEF Begin, Asked, CallShape
  <2>2. Answered' = Answered BY <1>2 DEF Begin, Answered, CallShape
  <2> QED BY <1>0, <1>2, <2>1, <2>2 DEF Begin, SameCalls
<1>3. CASE Lock(t) BY <1>0, <1>1, <1>3 DEF Lock, CallShape
<1>4. CASE Start(t) BY <1>0, <1>1, <1>4 DEF Start, CallShape
<1>5. CASE Signal(t) BY <1>0, <1>1, <1>5 DEF Signal, CallShape
<1>6. CASE Pend(t) BY <1>0, <1>1, <1>6 DEF Pend, CallShape
<1>7. CASE Count(t)
  <2>1. CASE call'[t] # "delegate" BY <1>0, <1>1, <1>7, <2>1 DEF Count, CallShape
  <2>2. CASE call'[t] = "delegate"
    <3>1. call[t] = "count" /\ argument[t] \in Arguments
      BY <1>7, <2>2, ConstantsAssumption DEF Count, CallShape, LockInv, Owners, Owner
    <3>2. Asked[t] = None /\ result[t] = None BY <3>1 DEF Asked, MapInv
    <3>3. Asked' = [Asked EXCEPT ![t] = argument[t]]
      BY <1>7, <2>2, <3>1 DEF Count, Asked, CallShape
    <3>4. Answered' = Answered /\ result' = result
      BY <1>7, <2>2, <3>1 DEF Count, Answered, CallShape
    <3> QED BY <1>0, <3>1, <3>2, <3>3, <3>4 DEF Service!Ask, SameEvents
  <2> QED BY <2>1, <2>2
<1>8. CASE Delegate(t)
  <2>1. \A u \in Callers : call[u] \notin {"signal", "pend", "fetch"}
    BY <1>8 DEF Delegate, LockInv, Owners, Owner, Inside
  <2>2. Answered = {} BY <2>1 DEF Answered
  <2>3. Answered' = {} BY <1>8, <2>1 DEF Delegate, Answered, CallShape
  <2>4. Asked' = Asked /\ result' = result BY <1>8 DEF Delegate, Asked, CallShape
  <2> QED BY <1>0, <2>2, <2>3, <2>4 DEF SameCalls
<1>9. CASE Fetch(t)
  <2>1. message = ResponseTo(t) BY <1>9 DEF Fetch, LockInv, Owners, Owner
  <2>2. t \in Answered /\ Asked[t] = argument[t]
    BY <1>9, <2>1 DEF Fetch, Answered, Asked, ResponseTo
  <2>3. Answered' = Answered \ {t} BY <1>9 DEF Fetch, Answered, CallShape
  <2>4. result' = [result EXCEPT ![t] = Asked[t]] BY <1>9, <2>1, <2>2 DEF Fetch, ResponseTo
  <2>5. Asked' = [Asked EXCEPT ![t] = None] BY <1>9 DEF Fetch, Asked, CallShape
  <2> QED BY <1>0, <2>2, <2>3, <2>4, <2>5 DEF Service!Return, SameEvents
<1>10. CASE Unlock(t)
  <2>1. recursion = 1 BY <1>10 DEF Unlock, CountInv, CountOf, Counted, Inside
  <2>2. UNCHANGED <<argument, result, message>> /\ call' = [call EXCEPT ![t] = "release"]
    BY <1>10, <2>1 DEF Unlock
  <2> QED BY <1>0, <1>1, <1>10, <2>2 DEF Unlock, CallShape
<1>11. CASE Release(t)
  <2>1. Asked' = Asked /\ Answered' = Answered
    BY <1>11 DEF Release, Asked, Answered, CallShape
  <2>2. CASE result[t] # None
    BY <1>0, <1>11, <2>1, <2>2 DEF Release, Service!Use, SameEvents
  <2>3. CASE result[t] = None
    <3>1. result' = result BY <1>11, <2>3 DEF Release, CallShape
    <3> QED BY <1>0, <2>1, <3>1 DEF SameCalls
  <2> QED BY <2>2, <2>3
<1> QED
  BY <1>2, <1>3, <1>4, <1>5, <1>6, <1>7, <1>8, <1>9, <1>10, <1>11 DEF Proceed

\* The Bluetooth thread's answer is the service's.
LEMMA AnswerRefines ==
  ASSUME RInv, BtServes
  PROVE  SameEvents /\ \E t \in Callers : Service!Answer(t)
<1> USE DEF lockVars, callVars, lifeVars, eventVars, btVars, At, Goes, RInv, IInv
<1>1. SameEvents BY EventsUnchanged DEF BtServes, Handed
<1>2. ~Quiet /\ bt = "serve" BY DEF BtServes, Quiet, Turned, Serves
<1>3. PICK t \in Callers : mutex = t /\ call[t] = "pend" /\ Turn(t) BY <1>2, ServedHasOwner
<1>4. serving = CommandOf(t) /\ message = CommandOf(t) /\ argument[t] \in Arguments
  BY <1>2, <1>3 DEF Turn, Turned, Serves, LockInv, Owners, Owner
<1>5. \A u \in Callers : call[u] \in {"signal", "pend", "fetch"} => u = t
  BY <1>3 DEF LockInv, Owners, Owner, Inside
<1>6. message'.kind = "response" /\ UNCHANGED <<call, argument, result>>
  BY <1>4 DEF BtServes, CommandOf
<1>7. Answered = {} /\ Answered' = {t} BY <1>3, <1>4, <1>5, <1>6 DEF Answered, CommandOf
<1>8. Asked[t] # None /\ Asked' = Asked
  BY <1>3, <1>4, <1>6, ConstantsAssumption DEF Asked, Arguments
<1> QED BY <1>1, <1>6, <1>7, <1>8 DEF Service!Answer, SameEvents

\* What events go through.
LEMMA EventRefines ==
  ASSUME RInv, BtRaises \/ BtPops \/ BtHands \/ HandlerTakes \/ HandlerDone
  PROVE  SameCalls /\ (SameEvents \/ Service!Accept \/ Service!Deliver \/ Service!Handle)
<1> USE DEF lockVars, callVars, lifeVars, eventVars, btVars, At, Goes, RInv, IInv
<1>0. SameCalls BY CallsUnchanged DEF BtRaises, BtPops, BtHands, HandlerTakes, HandlerDone
<1>1. pending \in Seq(Events) /\ Len(pending) <= MaxPending BY DEF ThreadTypes
<1>2. CASE BtRaises
  <2>1. PICK e \in Events : pending' = Append(pending, e) BY <1>2 DEF BtRaises
  <2>2. Len(pending) < MaxPending /\ (Handed' <=> Handed) /\ UNCHANGED <<evt, handling>>
    BY <1>2 DEF BtRaises, Handed
  <2>3. Len(Mailbox) < MaxPending + 1 /\ Mailbox' = Append(Mailbox, e)
    <3>1. CASE ~Handed BY <1>1, <2>1, <2>2, <3>1, ConstantsAssumption DEF Mailbox
    <3>2. CASE Handed
      <4>1. Mailbox = <<evt>> \o pending /\ Mailbox' = <<evt>> \o Append(pending, e)
        BY <2>1, <2>2, <3>2 DEF Mailbox
      <4>2. e \in SomeEvent BY DEF SomeEvent
      <4>3. /\ Len(<<evt>> \o pending) = Len(pending) + 1
            /\ <<evt>> \o Append(pending, e) = Append(<<evt>> \o pending, e)
        BY <4>2, MailboxType, Prepended
      <4>4. Len(pending) \in Nat /\ MaxPending \in Nat BY <1>1, ConstantsAssumption
      <4> QED BY <2>2, <4>1, <4>3, <4>4
    <3> QED BY <3>1, <3>2
  <2> QED BY <1>0, <2>1, <2>2, <2>3 DEF Service!Accept, SameCalls
<1>3. CASE BtPops
  <2>1. pending # <<>> /\ evt' = Head(pending) /\ pending' = Tail(pending) BY <1>3 DEF BtPops
  <2>2. ~Handed /\ Handed' /\ handling' = handling BY <1>3 DEF BtPops, Handed, Token
  <2>3. pending = <<Head(pending)>> \o Tail(pending) BY <1>1, <2>1
  <2> QED BY <1>0, <2>1, <2>2, <2>3 DEF Mailbox, SameEvents
<1>4. CASE BtHands
  BY <1>0, <1>4, EventsUnchanged DEF BtHands, Handed
<1>5. CASE HandlerTakes
  <2>1. handling' = evt /\ pending' = pending /\ handler = "wait" BY <1>5 DEF HandlerTakes
  <2>2. Handed /\ ~Handed' BY <1>5 DEF HandlerTakes, Handed, Token
  <2>3. handling = None BY <2>1 DEF MapInv
  <2>4. Mailbox = <<evt>> \o pending /\ Mailbox' = pending BY <2>1, <2>2 DEF Mailbox
  <2>5. Mailbox # <<>> /\ Head(Mailbox) = evt /\ Tail(Mailbox) = pending
    BY <2>4, MailboxType, Prepended
  <2> QED BY <1>0, <2>1, <2>3, <2>4, <2>5 DEF Service!Deliver, SameCalls
<1>6. CASE HandlerDone
  <2>1. handling # None /\ handling' = None BY <1>6 DEF HandlerDone, MapInv
  <2>2. Mailbox' = Mailbox BY <1>6 DEF HandlerDone, Mailbox, Handed
  <2> QED BY <1>0, <2>1, <2>2 DEF Service!Handle, SameCalls
<1> QED BY <1>2, <1>3, <1>4, <1>5, <1>6

\* What a stop loses.
LEMMA StopRefines ==
  ASSUME RInv, BtStopped \/ BtTerminates \/ BtDeletes
  PROVE  Service!Stop
<1> USE DEF lockVars, callVars, lifeVars, eventVars, btVars, At, Goes, RInv, IInv
<1>1. Mailbox \in Seq(SomeEvent) BY MailboxType
<1>2. SubSeq(Mailbox, 1, 0) = <<>> /\ SubSeq(Mailbox, 1, Len(Mailbox)) = Mailbox
      /\ 0 \in 0 .. Len(Mailbox) /\ Len(Mailbox) \in 0 .. Len(Mailbox)
  BY <1>1, Shortened
<1>3. ASSUME SameCalls, UNCHANGED handling,
             \E n \in 0 .. Len(Mailbox) : Mailbox' = SubSeq(Mailbox, 1, n)
      PROVE  Service!Stop
  <2>1. /\ Asked' = [t \in Callers |-> IF t \in {} THEN None ELSE Asked[t]]
        /\ result' = [t \in Callers |-> IF t \in {} THEN None ELSE result[t]]
        /\ Answered' = Answered \ {}
    BY <1>3 DEF SameCalls, Asked, CallShape
  <2>2. {} \in SUBSET Callers OBVIOUS
  <2> QED BY <1>3, <2>1, <2>2 DEF Service!Stop
<1>4. CASE BtStopped
  <2>1. SameCalls BY <1>4, CallsUnchanged DEF BtStopped
  <2>2. pending' = <<>> /\ evt' = evt /\ handling' = handling /\ (Handed' <=> Handed)
    BY <1>4 DEF BtStopped, Handed
  <2>3. CASE Handed
    <3>1. Mailbox' = <<evt>> BY <2>2, <2>3 DEF Mailbox
    <3>2. Mailbox' = SubSeq(Mailbox, 1, 1) /\ 1 \in 0 .. Len(Mailbox)
      <4>1. Mailbox = <<evt>> \o pending BY <2>3 DEF Mailbox
      <4>2. SubSeq(Mailbox, 1, 1) = <<evt>> BY <4>1, MailboxType, Prepended
      <4>3. Len(Mailbox) = Len(pending) + 1 /\ Len(pending) \in Nat
        BY <2>3, MailboxType, Shortened
      <4>4. 1 \in 0 .. Len(Mailbox) BY <4>3
      <4> QED BY <3>1, <4>2, <4>4
    <3> QED BY <1>3, <2>1, <2>2, <3>2
  <2>4. CASE ~Handed
    <3>1. Mailbox' = <<>> BY <2>2, <2>4 DEF Mailbox
    <3> QED BY <1>2, <1>3, <2>1, <2>2, <3>1
  <2> QED BY <2>3, <2>4
<1>5. CASE BtDeletes
  <2>1. SameCalls BY <1>5, CallsUnchanged DEF BtDeletes
  <2>2. pending = <<>> /\ pending' = <<>> /\ handling' = handling /\ ~Handed'
    BY <1>5 DEF BtDeletes, MapInv, Loop, Handed
  <2>3. Mailbox' = <<>> BY <2>2 DEF Mailbox
  <2> QED BY <1>2, <1>3, <2>1, <2>2, <2>3
<1>6. CASE BtTerminates
  <2>1. /\ UNCHANGED <<message, evt, pending, flags>> /\ handling' = None
        /\ bt = "loop" /\ bt' = "delete"
        /\ call' = [call EXCEPT ![Handler] = "none"]
        /\ argument' = [argument EXCEPT ![Handler] = None]
        /\ result' = [result EXCEPT ![Handler] = None]
    BY <1>6 DEF BtTerminates
  <2>2. Mailbox' = Mailbox BY <2>1 DEF Mailbox, Handed
  <2>3. Asked' = [t \in Callers |-> IF t \in {Handler} THEN None ELSE Asked[t]]
    BY <2>1 DEF Asked, CallShape
  <2>4. result' = [t \in Callers |-> IF t \in {Handler} THEN None ELSE result[t]]
    BY <2>1 DEF CallShape
  <2>5. Answered' = Answered \ {Handler} BY <2>1 DEF Answered, CallShape
  <2>6. {Handler} \in SUBSET Callers BY DEF Callers
  <2> QED BY <1>2, <2>1, <2>2, <2>3, <2>4, <2>5, <2>6 DEF Service!Stop
<1> QED BY <1>4, <1>5, <1>6

\* The other steps change nothing that the service shows.
LEMMA OthersRefine ==
  ASSUME RInv,
         \/ AppInit \/ KernelStart \/ NestLock \/ BtFailsToPop \/ BtStays \/ BtWakes
         \/ BtCreates \/ BtStarts \/ BtTakesCommand \/ BtTakesNone \/ BtForgets \/ BtResponds
         \/ BtPopsNone \/ BtClears \/ NestDelegate \/ NestUnlock \/ RetiredDelivers
         \/ RetiredEnds \/ Interrupt \/ LinkLayer
  PROVE  SameCalls /\ SameEvents
<1> USE DEF lockVars, callVars, lifeVars, eventVars, btVars, At, Goes, RInv, IInv
<1>1. ASSUME UNCHANGED <<call, argument, result, message, pending, handling>>,
             Handed' <=> Handed, Handed => evt' = evt
      PROVE  SameCalls /\ SameEvents
  BY <1>1, CallsUnchanged, EventsUnchanged
<1>2. CASE AppInit BY <1>1, <1>2 DEF AppInit, Handed, StartAdaptation, LifeInv
<1>3. CASE KernelStart BY <1>1, <1>3 DEF KernelStart, Handed
<1>4. CASE NestLock BY <1>1, <1>4 DEF NestLock, Handed
<1>5. CASE BtFailsToPop BY <1>1, <1>5 DEF BtFailsToPop, Handed
<1>6. CASE BtStays BY <1>1, <1>6 DEF BtStays, Handed
<1>7. CASE BtWakes BY <1>1, <1>7 DEF BtWakes, Handed, Awaited
<1>8. CASE BtCreates BY <1>1, <1>8 DEF BtCreates, Handed
<1>9. CASE BtStarts BY <1>1, <1>9 DEF BtStarts, Handed
<1>10. CASE BtTakesCommand BY <1>1, <1>10 DEF BtTakesCommand, Handed
<1>11. CASE BtTakesNone BY <1>1, <1>11 DEF BtTakesNone, Handed
<1>12. CASE BtForgets BY <1>1, <1>12 DEF BtForgets, Handed
<1>13. CASE BtResponds BY <1>1, <1>13 DEF BtResponds, Handed
<1>14. CASE BtPopsNone BY <1>1, <1>14 DEF BtPopsNone, Handed
<1>15. CASE BtClears BY <1>1, <1>15 DEF BtClears, Handed
<1>16. CASE NestDelegate BY <1>1, <1>16 DEF NestDelegate, Handed
<1>17. CASE NestUnlock BY <1>1, <1>17 DEF NestUnlock, Handed
<1>18. CASE RetiredDelivers BY <1>1, <1>18 DEF RetiredDelivers, Handed, StartInv, LifeInv
<1>19. CASE RetiredEnds BY <1>1, <1>19 DEF RetiredEnds, Handed
<1>20. CASE Interrupt BY <1>1, <1>20 DEF Interrupt, Handed
<1>21. CASE LinkLayer BY <1>1, <1>21 DEF LinkLayer, Handed
<1> QED
  BY <1>2, <1>3, <1>4, <1>5, <1>6, <1>7, <1>8, <1>9, <1>10, <1>11, <1>12, <1>13, <1>14, <1>15,
     <1>16, <1>17, <1>18, <1>19, <1>20, <1>21

LEMMA InitRefines == Init => Service!Init /\ MapInv
<1> SUFFICES ASSUME Init PROVE Service!Init /\ MapInv OBVIOUS
<1>1. Asked = [t \in Callers |-> None] /\ Answered = {} BY DEF Init, Asked, Answered
<1>2. Mailbox = <<>> /\ ~Handed BY DEF Init, Mailbox, Handed
<1>3. MapInv BY <1>2 DEF Init, MapInv
<1> QED BY <1>1, <1>2, <1>3 DEF Init, Service!Init

LEMMA NextRefines == RInv /\ [Next]_vars => [Service!Next]_(Service!vars)
<1> SUFFICES ASSUME RInv, [Next]_vars PROVE [Service!Next]_(Service!vars) OBVIOUS
<1> USE DEF Service!Next, Service!vars, SameCalls, SameEvents
<1>1. CASE UNCHANGED vars
  BY <1>1, CallsUnchanged, EventsUnchanged
  DEF vars, lockVars, callVars, lifeVars, eventVars, btVars, Handed
<1>2. ASSUME NEW t \in Callers, Begin(t) \/ Proceed(t) PROVE [Service!Next]_(Service!vars)
  BY <1>2, CallRefines
<1>3. CASE BtServes BY <1>3, AnswerRefines
<1>4. CASE BtRaises \/ BtPops \/ BtHands \/ HandlerTakes \/ HandlerDone
  BY <1>4, EventRefines
<1>5. CASE BtStopped \/ BtTerminates \/ BtDeletes BY <1>5, StopRefines
<1>6. CASE \/ AppInit \/ KernelStart \/ NestLock \/ BtFailsToPop \/ BtStays \/ BtWakes
           \/ BtCreates \/ BtStarts \/ BtTakesCommand \/ BtTakesNone \/ BtForgets \/ BtResponds
           \/ BtPopsNone \/ BtClears \/ NestDelegate \/ NestUnlock \/ RetiredDelivers
           \/ RetiredEnds \/ Interrupt \/ LinkLayer
  BY <1>6, OthersRefine
<1> QED BY <1>1, <1>2, <1>3, <1>4, <1>5, <1>6 DEF Next, BtProceeds

\* The adaptation layer implements the abstract service: each command is answered
\* once with its own response, and events are delivered one at a time in the order
\* the stack raised them, until a stop drops what was not taken.
THEOREM ServiceImplemented == Spec => ImplementsService
<1>1. Init => IInv /\ MapInv /\ Service!Init BY InitIInv, InitRefines
<1>2. RInv /\ [Next]_vars => RInv'
  <2> SUFFICES ASSUME RInv, [Next]_vars PROVE RInv' OBVIOUS
  <2>1. IInv' BY IInvStep DEF RInv
  <2>2. CASE UNCHANGED vars
    BY <2>1, <2>2 DEF RInv, MapInv, vars, lockVars, callVars, lifeVars, eventVars, btVars, Handed
  <2>3. CASE Next BY <2>1, <2>3, MapStep DEF RInv, IInv
  <2> QED BY <2>2, <2>3
<1>3. Init => RInv /\ Service!Init BY <1>1 DEF RInv
<1> QED BY <1>2, <1>3, NextRefines, PTL DEF Spec, ImplementsService, Service!Spec
=============================================================================
