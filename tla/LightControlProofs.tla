------------------------- MODULE LightControlProofs -------------------------
(***************************************************************************)
(* LightControl's type correctness, its message accounting and what an     *)
(* uninterrupted toggle does to the LED, for every value of the constants. *)
(***************************************************************************)
EXTENDS LightControl, TLAPS

-----------------------------------------------------------------------------
(* The callback queue.                                                     *)

\* Posting a callback keeps the queue a sequence of callbacks within its bound
\* (sendCallbackCommand() drops what finds no slot).
LEMMA PostType ==
  ASSUME NetworkTypes, NEW c \in Callback, Post(c)
  PROVE  callbacks' \in Seq(Callback) /\ Len(callbacks') <= MaxCallbacks
BY ConstantsAssumption DEF NetworkTypes, Post

\* What the program's stack calls and the stack itself post are callbacks.
LEMMA PostedType ==
  /\ \A s \in {"EMBER_NETWORK_UP", "EMBER_NETWORK_DOWN", "other"} :
       Status(s) \in Callback
  /\ \A e \in Endpoints, t \in BOOLEAN :
       [type |-> "message", endpoint |-> e, toggle |-> t] \in Callback
BY DEF Status, Statuses, Callback

\* Taking a callback leaves a sequence of callbacks, and what it carries has the
\* type its handler expects.
LEMMA TakeType ==
  ASSUME NetworkTypes, AfCallback
  PROVE  /\ callbacks' \in Seq(Callback) /\ Len(callbacks') <= MaxCallbacks
         /\ Head(callbacks).type = "status" => Head(callbacks).status \in Statuses
         /\ Head(callbacks).type = "message" => Head(callbacks).toggle \in BOOLEAN
<1>1. callbacks \in Seq(Callback) /\ callbacks # <<>>
  BY DEF NetworkTypes, AfCallback
<1>2. Head(callbacks) \in Callback
  BY <1>1
<1>3. callbacks' \in Seq(Callback) /\ Len(callbacks') <= MaxCallbacks
  BY <1>1, ConstantsAssumption DEF NetworkTypes, AfCallback
<1>4. QED
  BY <1>2, <1>3 DEF Callback

-----------------------------------------------------------------------------
(* Types, one part at a time: the actions that write the part, then those  *)
(* that leave it alone.                                                    *)

\* The callbacks that a tick leaves behind fit the queue.
LEMMA ArmedType ==
  ASSUME NetworkTypes, Armed
  PROVE  behind' \in 0 .. MaxCallbacks
<1>1. Len(callbacks) \in Nat /\ Len(callbacks) <= MaxCallbacks
  BY DEF NetworkTypes
<1>2. QED
  BY <1>1, ConstantsAssumption DEF Armed

LEMMA TaskStep == TypeOK /\ [Next]_vars => TaskTypes'
<1> SUFFICES ASSUME TaskTypes, NetworkTypes, [Next]_vars PROVE TaskTypes'
  BY DEF TypeOK
<1>1. behind' \in 0 .. MaxCallbacks
  <2>1. CASE behind' = behind
    BY <2>1 DEF TaskTypes
  <2>2. CASE Armed
    BY <2>2, ArmedType
  <2>3. CASE AfCallback
    <3>1. behind' = IF behind > 0 THEN behind - 1 ELSE 0
      BY <2>3 DEF AfCallback
    <3>2. behind \in 0 .. MaxCallbacks /\ MaxCallbacks \in Nat
      BY ConstantsAssumption DEF TaskTypes
    <3>3. QED
      BY <3>1, <3>2
  <2>4. CASE CliReset
    <3>1. behind' = 0
      BY <2>4 DEF CliReset
    <3>2. QED
      BY <3>1, ConstantsAssumption
  <2>5. CASE Tick
    <3>1. Armed \/ behind' = behind
      BY <2>5 DEF Tick, TickInit, TickForm, TickOperate, TickFormed, TickQuiet,
                  TickToggle
    <3>2. QED
      BY <3>1, <2>1, <2>2
  <2>6. CASE Continue
    <3>1. Armed \/ behind' = behind
      BY <2>6 DEF Continue, FormReply, PermitReply, LoadForLed, DriveLed, Load,
                  Store
    <3>2. QED
      BY <3>1, <2>1, <2>2
  <2>7. CASE \/ AfInit \/ BleToggle \/ CliForm \/ CliLeave \/ CliLeaveRequest
             \/ Stack \/ UNCHANGED vars
    <3>1. behind' = behind
      BY <2>7 DEF AfInit, BleToggle, CliForm, CliLeave, CliLeaveRequest, Stack,
                  ReportOther, Receive, vars
    <3>2. QED
      BY <3>1, <2>1
  <2>8. QED
    BY <2>3, <2>4, <2>5, <2>6, <2>7 DEF Next, Cli
<1>2. /\ af' \in {"boot", "idle", "form", "permit",
                  "load for led", "drive led", "load", "store"}
      /\ cli' \in {"idle", "leaving"}
      /\ state' \in {"S_INIT", "S_STANDBY", "S_NETWORK", "S_OPERATE"}
  <2> USE DEF TaskTypes
  <2>1. CASE AfInit \/ AfCallback
    BY <2>1 DEF AfInit, AfCallback
  <2>2. CASE Tick
    BY <2>2 DEF Tick, TickInit, TickForm, TickOperate, TickFormed, TickQuiet,
                TickToggle, TakeLeaveRequest
  <2>3. CASE Continue
    BY <2>3 DEF Continue, FormReply, PermitReply, LoadForLed, DriveLed, Load,
                Store, TakeLeaveRequest
  <2>4. CASE BleToggle \/ Cli \/ Stack \/ UNCHANGED vars
    BY <2>4 DEF BleToggle, Cli, CliForm, CliLeave, CliLeaveRequest, CliReset,
                Stack, ReportOther, Receive, vars
  <2>5. QED
    BY <2>1, <2>2, <2>3, <2>4 DEF Next
<1>3. QED
  BY <1>1, <1>2 DEF TaskTypes

LEMMA FlagStep == TypeOK /\ [Next]_vars => FlagTypes'
<1> SUFFICES ASSUME TypeOK, [Next]_vars PROVE FlagTypes'
  OBVIOUS
<1> USE DEF TypeOK, FlagTypes, flags
<1>1. CASE AfInit \/ AfCallback
  BY <1>1 DEF AfInit, AfCallback, StackStatus, IncomingMessage
<1>2. CASE Tick
  BY <1>2 DEF Tick, TickInit, TickForm, TickOperate, TickFormed, TickQuiet,
              TickToggle, TakeLeaveRequest
<1>3. CASE Continue
  BY <1>3 DEF Continue, FormReply, PermitReply, LoadForLed, DriveLed, Load,
              Store, TakeLeaveRequest
<1>4. CASE BleToggle \/ Cli \/ Stack \/ UNCHANGED vars
  BY <1>4 DEF BleToggle, Cli, CliForm, CliLeave, CliLeaveRequest, CliReset,
              Stack, ReportOther, Receive, vars
<1>5. QED
  BY <1>1, <1>2, <1>3, <1>4 DEF Next

LEMMA NetworkStep == TypeOK /\ [Next]_vars => NetworkTypes'
<1> SUFFICES ASSUME TypeOK, [Next]_vars PROVE NetworkTypes'
  OBVIOUS
<1> USE DEF TypeOK
<1>1. CASE AfInit
  BY <1>1, PostType, PostedType DEF AfInit, NetworkTypes
<1>2. CASE AfCallback
  BY <1>2, TakeType DEF AfCallback, StackStatus, IncomingMessage, NetworkTypes
<1>3. CASE FormReply
  BY <1>3, PostType, PostedType DEF FormReply, NetworkTypes
<1>4. CASE CliLeave
  BY <1>4, PostType, PostedType DEF CliLeave, NetworkTypes
<1>5. CASE CliReset
  BY <1>5, ConstantsAssumption DEF CliReset, NetworkTypes
<1>6. CASE Stack
  BY <1>6, PostType, PostedType DEF Stack, ReportOther, Receive, NetworkTypes
<1>7. CASE Tick
  BY <1>7 DEF Tick, TickInit, TickForm, TickOperate, TickFormed, TickQuiet,
              TickToggle, NetworkTypes
<1>8. CASE PermitReply \/ LoadForLed \/ DriveLed \/ Load \/ Store
  BY <1>8 DEF PermitReply, LoadForLed, DriveLed, Load, Store, NetworkTypes
<1>9. CASE BleToggle \/ CliForm \/ CliLeaveRequest
  BY <1>9 DEF BleToggle, CliForm, CliLeaveRequest, NetworkTypes
<1>10. CASE UNCHANGED vars
  BY <1>10 DEF vars, NetworkTypes
<1>11. QED
  BY <1>1, <1>2, <1>3, <1>4, <1>5, <1>6, <1>7, <1>8, <1>9, <1>10
  DEF Next, Continue, Cli

LEMMA LightStep == TypeOK /\ [Next]_vars => LightTypes'
<1> SUFFICES ASSUME TypeOK, [Next]_vars PROVE LightTypes'
  OBVIOUS
<1> USE DEF TypeOK, LightTypes, message, light
<1>1. CASE AfInit
  BY <1>1 DEF AfInit
<1>2. CASE AfCallback
  BY <1>2, TakeType DEF AfCallback, StackStatus, IncomingMessage
<1>3. CASE Tick
  BY <1>3 DEF Tick, TickInit, TickForm, TickOperate, TickFormed, TickQuiet,
              TickToggle, TakeMessage
<1>4. CASE Continue
  BY <1>4 DEF Continue, FormReply, PermitReply, LoadForLed, DriveLed, Drive,
              Load, Store
<1>5. CASE BleToggle \/ Cli \/ Stack \/ UNCHANGED vars
  BY <1>5 DEF BleToggle, Drive, Cli, CliForm, CliLeave, CliLeaveRequest,
              CliReset, Stack, ReportOther, Receive, vars
<1>6. QED
  BY <1>1, <1>2, <1>3, <1>4, <1>5 DEF Next

LEMMA HistoryStep == TypeOK /\ [Next]_vars => HistoryTypes'
<1> SUFFICES ASSUME HistoryTypes, [Next]_vars PROVE HistoryTypes'
  BY DEF TypeOK
<1> USE DEF HistoryTypes, history
<1>1. CASE AfInit \/ AfCallback
  BY <1>1 DEF AfInit, AfCallback, StackStatus, IncomingMessage
<1>2. CASE Tick
  BY <1>2 DEF Tick, TickInit, TickForm, TickOperate, TickFormed, TickQuiet,
              TickToggle
<1>3. CASE FormReply \/ PermitReply \/ LoadForLed \/ DriveLed \/ Load
  BY <1>3 DEF FormReply, PermitReply, LoadForLed, DriveLed, Load
<1>4. CASE Store
  BY <1>4 DEF Store
<1>5. CASE BleToggle
  BY <1>5 DEF BleToggle, Resting, Toggling
<1>6. CASE CliReset
  BY <1>6 DEF CliReset
<1>7. CASE CliForm \/ CliLeave \/ CliLeaveRequest
  BY <1>7 DEF CliForm, CliLeave, CliLeaveRequest
<1>8. CASE Stack \/ UNCHANGED vars
  BY <1>8 DEF Stack, ReportOther, Receive, vars
<1>9. QED
  BY <1>1, <1>2, <1>3, <1>4, <1>5, <1>6, <1>7, <1>8 DEF Next, Continue, Cli

\* Type correctness: every variable of the light keeps its type and the callback
\* queue its bound.
THEOREM TypeCorrect == Spec => []TypeOK
<1>1. Init => TypeOK
  <2> SUFFICES ASSUME Init PROVE TypeOK
    OBVIOUS
  <2>1. TaskTypes /\ NetworkTypes
    BY ConstantsAssumption DEF Init, TaskTypes, NetworkTypes
  <2>2. FlagTypes /\ LightTypes /\ HistoryTypes
    BY DEF Init, FlagTypes, LightTypes, HistoryTypes
  <2>3. QED
    BY <2>1, <2>2 DEF TypeOK
<1>2. TypeOK /\ [Next]_vars => TypeOK'
  <2> SUFFICES ASSUME TypeOK, [Next]_vars PROVE TypeOK'
    OBVIOUS
  <2>1. TaskTypes' /\ FlagTypes' /\ NetworkTypes' /\ LightTypes' /\ HistoryTypes'
    BY TaskStep, FlagStep, NetworkStep, LightStep, HistoryStep
  <2>2. QED
    BY <2>1 DEF TypeOK
<1>3. QED
  BY <1>1, <1>2, PTL DEF Spec

-----------------------------------------------------------------------------
\* Each toggle made on behalf of a message has used up a message of its own:
\* state_machine_handler() clears the flag before the toggle begins.
THEOREM NoToggleInvented == Spec => []NoInventedToggle
<1>1. Init => NoInventedToggle
  BY DEF Init, NoInventedToggle, Waiting, InHand, Toggling
<1>2. TypeOK /\ NoInventedToggle /\ [Next]_vars => NoInventedToggle'
  <2> SUFFICES ASSUME HistoryTypes, NoInventedToggle, [Next]_vars
               PROVE  NoInventedToggle'
    BY DEF TypeOK
  <2> USE DEF message, history
  <2>1. answered \in Nat /\ handled \in Nat
    BY DEF HistoryTypes
  <2>2. Waiting \in {0, 1} /\ InHand \in {0, 1}
    BY DEF Waiting, InHand
  <2>3. CASE AfCallback
    <3>1. answered' = answered /\ InHand' = InHand
      BY <2>3 DEF AfCallback, InHand, Toggling
    <3>2. \/ handled' = handled /\ Waiting' = Waiting
          \/ handled' = handled + 1 /\ Waiting' = 1
      BY <2>3 DEF AfCallback, StackStatus, IncomingMessage, Waiting
    <3>3. QED
      BY <2>1, <2>2, <3>1, <3>2 DEF NoInventedToggle
  <2>4. CASE TickQuiet
    <3>1. /\ answered' = answered /\ handled' = handled
          /\ Waiting' = 0 /\ InHand' = InHand
      BY <2>4 DEF TickQuiet, TakeMessage, Waiting, InHand, Toggling
    <3>2. QED
      BY <2>1, <2>2, <3>1 DEF NoInventedToggle
  <2>5. CASE TickToggle
    <3>1. /\ answered' = answered /\ handled' = handled
          /\ Waiting = 1 /\ Waiting' = 0 /\ InHand' = 1
      BY <2>5 DEF TickToggle, TakeMessage, Waiting, InHand, Toggling
    <3>2. QED
      BY <2>1, <2>2, <3>1 DEF NoInventedToggle
  <2>6. CASE Store
    <3>1. /\ answered' = answered + 1 /\ handled' = handled
          /\ Waiting' = Waiting /\ InHand = 1 /\ InHand' = 0
      BY <2>6 DEF Store, Waiting, InHand, Toggling
    <3>2. QED
      BY <2>1, <2>2, <3>1 DEF NoInventedToggle
  <2>7. CASE CliReset
    <3>1. answered' = 0 /\ handled' = 0 /\ Waiting' = 0 /\ InHand' = 0
      BY <2>7 DEF CliReset, Waiting, InHand, Toggling
    <3>2. QED
      BY <3>1 DEF NoInventedToggle
  <2>8. ASSUME \/ AfInit \/ TickInit \/ TickForm \/ TickOperate \/ TickFormed
               \/ FormReply \/ PermitReply \/ LoadForLed \/ DriveLed \/ Load
               \/ BleToggle \/ CliForm \/ CliLeave \/ CliLeaveRequest \/ Stack
               \/ UNCHANGED vars
        PROVE  NoInventedToggle'
    <3>1. /\ answered' = answered /\ handled' = handled
          /\ is_there_new_message' = is_there_new_message
      BY <2>8 DEF AfInit, TickInit, TickForm, TickOperate, TickFormed, FormReply,
                  PermitReply, LoadForLed, DriveLed, Load, BleToggle, CliForm,
                  CliLeave, CliLeaveRequest, Stack, ReportOther, Receive, vars
    <3>2. Waiting' = Waiting
      BY <3>1 DEF Waiting
    <3>3. InHand' = InHand
      BY <2>8 DEF AfInit, TickInit, TickForm, TickOperate, TickFormed, Ticks,
                  FormReply, PermitReply, LoadForLed, DriveLed, Load, BleToggle,
                  CliForm, CliLeave, CliLeaveRequest, Stack, ReportOther, Receive,
                  vars, InHand, Toggling
    <3>4. QED
      BY <2>1, <2>2, <3>1, <3>2, <3>3 DEF NoInventedToggle
  <2>9. QED
    BY <2>3, <2>4, <2>5, <2>6, <2>7, <2>8 DEF Next, Tick, Continue, Cli
<1>3. QED
  BY <1>1, <1>2, TypeCorrect, PTL DEF Spec

-----------------------------------------------------------------------------
\* Between its four accesses an uninterrupted toggle knows the light state and
\* has driven the LED to its opposite.
THEOREM ToggleProgresses == Spec => []ToggleProgress
<1>1. Init => ToggleProgress
  BY DEF Init, ToggleProgress
<1>2. TypeOK /\ ToggleProgress /\ [Next]_vars => ToggleProgress'
  <2> SUFFICES ASSUME TypeOK, ToggleProgress, [Next]_vars
               PROVE  ToggleProgress'
    OBVIOUS
  <2> USE DEF ToggleProgress, TypeOK, LightTypes, HistoryTypes, light, history
  <2>1. CASE LoadForLed \/ DriveLed \/ Load \/ Store
    BY <2>1 DEF LoadForLed, DriveLed, Drive, Load, Store
  <2>2. CASE BleToggle
    BY <2>2 DEF BleToggle, Toggling
  <2>3. CASE AfInit \/ AfCallback \/ Tick
    BY <2>3 DEF AfInit, AfCallback, Tick, TickInit, TickForm, TickOperate,
                TickFormed, TickQuiet, TickToggle, Ticks
  <2>4. CASE FormReply \/ PermitReply
    BY <2>4 DEF FormReply, PermitReply
  <2>5. CASE Cli \/ Stack \/ UNCHANGED vars
    BY <2>5 DEF Cli, CliForm, CliLeave, CliLeaveRequest, CliReset, Stack,
                ReportOther, Receive, vars
  <2>6. QED
    BY <2>1, <2>2, <2>3, <2>4, <2>5 DEF Next, Continue
<1>3. QED
  BY <1>1, <1>2, TypeCorrect, PTL DEF Spec

\* A toggle by the AF task that no BLE write interrupts changes the light state
\* and leaves the LED showing it.
THEOREM UninterruptedToggleSynchronises == Spec => ToggleSynchronises
<1>1. TypeOK /\ ToggleProgress /\ [Next]_vars =>
        (af = "store" /\ af' = "idle" /\ ~preempted
           => light_state' # light_state /\ led' = light_state')
  <2> SUFFICES ASSUME TypeOK, ToggleProgress, [Next]_vars,
                      af = "store", af' = "idle", ~preempted
               PROVE  light_state' # light_state /\ led' = light_state'
    OBVIOUS
  <2>1. Store
    BY DEF Next, vars, AfInit, AfCallback, Tick, TickInit, TickForm, TickOperate,
           TickFormed, TickQuiet, TickToggle, Ticks, Continue, FormReply,
           PermitReply, LoadForLed, DriveLed, Load, BleToggle, Cli, CliForm,
           CliLeave, CliLeaveRequest, CliReset, CliRuns, Stack, ReportOther, Receive
  <2>2. QED
    BY <2>1 DEF Store, ToggleProgress, TypeOK, LightTypes
<1>2. QED
  BY <1>1, TypeCorrect, ToggleProgresses, PTL DEF Spec, ToggleSynchronises
=============================================================================
