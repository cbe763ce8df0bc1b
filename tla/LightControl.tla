---------------------------- MODULE LightControl ----------------------------
(***************************************************************************)
(* The light's state machine (app_process.c, app_cli.c, app_init.c,        *)
(* sl_light_switch.c): the application framework (AF) task runs the 100 ms *)
(* tick and the Connect callbacks, the CLI task (lower priority) sets      *)
(* request flags, and the Bluetooth event handler (higher priority) may    *)
(* toggle the light in the middle of what the AF task does.                *)
(*                                                                         *)
(* error_detected is assigned nowhere in the program, so the branches that *)
(* lead to S_ERROR, and S_ERROR's reboot, are left out.                    *)
(***************************************************************************)
EXTENDS Naturals, Sequences

CONSTANTS
  MaxCallbacks,  \* slots of the callback queue from the Connect stack task
  MaxMessages,   \* bound of the model: messages received after a boot
  Endpoints,     \* endpoints that messages arrive on
  Commands,      \* CLI commands that are used: form, leave, reset
  OtherStatus,   \* may the stack report a status that is neither up nor down?
  Preempt        \* may a Bluetooth event land inside an AF handler?

LIGHT_SWITCH_ENDPOINT == 1

ASSUME ConstantsAssumption ==
  /\ MaxCallbacks \in Nat \ {0}
  /\ MaxMessages \in Nat
  /\ Endpoints \subseteq Nat
  /\ Commands \subseteq {"form", "leave", "reset"}
  /\ OtherStatus \in BOOLEAN
  /\ Preempt \in BOOLEAN

VARIABLES
  af,            \* where the AF task is
  behind,        \* how many of the pending callbacks the last tick left behind
  loaded,        \* the light state the AF task has just read
  cli,           \* is the CLI task between the two halves of leave?
  state, init_success, form_network_request, leave_request, network_formed,
  stack_status, is_there_new_message,
  message_from_connect,  \* the toggle bit of the stored message
  light_state, led,
  network,       \* the stack's network: none, stored in NVM, or up
  callbacks,     \* callbacks on their way from the stack task to the AF task
  \* history
  preempted,     \* a BLE write landed inside the AF toggle that ran last
  owed,          \* the light state if no toggle were ever lost
  handled, answered  \* messages delivered, and toggles made on their behalf

flags   == <<init_success, form_network_request, leave_request, network_formed>>
message == <<is_there_new_message, message_from_connect>>
light   == <<light_state, led, loaded>>
history == <<preempted, owed, handled, answered>>
vars == <<af, behind, cli, state, flags, stack_status, message, light,
          network, callbacks, history>>

Statuses == {"EMBER_NETWORK_UP", "EMBER_NETWORK_DOWN", "other"}
Callback == [type : {"status"}, status : Statuses]
              \cup [type : {"message"}, endpoint : Endpoints, toggle : BOOLEAN]

\* The AF task is inside toggle_light_state().
Toggling == af \in {"load for led", "drive led", "load", "store"}

\* The AF task waits: for work, or for the answer of a stack call.
Resting == af \in {"boot", "idle", "form", "permit"}

-----------------------------------------------------------------------------
\* After a reset: zeroed statics, the LED off, the network still in NVM.
Init ==
  /\ af = "boot" /\ behind = 0 /\ cli = "idle" /\ state = "S_INIT"
  /\ init_success = FALSE /\ form_network_request = FALSE
  /\ leave_request = FALSE /\ network_formed = FALSE
  /\ stack_status = "EMBER_SUCCESS"
  /\ is_there_new_message = FALSE /\ message_from_connect = FALSE
  /\ light_state = FALSE /\ led = FALSE /\ loaded = FALSE
  /\ callbacks = <<>>
  /\ preempted = FALSE /\ owed = FALSE
  /\ handled = 0 /\ answered = 0
  /\ network \in {"none", "stored"}

\* Bug: the queue's bound forgotten.
PostUnbounded(callback) == callbacks' = Append(callbacks, callback)

\* sendCallbackCommand(): a callback that finds no free slot is dropped.
Post(callback) ==
  callbacks' = IF Len(callbacks) < MaxCallbacks
                 THEN Append(callbacks, callback) ELSE callbacks

Status(status) == [type |-> "status", status |-> status]

-----------------------------------------------------------------------------
\* emberAfInitCallback(): emberNetworkInit() resumes a network kept in NVM.
AfInit ==
  /\ af = "boot"
  /\ af' = "idle"
  /\ init_success' = TRUE
  /\ \/ network = "stored" /\ network' = "up" /\ Post(Status("EMBER_NETWORK_UP"))
     \/ network # "stored" /\ UNCHANGED <<network, callbacks>>
  /\ UNCHANGED <<behind, cli, state, form_network_request, leave_request,
                 network_formed, stack_status, message, light, history>>

\* Bug: a network that goes down is handled as any other status.
StackStatusDownIgnored(status) ==
  /\ stack_status' = IF status = "EMBER_NETWORK_DOWN" THEN stack_status ELSE status
  /\ network_formed' = (status = "EMBER_NETWORK_UP" \/ network_formed)
  /\ UNCHANGED <<message, handled>>

\* Bug: network_formed is left alone.
StackStatusOnly(status) ==
  /\ stack_status' = status
  /\ UNCHANGED <<network_formed, message, handled>>

\* emberAfStackStatusCallback()
StackStatus(status) ==
  /\ stack_status' = status
  /\ network_formed' = (status = "EMBER_NETWORK_UP"
                         \/ (network_formed /\ status # "EMBER_NETWORK_DOWN"))
  /\ UNCHANGED <<message, handled>>

\* emberAfIncomingMessageCallback(): the flag is raised for any endpoint, the
\* payload kept only for the light's.
IncomingMessage(endpoint, toggle) ==
  /\ is_there_new_message' = TRUE
  /\ message_from_connect' = IF endpoint = LIGHT_SWITCH_ENDPOINT
                               THEN toggle ELSE message_from_connect
  /\ handled' = handled + 1
  /\ UNCHANGED <<stack_status, network_formed>>

\* One callback, taken by the AF task's loop and run to its end.
AfCallback ==
  /\ af = "idle" /\ callbacks # <<>>
  /\ callbacks' = Tail(callbacks)
  /\ behind' = IF behind > 0 THEN behind - 1 ELSE 0
  /\ \/ /\ Head(callbacks).type = "status"
        /\ StackStatus(Head(callbacks).status)
     \/ /\ Head(callbacks).type = "message"
        /\ IncomingMessage(Head(callbacks).endpoint, Head(callbacks).toggle)
  /\ UNCHANGED <<af, cli, state, init_success, form_network_request,
                 leave_request, light, network, preempted, owed, answered>>

-----------------------------------------------------------------------------
(* state_machine_handler(), one action per case that changes something.    *)

\* Each turn of the loop runs the tick if it is due and then one callback, and the
\* tick is armed again at its end, for 100 ms: time enough for all the callbacks that
\* are there by then, but not for those that come later.
Ticks == af = "idle" /\ behind = 0
Armed == behind' = Len(callbacks)

TickInit ==
  /\ Ticks /\ state = "S_INIT" /\ init_success
  /\ state' = "S_STANDBY"
  /\ Armed
  /\ UNCHANGED <<af, cli, flags, stack_status, message, light, network,
                 callbacks, history>>

\* A form request: handle_network_form() calls the stack twice.
TickForm ==
  /\ Ticks /\ state = "S_STANDBY" /\ form_network_request
  /\ form_network_request' = FALSE
  /\ af' = "form"
  /\ UNCHANGED <<behind, cli, state, init_success, leave_request, network_formed,
                 stack_status, message, light, network, callbacks, history>>

\* emberFormNetwork(): it may fail, and does when the node has a network.
FormReply ==
  /\ af = "form"
  /\ af' = "permit"
  /\ \/ network = "none" /\ network' = "up" /\ Post(Status("EMBER_NETWORK_UP"))
     \/ UNCHANGED <<network, callbacks>>
  /\ UNCHANGED <<behind, cli, state, flags, stack_status, message, light, history>>

\* emberPermitJoining() returns; formed or not, the state is S_NETWORK.
PermitReply ==
  /\ af = "permit"
  /\ af' = "idle"
  /\ state' = "S_NETWORK"
  /\ Armed
  /\ UNCHANGED <<cli, flags, stack_status, message, light, network,
                 callbacks, history>>

\* After power-up the network is up: operate, with the light set to off.
TickOperate ==
  /\ Ticks /\ state = "S_STANDBY" /\ ~form_network_request
  /\ stack_status = "EMBER_NETWORK_UP"
  /\ state' = "S_OPERATE"
  /\ light_state' = FALSE
  /\ owed' = FALSE
  /\ Armed
  /\ UNCHANGED <<af, cli, flags, stack_status, message, led, loaded, network,
                 callbacks, preempted, handled, answered>>

TickFormed ==
  /\ Ticks /\ state = "S_NETWORK" /\ network_formed
  /\ network_formed' = FALSE
  /\ state' = "S_OPERATE"
  /\ Armed
  /\ UNCHANGED <<af, cli, init_success, form_network_request, leave_request,
                 stack_status, message, light, network, callbacks, history>>

\* Bug: the new-message flag is not cleared.
KeepMessage == UNCHANGED is_there_new_message

\* S_OPERATE takes the new message, if any.
TakeMessage == is_there_new_message' = FALSE

\* The end of the S_OPERATE case.
TakeLeaveRequest ==
  /\ leave_request' = FALSE
  /\ state' = IF leave_request THEN "S_STANDBY" ELSE state

\* S_OPERATE without a toggle to make.
TickQuiet ==
  /\ Ticks /\ state = "S_OPERATE"
  /\ ~(is_there_new_message /\ message_from_connect)
  /\ TakeMessage
  /\ TakeLeaveRequest
  /\ Armed
  /\ UNCHANGED <<af, cli, init_success, form_network_request, network_formed,
                 stack_status, message_from_connect, light, network, callbacks,
                 history>>

\* S_OPERATE with a message whose toggle bit is set: process_message().
TickToggle ==
  /\ Ticks /\ state = "S_OPERATE"
  /\ is_there_new_message /\ message_from_connect
  /\ TakeMessage
  /\ af' = "load for led"
  /\ preempted' = FALSE
  /\ UNCHANGED <<behind, cli, state, flags, stack_status, message_from_connect, light,
                 network, callbacks, owed, handled, answered>>

(* toggle_light_state() in the AF task: the light state is read, the LED   *)
(* driven, the light state read again and its opposite stored, and the     *)
(* Bluetooth event handler may run between any two of these.               *)

\* Bug: the two LED calls swapped.
DriveSwapped(lit) == led' = lit

\* A light that is on is turned off, one that is off is turned on.
Drive(lit) == led' = ~lit

LoadForLed ==
  /\ af = "load for led"
  /\ loaded' = light_state
  /\ af' = "drive led"
  /\ UNCHANGED <<behind, cli, state, flags, stack_status, message, light_state, led,
                 network, callbacks, history>>

DriveLed ==
  /\ af = "drive led"
  /\ Drive(loaded)
  /\ af' = "load"
  /\ UNCHANGED <<behind, cli, state, flags, stack_status, message, light_state, loaded,
                 network, callbacks, history>>

Load ==
  /\ af = "load"
  /\ loaded' = light_state
  /\ af' = "store"
  /\ UNCHANGED <<behind, cli, state, flags, stack_status, message, light_state, led,
                 network, callbacks, history>>

\* The store, and the rest of the S_OPERATE case after it.
Store ==
  /\ af = "store"
  /\ light_state' = ~loaded
  /\ owed' = ~owed
  /\ answered' = answered + 1
  /\ TakeLeaveRequest
  /\ af' = "idle"
  /\ Armed
  /\ UNCHANGED <<cli, init_success, form_network_request, network_formed,
                 stack_status, message, led, loaded, network, callbacks,
                 preempted, handled>>

-----------------------------------------------------------------------------
\* sl_bt_on_event(), a write request to the light state: the handler's whole
\* toggle_light_state() runs before the AF task does anything more.
BleToggle ==
  /\ Preempt \/ Resting
  /\ Drive(light_state)
  /\ light_state' = ~light_state
  /\ owed' = ~owed
  /\ preempted' = (preempted \/ Toggling)
  /\ UNCHANGED <<behind, af, cli, state, flags, stack_status, message, loaded, network,
                 callbacks, handled, answered>>

-----------------------------------------------------------------------------
\* The CLI task runs only when the AF task, which precedes it, has to wait.
CliRuns == af \in {"form", "permit"} \/ (af = "idle" /\ callbacks = <<>>)

CliForm ==
  /\ "form" \in Commands /\ CliRuns /\ cli = "idle"
  /\ form_network_request' = TRUE
  /\ UNCHANGED <<behind, af, cli, state, init_success, leave_request, network_formed,
                 stack_status, message, light, network, callbacks, history>>

\* cli_leave(), its stack call emberResetNetworkState(). It holds the command
\* mutex, so it may come before a waiting emberFormNetwork() but not after it.
CliLeave ==
  /\ "leave" \in Commands /\ CliRuns /\ cli = "idle" /\ af # "permit"
  /\ cli' = "leaving"
  /\ network' = "none"
  /\ \/ network = "up" /\ Post(Status("EMBER_NETWORK_DOWN"))
     \/ network # "up" /\ UNCHANGED callbacks
  /\ UNCHANGED <<behind, af, state, flags, stack_status, message, light, history>>

\* The rest of cli_leave(): AF may have run since the stack call.
CliLeaveRequest ==
  /\ cli = "leaving" /\ CliRuns
  /\ cli' = "idle"
  /\ leave_request' = TRUE
  /\ UNCHANGED <<behind, af, state, init_success, form_network_request, network_formed,
                 stack_status, message, light, network, callbacks, history>>

\* cli_reset(): halReboot().
CliReset ==
  /\ "reset" \in Commands /\ CliRuns /\ cli = "idle"
  /\ af' = "boot" /\ behind' = 0 /\ cli' = "idle" /\ state' = "S_INIT"
  /\ init_success' = FALSE /\ form_network_request' = FALSE
  /\ leave_request' = FALSE /\ network_formed' = FALSE
  /\ stack_status' = "EMBER_SUCCESS"
  /\ is_there_new_message' = FALSE /\ message_from_connect' = FALSE
  /\ light_state' = FALSE /\ led' = FALSE /\ loaded' = FALSE
  /\ callbacks' = <<>>
  /\ preempted' = FALSE /\ owed' = FALSE
  /\ handled' = 0 /\ answered' = 0
  /\ network' = IF network = "none" THEN "none" ELSE "stored"

-----------------------------------------------------------------------------
\* The stack task receives a message over the air.
Receive(endpoint, toggle) ==
  /\ network = "up"
  /\ handled + Len(callbacks) < MaxMessages
  /\ Post([type |-> "message", endpoint |-> endpoint, toggle |-> toggle])
  /\ UNCHANGED <<behind, af, cli, state, flags, stack_status, message, light, network,
                 history>>

\* The stack task reports any other status; one at a time.
ReportOther ==
  /\ OtherStatus /\ af # "boot" /\ callbacks = <<>>
  /\ Post(Status("other"))
  /\ UNCHANGED <<behind, af, cli, state, flags, stack_status, message, light, network,
                 history>>

-----------------------------------------------------------------------------
Tick == TickInit \/ TickForm \/ TickOperate \/ TickFormed \/ TickQuiet \/ TickToggle
Continue == FormReply \/ PermitReply \/ LoadForLed \/ DriveLed \/ Load \/ Store
Cli == CliForm \/ CliLeave \/ CliLeaveRequest \/ CliReset
Stack == ReportOther \/ \E e \in Endpoints, t \in BOOLEAN : Receive(e, t)

Next == AfInit \/ AfCallback \/ Tick \/ Continue \/ BleToggle \/ Cli \/ Stack

Spec == Init /\ [][Next]_vars

\* Every turn of the AF task's loop runs the due tick and then one callback,
\* and the tick is armed again each time: neither can be passed over for ever.
Fairness ==
  /\ WF_vars(AfInit) /\ WF_vars(Continue) /\ WF_vars(CliLeaveRequest)
  /\ SF_vars(AfCallback) /\ SF_vars(Tick)

FairSpec == Spec /\ Fairness
-----------------------------------------------------------------------------
(* Properties.                                                             *)

TaskTypes ==
  /\ af \in {"boot", "idle", "form", "permit",
             "load for led", "drive led", "load", "store"}
  /\ behind \in 0 .. MaxCallbacks
  /\ cli \in {"idle", "leaving"}
  /\ state \in {"S_INIT", "S_STANDBY", "S_NETWORK", "S_OPERATE"}

FlagTypes ==
  /\ init_success \in BOOLEAN /\ form_network_request \in BOOLEAN
  /\ leave_request \in BOOLEAN /\ network_formed \in BOOLEAN

NetworkTypes ==
  /\ stack_status \in Statuses \cup {"EMBER_SUCCESS"}
  /\ network \in {"none", "stored", "up"}
  /\ callbacks \in Seq(Callback) /\ Len(callbacks) <= MaxCallbacks

LightTypes ==
  /\ is_there_new_message \in BOOLEAN /\ message_from_connect \in BOOLEAN
  /\ light_state \in BOOLEAN /\ led \in BOOLEAN /\ loaded \in BOOLEAN

HistoryTypes ==
  /\ preempted \in BOOLEAN /\ owed \in BOOLEAN
  /\ handled \in Nat /\ answered \in Nat

\* Every variable has its type, and the callback queue keeps its bound.
TypeOK == TaskTypes /\ FlagTypes /\ NetworkTypes /\ LightTypes /\ HistoryTypes

\* The message that waits for the next tick, and the one being processed.
Waiting == IF is_there_new_message THEN 1 ELSE 0
InHand == IF Toggling THEN 1 ELSE 0

\* No toggle out of nowhere: each toggle made for a message uses up a message
\* of its own, whatever the endpoint (app_process.c clears the flag before it
\* calls process_message()).
NoInventedToggle == answered + Waiting + InHand <= handled

\* A toggle by the AF task (toggle_light_state() under process_message()) that
\* no BLE write interrupts changes the light state and ends with the LED
\* showing it, even when the two disagreed before it.
ToggleSynchronises ==
  [][af = "store" /\ af' = "idle" /\ ~preempted
       => light_state' # light_state /\ led' = light_state']_vars

\* Why: how far an uninterrupted toggle has come (the inductive invariant behind
\* ToggleSynchronises).
ToggleProgress ==
  ~preempted =>
    /\ af = "drive led" => loaded = light_state
    /\ af \in {"load", "store"} => led = ~light_state
    /\ af = "store" => loaded = light_state

\* Once its callbacks are handled, the application has not mistaken the state of
\* the network: the status it remembers is not contradicted by the stack.
AppKnowsNetwork ==
  af # "boot" /\ callbacks = <<>> =>
    /\ stack_status = "EMBER_NETWORK_UP" => network = "up"
    /\ stack_status = "EMBER_NETWORK_DOWN" => network # "up"

\* With everything handled, the light operates only on a network that is up.
OperatesOnNetwork ==
  /\ state = "S_OPERATE" /\ af = "idle" /\ callbacks = <<>>
  /\ cli = "idle" /\ ~leave_request
  => network = "up"

\* No toggle is lost: outside a toggle the light state is what all the toggles
\* since power-up or since S_OPERATE was entered make it.
LightCountsToggles == ~Toggling => light_state = owed

\* A light that is on a network comes to operate, unless the network goes away.
NetworkUpIsOperated ==
  network = "up" ~> (state = "S_OPERATE" \/ network # "up")

\* It does so if nobody ever asks it to leave and the stack reports nothing else,
\* whatever resets, requests to form and messages come.
OperatesUnlessLeft ==
  [](cli # "leaving" /\ stack_status # "other") => NetworkUpIsOperated
=============================================================================
