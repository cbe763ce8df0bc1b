-------------------------- MODULE IndicationQueue --------------------------
(***************************************************************************)
(* The indications that tell a mobile device about the light               *)
(* (app_bluetooth.c). Two tasks share the queue without protection: the    *)
(* application framework (AF) task queues indications when a switch's      *)
(* message has toggled the light and sends them on its tick, and the       *)
(* Bluetooth event handler, which may preempt it anywhere, queues them on  *)
(* a new connection or a write and removes them when they are confirmed.   *)
(*                                                                         *)
(* A handler runs to its end before the AF task does anything more. Where  *)
(* it waits for a BGAPI command that the AF task has under way (the        *)
(* response to a write), that command may end first: it touches nothing    *)
(* that the handler has changed by then, so it is as if it came before.    *)
(***************************************************************************)
EXTENDS Naturals, Sequences

CONSTANTS
  Length,        \* SL_USED_CHARACTERISTIC_INDICATION_COUNT
  Subscribes,    \* characteristics whose indications the client enables
  Writes,        \* characteristics the client writes to
  Reads,         \* characteristics the client reads
  Unsubscribes,  \* may the client disable indications?
  Disconnects,   \* may the connection be lost?
  Preempt        \* may the event handler run in the middle of the AF task's work?

Characteristics == {"light_state", "trigger_source", "source_address"}

ASSUME ConstantsAssumption ==
  /\ Length \in Nat \ {0}
  /\ Subscribes \subseteq Characteristics
  /\ Writes \subseteq Characteristics /\ Reads \subseteq Characteristics
  /\ Unsubscribes \in BOOLEAN /\ Disconnects \in BOOLEAN /\ Preempt \in BOOLEAN

VARIABLES
  \* app_bluetooth.c
  booted,        \* advertising_set_handle # 0xFF
  queue,         \* indicatons_queue: count and indication[]
  under_way,     \* indication_is_under_way
  enabled,       \* characteristics that are enabled in sl_indication_settings
  asserted,      \* an app_assert() failed: the event handler spins for ever
  \* the AF task: where it is, the characteristic it adds, its loop index and its
  \* copy of the count
  af, adding, index, loaded,
  \* the stack and the client
  advertising, connected, subscribed,
  request,       \* a request of the client is not answered yet
  outstanding,   \* the indication that is not confirmed yet
  events         \* events on their way to the handler

queueVars == <<queue, under_way, enabled>>
afVars == <<af, adding, index, loaded>>
linkVars == <<advertising, connected, subscribed, request, outstanding>>
vars == <<booted, queueVars, asserted, afVars, linkVars, events>>

\* A slot is the characteristic it is for; the data and their size are left out.
Blank == "blank"
Slot == Characteristics \cup {Blank}
Index == 0 .. Length - 1

Event == [type : {"boot", "opened", "closed"}]
           \cup [type : {"write", "read", "confirmation", "client_config"},
                 characteristic : Characteristics]

-----------------------------------------------------------------------------
Init ==
  /\ booted = FALSE
  /\ queue = [count |-> 0, indication |-> [i \in Index |-> Blank]]
  /\ under_way = FALSE /\ enabled = {}
  /\ asserted = FALSE
  /\ af = "idle" /\ adding = "light_state" /\ index = 0 /\ loaded = 0
  /\ advertising = FALSE /\ connected = FALSE /\ subscribed = {}
  /\ request = FALSE /\ outstanding = "none"
  /\ events = <<[type |-> "boot"]>>

(* The queue's operations.                                                 *)

Waits(q, c) == \E i \in 0 .. q.count - 1 : q.indication[i] = c

\* sl_is_indication_enabled() and the other conditions for adding.
MayAdd(q, c) == booted /\ c \in enabled /\ q.count < Length

\* Bug: neither what waits already nor the queue's length is looked at.
AddBlindly(q, c) ==
  IF booted /\ c \in enabled
    THEN [count |-> q.count + 1,
          indication |-> [q.indication EXCEPT ![q.count] = c]]
    ELSE q

\* Bug: the characteristic is queued although it waits already.
AddAgain(q, c) ==
  IF MayAdd(q, c)
    THEN [count |-> q.count + 1,
          indication |-> [q.indication EXCEPT ![q.count] = c]]
    ELSE q

\* sl_add_bluetooth_indication(), uninterrupted.
Add(q, c) ==
  IF MayAdd(q, c) /\ ~Waits(q, c)
    THEN [count |-> q.count + 1,
          indication |-> [q.indication EXCEPT ![q.count] = c]]
    ELSE q

\* notify_connected_ble_device(), uninterrupted.
Notified(q) == Add(Add(Add(q, "light_state"), "trigger_source"), "source_address")

\* Bug: the queue is emptied first.
NotifyAfresh ==
  queue' = Notified([count |-> 0, indication |-> [i \in Index |-> Blank]])

Notify == queue' = Notified(queue)

\* Bug: the count goes down and nothing moves up.
RemoveNewest(q, c) ==
  IF q.count > 0 /\ q.indication[0] = c
    THEN [count |-> q.count - 1,
          indication |-> [q.indication EXCEPT ![q.count - 1] = Blank]]
    ELSE q

\* sl_remove_last_indication(): the shift stops at the new count; with a full
\* queue it never gets there and the last slot keeps its contents.
Remove(q, c) ==
  LET left == q.count - 1
      shifted(i) ==
        IF i >= Length - 1 \/ i > left THEN q.indication[i]
        ELSE IF i = left THEN Blank ELSE q.indication[i + 1]
  IN IF q.count > 0 /\ q.indication[0] = c
       THEN [count |-> left, indication |-> [i \in Index |-> shifted(i)]]
       ELSE q

-----------------------------------------------------------------------------
(* sl_bt_on_event()                                                        *)

\* The handler takes an event; a failed assertion stops it for good.
Handle(type) ==
  /\ ~asserted /\ events # <<>> /\ Head(events).type = type
  /\ Preempt \/ af = "idle"
  /\ events' = Tail(events)
  /\ UNCHANGED afVars

\* The advertising set is made, and advertising begins.
HandleBoot ==
  /\ Handle("boot")
  /\ booted' = TRUE
  /\ advertising' = TRUE
  /\ UNCHANGED <<queueVars, asserted, connected, subscribed, request,
                 outstanding>>

\* Advertising begins again; the queue and its flag stay as they are.
HandleClosed ==
  /\ Handle("closed")
  /\ advertising' = TRUE
  /\ UNCHANGED <<booted, queueVars, asserted, connected, subscribed,
                 request, outstanding>>

HandleOpened ==
  /\ Handle("opened")
  /\ Notify
  /\ UNCHANGED <<booted, under_way, enabled, asserted, linkVars>>

\* The response fails when the connection is gone, and that is asserted on.
Respond ==
  /\ asserted' = ~connected
  /\ request' = FALSE
  /\ UNCHANGED <<advertising, connected, subscribed, outstanding>>

\* A write to the light state toggles the light (LightControl's BleToggle).
HandleLightWrite ==
  /\ Handle("write") /\ Head(events).characteristic = "light_state"
  /\ Respond
  /\ IF connected THEN Notify ELSE UNCHANGED queue
  /\ UNCHANGED <<booted, under_way, enabled>>

\* A write to any other characteristic is dropped without a response.
HandleOtherWrite ==
  /\ Handle("write") /\ Head(events).characteristic # "light_state"
  /\ UNCHANGED <<booted, queueVars, asserted, linkVars>>

HandleRead ==
  /\ Handle("read")
  /\ Respond
  /\ UNCHANGED <<booted, queueVars>>

\* sl_update_indication_enabled(..., true), whatever the client has set.
Configure(c) == enabled' = enabled \cup {c} /\ UNCHANGED under_way

HandleClientConfig ==
  /\ Handle("client_config")
  /\ Configure(Head(events).characteristic)
  /\ UNCHANGED <<booted, queue, asserted, linkVars>>

\* Bug: the flag stays set.
ConfirmOnly(c) == queue' = Remove(queue, c) /\ UNCHANGED under_way

\* Bug: a confirmation empties the queue.
ConfirmAll(c) ==
  queue' = [queue EXCEPT !.count = 0] /\ under_way' = FALSE

Confirm(c) == queue' = Remove(queue, c) /\ under_way' = FALSE

HandleConfirmation ==
  /\ Handle("confirmation")
  /\ Confirm(Head(events).characteristic)
  /\ UNCHANGED <<booted, enabled, asserted, linkVars>>

-----------------------------------------------------------------------------
(* The AF task, one action per access to what it shares with the handler.  *)

\* While the event handler spins, the AF task, whose priority is lower, waits.
AfAt(place) == ~asserted /\ af = place

\* The part of the state the AF task's additions leave alone.
AfRest == UNCHANGED <<booted, under_way, enabled, asserted, linkVars, events>>

\* process_message(): a switch's message has toggled the light, and
\* notify_connected_ble_device() is called.
AfMessage ==
  /\ AfAt("idle")
  /\ af' = "guard"
  /\ UNCHANGED <<queue, adding, index, loaded>> /\ AfRest

\* On to the next characteristic, and after the last to the sending.
AfNext ==
  /\ index' = 0 /\ loaded' = 0
  /\ CASE adding = "light_state"    -> adding' = "trigger_source" /\ af' = "guard"
       [] adding = "trigger_source" -> adding' = "source_address" /\ af' = "guard"
       [] adding = "source_address" -> adding' = "light_state" /\ af' = "check"

AfGuard ==
  /\ AfAt("guard")
  /\ \/ /\ MayAdd(queue, adding)
        /\ loaded' = queue.count
        /\ af' = "scan"
        /\ UNCHANGED <<adding, index>>
     \/ ~MayAdd(queue, adding) /\ AfNext
  /\ UNCHANGED queue /\ AfRest

\* Each use of count_of_indications from here on names the global, which is not
\* volatile: the build may read it again or use the copy it has.
Uses == {"scan", "store", "characteristic", "fields"}

AfReread ==
  /\ ~asserted /\ af \in Uses
  /\ loaded' = queue.count
  /\ UNCHANGED <<queue, af, adding, index>> /\ AfRest

\* One turn of the loop that looks for the characteristic in the queue.
AfScan ==
  /\ AfAt("scan")
  /\ \/ /\ index >= loaded
        /\ index' = 0
        /\ af' = "store"
        /\ UNCHANGED <<adding, loaded>>
     \/ /\ index < loaded
        /\ queue.indication[index] = adding
        /\ AfNext
     \/ /\ index < loaded
        /\ queue.indication[index] # adding
        /\ index' = index + 1
        /\ UNCHANGED <<adding, af, loaded>>
  /\ UNCHANGED queue /\ AfRest

\* count_of_indications++, whatever the handler has made of the count since.
AfStoreCount ==
  /\ AfAt("store")
  /\ queue' = [queue EXCEPT !.count = loaded + 1]
  /\ loaded' = loaded + 1
  /\ af' = "characteristic"
  /\ UNCHANGED <<adding, index>> /\ AfRest

\* Each field goes to the slot that the count, as the task knows it, says is the
\* last. A handler may have removed an indication since, and that slot lies behind
\* the queue, or added some, and it lies in front of theirs.
LastSlot == loaded - 1

AfWriteCharacteristic ==
  /\ AfAt("characteristic")
  /\ queue' = [queue EXCEPT !.indication[LastSlot] = adding]
  /\ af' = "fields"
  /\ UNCHANGED <<adding, index, loaded>> /\ AfRest

\* The size is cleared, the data are copied and the size is set: three more uses of
\* the count, and nothing of the slot that the queue's order depends on.
AfWriteFields ==
  /\ AfAt("fields")
  /\ AfNext
  /\ UNCHANGED queue /\ AfRest

-----------------------------------------------------------------------------
(* sl_send_bluetooth_indications(), at the end of every tick.              *)

AfTick ==
  /\ AfAt("idle")
  /\ af' = "check"
  /\ UNCHANGED <<queue, adding, index, loaded>>
  /\ AfRest

\* Bug: an indication is sent although another is under way.
SendsAnyway ==
  /\ booted /\ queue.count > 0
  /\ queue.indication[0] \in Characteristics

\* The conditions for sending; a slot without a characteristic is never sent.
MaySend ==
  /\ booted /\ ~under_way /\ queue.count > 0
  /\ queue.indication[0] \in Characteristics

AfCheck ==
  /\ AfAt("check")
  /\ af' = IF MaySend THEN "send" ELSE "idle"
  /\ UNCHANGED <<queue, adding, index, loaded>>
  /\ AfRest

\* sl_bt_gatt_server_send_indication(): refused without a connection, without
\* the client's consent, and while another indication is outstanding.
Accepted(c) == connected /\ c \in subscribed /\ outstanding = "none"

AfSend ==
  /\ AfAt("send")
  /\ LET first == queue.indication[0]
     IN IF Accepted(first)
          THEN outstanding' = first
          ELSE UNCHANGED outstanding
  /\ af' = "sent"
  /\ UNCHANGED <<booted, queueVars, asserted, adding, index, loaded,
                 advertising, connected, subscribed, request, events>>

\* The flag is set whether or not the indication was accepted.
AfMark ==
  /\ AfAt("sent")
  /\ under_way' = TRUE
  /\ af' = "idle"
  /\ UNCHANGED <<booted, queue, enabled, asserted, adding,
                 index, loaded, linkVars, events>>

-----------------------------------------------------------------------------
(* The client and the stack. The device accepts one connection at a time:  *)
(* a connection ends advertising, and only the closed event's handler      *)
(* begins it again. The client has one request under way at a time.        *)

AppUnchanged == UNCHANGED <<booted, queueVars, asserted, afVars>>

Connect ==
  /\ advertising /\ ~connected
  /\ connected' = TRUE /\ advertising' = FALSE
  /\ events' = Append(events, [type |-> "opened"])
  /\ UNCHANGED <<subscribed, request, outstanding>> /\ AppUnchanged

\* Nothing that was under way on the connection is ever completed.
Disconnect ==
  /\ Disconnects /\ connected
  /\ connected' = FALSE /\ subscribed' = {} /\ request' = FALSE
  /\ outstanding' = "none"
  /\ events' = Append(events, [type |-> "closed"])
  /\ UNCHANGED advertising /\ AppUnchanged

\* The stack itself answers a write to a client characteristic configuration; a
\* client that awaits an answer to a request waits.
ChangeSubscription(c) ==
  /\ connected /\ ~request
  /\ \A i \in 1 .. Len(events) : events[i].type # "client_config"
  /\ \/ c \in Subscribes \ subscribed /\ subscribed' = subscribed \cup {c}
     \/ Unsubscribes /\ c \in subscribed /\ subscribed' = subscribed \ {c}
  /\ events' = Append(events, [type |-> "client_config", characteristic |-> c])
  /\ UNCHANGED <<advertising, connected, request, outstanding>> /\ AppUnchanged

Request(type, c) ==
  /\ connected /\ ~request
  /\ request' = TRUE
  /\ events' = Append(events, [type |-> type, characteristic |-> c])
  /\ UNCHANGED <<advertising, connected, subscribed, outstanding>>
  /\ AppUnchanged

ClientConfirms ==
  /\ outstanding # "none"
  /\ outstanding' = "none"
  /\ events' = Append(events, [type |-> "confirmation", characteristic |-> outstanding])
  /\ UNCHANGED <<advertising, connected, subscribed, request>> /\ AppUnchanged

-----------------------------------------------------------------------------
Handler ==
  \/ HandleBoot \/ HandleClosed \/ HandleOpened \/ HandleLightWrite
  \/ HandleOtherWrite \/ HandleRead \/ HandleClientConfig \/ HandleConfirmation

AfAdds ==
  \/ AfGuard \/ AfScan \/ AfStoreCount
  \/ AfWriteCharacteristic \/ AfWriteFields

AfSends == AfTick \/ AfCheck \/ AfSend \/ AfMark

Client ==
  \/ Connect \/ Disconnect \/ ClientConfirms
  \/ \E c \in Characteristics : ChangeSubscription(c)
  \/ \E c \in Writes : Request("write", c)
  \/ \E c \in Reads : Request("read", c)

Next == Handler \/ AfMessage \/ AfAdds \/ AfReread \/ AfSends \/ Client

Spec == Init /\ [][Next]_vars

\* The AF task's tick never stops, the handler runs when it is free to, and the
\* client confirms what it receives.
Fairness ==
  /\ WF_vars(AfAdds \/ AfSends)
  /\ SF_vars(Handler)
  /\ WF_vars(ClientConfirms)

FairSpec == Spec /\ Fairness

-----------------------------------------------------------------------------
(* Properties.                                                             *)

QueueTypes ==
  /\ queue.count \in 0 .. Length
  /\ queue \in [count : Nat, indication : [Index -> Slot]]
  /\ under_way \in BOOLEAN /\ booted \in BOOLEAN
  /\ enabled \subseteq Characteristics
  /\ asserted \in BOOLEAN

AfTypes ==
  /\ af \in {"idle", "guard", "check", "send", "sent"} \cup Uses
  /\ adding \in Characteristics
  /\ index \in 0 .. Length /\ loaded \in 0 .. Length

LinkTypes ==
  /\ advertising \in BOOLEAN /\ connected \in BOOLEAN /\ request \in BOOLEAN
  /\ subscribed \subseteq Subscribes
  /\ outstanding \in Characteristics \cup {"none"}
  /\ events \in Seq(Event)

\* Every variable has its type, and the queue keeps its bound.
TypeOK == QueueTypes /\ AfTypes /\ LinkTypes

Confirmations == {i \in 1 .. Len(events) : events[i].type = "confirmation"}

\* The indication that is on the way to the client, or whose confirmation is on
\* its way to the handler.
InFlight(c) ==
  outstanding = c \/ \E i \in Confirmations : events[i].characteristic = c

Busy == \E c \in Characteristics : InFlight(c)

\* sl_send_bluetooth_indications() never sends an indication before the last one
\* is confirmed and the confirmation handled (the stack would refuse it).
SendsAfterConfirmation == af = "send" => ~Busy

\* However the two tasks interleave, the indication that a confirmation removes
\* (sl_remove_last_indication()) is the one that was confirmed.
ConfirmedIsFirst ==
  \A c \in Characteristics : InFlight(c) =>
    queue.count > 0 /\ queue.indication[0] = c

\* However the two tasks interleave, the AF task writes an indication's fields
\* (sl_add_bluetooth_indication()) to a slot of the queue, never in front of it.
WritesToSlot ==
  af \in {"characteristic", "fields"} => LastSlot \in Nat

\* However the two tasks interleave, the queue never fills up: nothing is ever
\* dropped because of its length.
QueueNeverFull == queue.count < Length

\* Left to itself, the queue holds distinct characteristics, and blanks after them.
QueueWellFormed ==
  af = "idle" =>
    /\ \A i \in Index : i < queue.count <=> queue.indication[i] # Blank
    /\ \A i, j \in Index : i < j /\ j < queue.count =>
         queue.indication[i] # queue.indication[j]

\* indication_is_under_way says whether an indication is under way.
FlagIsHonest == af = "idle" => under_way = Busy

\* An indication that waits is sent, if the client keeps listening for it.
QueuedIsSent ==
  \A c \in Characteristics :
    <>[](connected /\ c \in subscribed)
      => (Waits(queue, c) /\ ~InFlight(c) ~> outstanding = c)

\* The code's queue as the abstract one. The new slot is not part of it until
\* its characteristic is written.
Outbox == INSTANCE IndicationOutbox WITH
  waiting <- [i \in 1 .. (IF af = "characteristic" THEN queue.count - 1 ELSE queue.count) |->
                queue.indication[i - 1]],
  flight <- IF Busy THEN CHOOSE c \in Characteristics : InFlight(c) ELSE "none"

\* Uninterrupted and connected, the queue, the flag, the AF task's tick and the
\* confirmations' handler of app_bluetooth.c implement the outbox: no
\* characteristic twice, first queued first sent, one at a time, each retired by
\* its own confirmation, and every one sent.
ImplementsOutbox == Outbox!Spec
=============================================================================
