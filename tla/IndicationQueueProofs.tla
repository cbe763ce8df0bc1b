----------------------- MODULE IndicationQueueProofs -----------------------
(***************************************************************************)
(* What the races on the indication queue leave intact, for every length   *)
(* of the queue and every use the client makes of it.                      *)
(***************************************************************************)
EXTENDS IndicationQueue, Integers, TLAPS

-----------------------------------------------------------------------------
(* The inductive invariant.                                                *)

Queue == [count : Nat, indication : [Index -> Slot]]

\* The types alone, without the bounds that hold in the checked instances.
Shapes ==
  /\ queue \in Queue
  /\ af \in {"idle", "guard", "check", "send", "sent"} \cup Uses
  /\ adding \in Characteristics
  /\ loaded \in Nat
  /\ outstanding \in Characteristics \cup {"none"}
  /\ events \in Seq(Event)

\* Only one indication is in flight, either to the client or confirmed by it.
Single ==
  /\ outstanding # "none" => Confirmations = {}
  /\ \A i, j \in Confirmations : i = j

\* What is in flight is marked, or about to be.
Marked == Busy => under_way \/ af = "sent"

\* What is about to be sent is the first in the queue.
SendsFirst ==
  af = "send" =>
    queue.count > 0 /\ queue.indication[0] \in Characteristics

\* The AF task's copy of the count covers the indication in flight ...
LoadedCovers == af \in {"scan", "store"} /\ Busy => loaded > 0

\* ... and the slot it writes to is behind that indication, by its copy as by the
\* count, which it may read again.
WritesBehind ==
  af \in {"characteristic", "fields"} =>
    /\ loaded > 0 /\ queue.count > 0
    /\ Busy => loaded > 1 /\ queue.count > 1

Flight ==
  /\ Single /\ Marked /\ SendsAfterConfirmation /\ SendsFirst
  /\ ConfirmedIsFirst /\ LoadedCovers /\ WritesBehind

IInv == Shapes /\ Flight

-----------------------------------------------------------------------------
(* What the operations do to a queue.                                      *)

\* An addition keeps what the queue holds: the first stays the first, and the
\* count does not shrink.
LEMMA AddKeeps ==
  ASSUME NEW q \in Queue, NEW c \in Characteristics
  PROVE  /\ Add(q, c) \in Queue
         /\ Add(q, c).count >= q.count
         /\ q.count > 0 => Add(q, c).indication[0] = q.indication[0]
<1>1. CASE MayAdd(q, c) /\ ~Waits(q, c)
  <2>1. q.count \in Index
    BY <1>1, ConstantsAssumption DEF MayAdd, Queue, Index
  <2>2. c \in Slot
    BY DEF Slot
  <2>3. Add(q, c) = [count |-> q.count + 1,
                     indication |-> [q.indication EXCEPT ![q.count] = c]]
    BY <1>1 DEF Add
  <2>4. 0 \in Index
    BY ConstantsAssumption DEF Index
  <2>5. QED
    BY <2>1, <2>2, <2>3, <2>4 DEF Queue
<1>2. CASE ~(MayAdd(q, c) /\ ~Waits(q, c))
  BY <1>2 DEF Add, Queue
<1>3. QED
  BY <1>1, <1>2

\* A notification is three additions.
LEMMA NotifyKeeps ==
  ASSUME queue \in Queue, Notify
  PROVE  /\ queue' \in Queue
         /\ queue'.count >= queue.count
         /\ queue.count > 0 => queue'.indication[0] = queue.indication[0]
<1> DEFINE first == Add(queue, "light_state")
           second == Add(first, "trigger_source")
<1>0. /\ "light_state" \in Characteristics /\ "trigger_source" \in Characteristics
      /\ "source_address" \in Characteristics
  BY DEF Characteristics
<1>1. /\ first \in Queue /\ first.count >= queue.count
      /\ queue.count > 0 => first.indication[0] = queue.indication[0]
  BY <1>0, AddKeeps
<1>2. /\ second \in Queue /\ second.count >= first.count
      /\ first.count > 0 => second.indication[0] = first.indication[0]
  BY <1>0, <1>1, AddKeeps
<1>3. queue' = Add(second, "source_address")
  BY DEF Notify, Notified
<1> HIDE DEF first, second
<1>4. /\ queue' \in Queue /\ queue'.count >= second.count
      /\ second.count > 0 => queue'.indication[0] = second.indication[0]
  BY <1>0, <1>2, <1>3, AddKeeps
<1>5. /\ queue.count \in Nat /\ first.count \in Nat /\ second.count \in Nat
      /\ queue'.count \in Nat
  BY <1>1, <1>2, <1>4 DEF Queue
<1>6. QED
  BY <1>1, <1>2, <1>4, <1>5

\* A removal takes one indication at the most.
LEMMA RemoveKeeps ==
  ASSUME NEW q \in Queue, NEW c
  PROVE  Remove(q, c) \in Queue /\ Remove(q, c).count + 1 >= q.count
<1>1. CASE q.count > 0 /\ q.indication[0] = c
  <2> DEFINE left == q.count - 1
             shifted(i) ==
               IF i >= Length - 1 \/ i > left THEN q.indication[i]
               ELSE IF i = left THEN Blank ELSE q.indication[i + 1]
  <2>1. Remove(q, c) = [count |-> left, indication |-> [i \in Index |-> shifted(i)]]
    BY <1>1 DEF Remove
  <2>2. ASSUME NEW i \in Index
        PROVE  shifted(i) \in Slot
    <3>1. Blank \in Slot
      BY DEF Slot
    <3>2. i < Length - 1 => i + 1 \in Index
      BY ConstantsAssumption DEF Index
    <3>3. i \in Int /\ Length \in Int
      BY ConstantsAssumption DEF Index
    <3>4. QED
      BY <3>1, <3>2, <3>3 DEF Queue
  <2>3. left \in Nat /\ left + 1 = q.count
    BY <1>1 DEF Queue
  <2> HIDE DEF shifted, left
  <2>4. QED
    BY <2>1, <2>2, <2>3 DEF Queue
<1>2. CASE ~(q.count > 0 /\ q.indication[0] = c)
  BY <1>2 DEF Remove, Queue
<1>3. QED
  BY <1>1, <1>2

-----------------------------------------------------------------------------
(* What is in flight.                                                      *)

\* Nothing comes to be in flight when no confirmation is added to the events.
LEMMA NothingNew ==
  ASSUME events \in Seq(Event),
         outstanding' = outstanding \/ outstanding' = "none",
         \/ events' = events
         \/ \E e : e.type # "confirmation" /\ events' = Append(events, e)
         \/ events # <<>> /\ events' = Tail(events)
  PROVE  /\ \A c : InFlight(c)' => c = "none" \/ InFlight(c)
         /\ Single => Single'
<1>1. CASE events' = events
  BY <1>1 DEF InFlight, Single, Confirmations
<1>2. CASE \E e : e.type # "confirmation" /\ events' = Append(events, e)
  <2>1. PICK e : e.type # "confirmation" /\ events' = Append(events, e)
    BY <1>2
  <2>2. Len(events') = Len(events) + 1 /\ events'[Len(events) + 1] = e
    BY <2>1
  <2>3. \A i \in 1 .. Len(events) : events'[i] = events[i]
    BY <2>1
  <2>4. Confirmations' = Confirmations
    BY <2>1, <2>2, <2>3 DEF Confirmations
  <2>5. \A i \in Confirmations : events'[i] = events[i]
    BY <2>3 DEF Confirmations
  <2>6. QED
    BY <2>4, <2>5 DEF InFlight, Single
<1>3. CASE events # <<>> /\ events' = Tail(events)
  <2>1. \A i \in 1 .. Len(events') : i + 1 \in 1 .. Len(events) /\ events'[i] = events[i + 1]
    BY <1>3
  <2>2. \A i \in Confirmations' : i + 1 \in Confirmations /\ events'[i] = events[i + 1]
    BY <2>1 DEF Confirmations
  <2>3. \A i \in Confirmations' : i \in Nat
    BY DEF Confirmations
  <2>4. Single => \A i, j \in Confirmations' : i = j
    <3> SUFFICES ASSUME Single, NEW i \in Confirmations', NEW j \in Confirmations'
                 PROVE  i = j
      OBVIOUS
    <3>1. i + 1 = j + 1
      BY <2>2 DEF Single
    <3>2. QED
      BY <2>3, <3>1
  <2>5. QED
    BY <2>2, <2>4 DEF InFlight, Single
<1>4. QED
  BY <1>1, <1>2, <1>3

\* A confirmation takes the place of the indication it confirms.
LEMMA ConfirmationFollows ==
  ASSUME events \in Seq(Event), ClientConfirms
  PROVE  /\ \A c : InFlight(c)' => c = "none" \/ InFlight(c)
         /\ Single => Single'
<1> DEFINE e == [type |-> "confirmation", characteristic |-> outstanding]
<1>1. /\ outstanding # "none" /\ outstanding' = "none"
      /\ events' = Append(events, e)
  BY DEF ClientConfirms
<1>2. Len(events') = Len(events) + 1 /\ events'[Len(events) + 1] = e
  BY <1>1
<1>3. \A i \in 1 .. Len(events) : events'[i] = events[i]
  BY <1>1
<1>4. Confirmations' = Confirmations \cup {Len(events) + 1}
  BY <1>2, <1>3 DEF Confirmations
<1>5. \A i \in Confirmations : events'[i] = events[i]
  BY <1>3 DEF Confirmations
<1>6. events'[Len(events) + 1].characteristic = outstanding
  BY <1>2
<1> HIDE DEF e
<1>7. ASSUME NEW c, InFlight(c)'
      PROVE  c = "none" \/ InFlight(c)
  BY <1>1, <1>4, <1>5, <1>6, <1>7 DEF InFlight
<1>8. Single => Confirmations' = {Len(events) + 1}
  BY <1>1, <1>4 DEF Single
<1>9. QED
  BY <1>1, <1>7, <1>8 DEF Single

\* Once the only confirmation is taken, nothing is in flight.
LEMMA ConfirmationEnds ==
  ASSUME events \in Seq(Event), Single, Handle("confirmation"),
         outstanding' = outstanding
  PROVE  Single' /\ ~Busy'
<1>1. /\ events # <<>> /\ Head(events).type = "confirmation"
      /\ events' = Tail(events)
  BY DEF Handle
<1>2. 1 \in Confirmations
  BY <1>1 DEF Confirmations
<1>3. \A i \in 1 .. Len(events') : i + 1 \in 1 .. Len(events) /\ events'[i] = events[i + 1]
  BY <1>1
<1>4. \A i \in Confirmations' : i \in Nat \ {0} /\ i + 1 \in Confirmations
  BY <1>3 DEF Confirmations
<1>5. Confirmations' = {}
  <2> SUFFICES ASSUME NEW i \in Confirmations' PROVE FALSE
    OBVIOUS
  <2>1. i + 1 = 1
    BY <1>2, <1>4 DEF Single
  <2>2. QED
    BY <1>4, <2>1
<1>6. outstanding = "none"
  BY <1>2 DEF Single
<1>7. "none" \notin Characteristics
  BY DEF Characteristics
<1>8. QED
  BY <1>5, <1>6, <1>7 DEF Single, Busy, InFlight

\* What is sent when nothing is in flight is all that is in flight.
LEMMA SendingStarts ==
  ASSUME events \in Seq(Event), ~Busy, AfSend, queue.indication[0] \in Characteristics,
         outstanding \in Characteristics \cup {"none"}
  PROVE  Single' /\ \A c \in Characteristics : InFlight(c)' => c = queue.indication[0]
<1>1. \A i \in Confirmations : events[i].characteristic \in Characteristics
  BY DEF Confirmations, Event
<1>2. Confirmations = {} /\ outstanding = "none"
  BY <1>1 DEF Busy, InFlight
<1>3. Confirmations' = {}
  BY <1>2 DEF AfSend, Confirmations
<1>4. outstanding' = "none" \/ outstanding' = queue.indication[0]
  BY <1>2 DEF AfSend
<1>5. "none" \notin Characteristics
  BY DEF Characteristics
<1>6. QED
  BY <1>3, <1>4, <1>5 DEF Single, InFlight
-----------------------------------------------------------------------------
(* The shapes, kept by every step.                                         *)

LEMMA HandlerShapes == ASSUME Shapes, Handler PROVE Shapes'
<1> USE DEF Shapes
<1>1. events' \in Seq(Event)
  BY DEF Handler, Handle, HandleBoot, HandleClosed, HandleOpened, HandleLightWrite,
         HandleOtherWrite, HandleRead, HandleClientConfig, HandleConfirmation
<1>2. UNCHANGED afVars
  BY DEF Handler, Handle, HandleBoot, HandleClosed, HandleOpened, HandleLightWrite,
         HandleOtherWrite, HandleRead, HandleClientConfig, HandleConfirmation
<1>3. UNCHANGED outstanding
  BY DEF Handler, HandleBoot, HandleClosed, HandleOpened, HandleLightWrite, Respond,
         HandleOtherWrite, HandleRead, HandleClientConfig, HandleConfirmation, linkVars
<1>4. queue' \in Queue
  <2>1. CASE HandleOpened
    BY <2>1, NotifyKeeps DEF HandleOpened
  <2>2. CASE HandleLightWrite
    BY <2>2, NotifyKeeps DEF HandleLightWrite
  <2>3. CASE HandleConfirmation
    BY <2>3, RemoveKeeps DEF HandleConfirmation, Confirm
  <2>4. CASE HandleBoot \/ HandleClosed \/ HandleOtherWrite \/ HandleRead
             \/ HandleClientConfig
    BY <2>4 DEF HandleBoot, HandleClosed, HandleOtherWrite, HandleRead,
                HandleClientConfig, queueVars
  <2>5. QED
    BY <2>1, <2>2, <2>3, <2>4 DEF Handler
<1>5. QED
  BY <1>1, <1>2, <1>3, <1>4 DEF afVars

\* The AF task's additions never change what is in flight, and write only where
\* the slots and the count keep their types.
LEMMA AddsShapes == ASSUME Shapes, AfAdds \/ AfReread PROVE Shapes'
<1> USE DEF Shapes, Uses
<1>1. adding' \in Characteristics
  BY DEF AfAdds, AfGuard, AfScan, AfStoreCount, AfWriteCharacteristic, AfWriteFields,
         AfReread, AfNext, Characteristics
<1>2. queue' \in Queue /\ loaded' \in Nat
  <2>1. CASE AfGuard \/ AfScan \/ AfWriteFields \/ AfReread
    <3>1. queue' = queue /\ queue.count \in Nat
      BY <2>1 DEF AfGuard, AfScan, AfWriteFields, AfReread, Queue
    <3>2. loaded' \in {0, loaded, queue.count}
      BY <2>1 DEF AfGuard, AfScan, AfWriteFields, AfReread, AfNext
    <3>3. QED
      BY <3>1, <3>2
  <2>2. CASE AfStoreCount
    BY <2>2 DEF AfStoreCount, Queue
  <2>3. CASE AfWriteCharacteristic
    BY <2>3 DEF AfWriteCharacteristic, Queue, Slot
  <2>4. QED
    BY <2>1, <2>2, <2>3 DEF AfAdds
<1>3. af' \in {"guard", "check"} \cup Uses
  BY DEF AfAdds, AfGuard, AfScan, AfStoreCount, AfWriteCharacteristic, AfWriteFields,
         AfReread, AfNext, AfAt, Characteristics
<1>4. UNCHANGED <<outstanding, events>>
  BY DEF AfAdds, AfGuard, AfScan, AfStoreCount, AfWriteCharacteristic, AfWriteFields,
         AfReread, AfRest, linkVars
<1>5. QED
  BY <1>1, <1>2, <1>3, <1>4

\* Sending needs an indication whose characteristic is known to be one.
LEMMA SendsShapes == ASSUME Shapes, SendsFirst, AfMessage \/ AfSends PROVE Shapes'
<1> USE DEF Shapes
<1>1. CASE AfMessage
  BY <1>1 DEF AfMessage, AfRest, linkVars
<1>2. CASE AfTick \/ AfCheck
  BY <1>2 DEF AfTick, AfCheck, AfRest, linkVars
<1>3. CASE AfSend
  BY <1>3 DEF AfSend, SendsFirst, AfAt, queueVars
<1>4. CASE AfMark
  BY <1>4 DEF AfMark, linkVars
<1>5. QED
  BY <1>1, <1>2, <1>3, <1>4 DEF AfSends

LEMMA ClientShapes == ASSUME Shapes, Client PROVE Shapes'
<1> USE DEF Shapes
<1>1. AppUnchanged
  BY DEF Client, Connect, Disconnect, ClientConfirms, ChangeSubscription, Request
<1>2. outstanding' \in {outstanding, "none"}
  BY DEF Client, Connect, Disconnect, ClientConfirms, ChangeSubscription, Request
<1>3. \E e \in Event : events' = Append(events, e)
  <2> USE DEF Event
  <2>1. CASE Connect
    BY <2>1 DEF Connect
  <2>2. CASE Disconnect
    BY <2>2 DEF Disconnect
  <2>3. CASE ClientConfirms
    BY <2>3 DEF ClientConfirms
  <2>4. CASE \E c \in Characteristics : ChangeSubscription(c)
    BY <2>4 DEF ChangeSubscription
  <2>5. CASE \E c \in Writes : Request("write", c)
    BY <2>5, ConstantsAssumption DEF Request
  <2>6. CASE \E c \in Reads : Request("read", c)
    BY <2>6, ConstantsAssumption DEF Request
  <2>7. QED
    BY <2>1, <2>2, <2>3, <2>4, <2>5, <2>6 DEF Client
<1>4. events' \in Seq(Event)
  BY <1>3
<1>5. QED
  BY <1>1, <1>2, <1>4 DEF AppUnchanged, queueVars, afVars

-----------------------------------------------------------------------------
(* The flight, kept by every step.                                         *)

\* The handler's events other than confirmations add to the queue at the most.
LEMMA HandlerFlight ==
  ASSUME IInv, Handler, ~HandleConfirmation
  PROVE  Flight'
<1> USE DEF IInv, Shapes
<1>1. /\ events # <<>> /\ events' = Tail(events)
      /\ UNCHANGED afVars /\ UNCHANGED outstanding
  BY DEF Handler, Handle, HandleBoot, HandleClosed, HandleOpened, HandleLightWrite,
         Respond, HandleOtherWrite, HandleRead, HandleClientConfig, linkVars
<1>2. under_way' = under_way
  BY DEF Handler, HandleBoot, HandleClosed, HandleOpened, HandleLightWrite,
         HandleOtherWrite, HandleRead, HandleClientConfig, Configure, queueVars
<1>3. /\ queue' \in Queue /\ queue'.count >= queue.count
      /\ queue.count > 0 => queue'.indication[0] = queue.indication[0]
  <2>1. CASE HandleOpened
    BY <2>1, NotifyKeeps DEF HandleOpened
  <2>2. CASE HandleLightWrite
    BY <2>2, NotifyKeeps DEF HandleLightWrite, Queue
  <2>3. CASE HandleBoot \/ HandleClosed \/ HandleOtherWrite \/ HandleRead
             \/ HandleClientConfig
    BY <2>3 DEF HandleBoot, HandleClosed, HandleOtherWrite, HandleRead,
                HandleClientConfig, queueVars, Queue
  <2>4. QED
    BY <2>1, <2>2, <2>3 DEF Handler
<1>4. Single' /\ \A c \in Characteristics : InFlight(c)' => InFlight(c)
  BY <1>1, NothingNew DEF Flight, Characteristics
<1>5. Busy' => Busy
  BY <1>4 DEF Busy
<1>6. queue.count \in Nat /\ queue'.count \in Nat
  BY <1>3 DEF Queue
<1>7. af' = af /\ loaded' = loaded
  BY <1>1 DEF afVars
<1>8. Marked' /\ SendsAfterConfirmation'
  BY <1>2, <1>5, <1>7 DEF Flight, Marked, SendsAfterConfirmation
<1>9. ConfirmedIsFirst'
  BY <1>3, <1>4, <1>6 DEF Flight, ConfirmedIsFirst
<1>10. SendsFirst'
  BY <1>3, <1>6, <1>7 DEF Flight, SendsFirst
<1>11. LoadedCovers' /\ WritesBehind'
  BY <1>3, <1>5, <1>6, <1>7 DEF Flight, LoadedCovers, WritesBehind
<1>12. QED
  BY <1>4, <1>8, <1>9, <1>10, <1>11 DEF Flight

\* A confirmation leaves nothing in flight, and takes one indication away.
LEMMA ConfirmationFlight ==
  ASSUME IInv, HandleConfirmation
  PROVE  Flight'
<1> USE DEF IInv, Shapes
<1>1. Handle("confirmation") /\ UNCHANGED afVars /\ UNCHANGED outstanding
  BY DEF HandleConfirmation, Handle, linkVars
<1>2. Single' /\ ~Busy'
  BY <1>1, ConfirmationEnds DEF Flight
<1>3. Busy
  <2>1. /\ events # <<>> /\ Head(events).type = "confirmation"
        /\ Head(events) \in Event
    BY <1>1 DEF Handle
  <2>2. 1 \in Confirmations /\ events[1].characteristic \in Characteristics
    BY <2>1 DEF Confirmations, Event
  <2>3. QED
    BY <2>2 DEF Busy, InFlight
<1>4. queue' \in Queue /\ queue'.count + 1 >= queue.count
  BY RemoveKeeps DEF HandleConfirmation, Confirm
<1>5. af' = af /\ loaded' = loaded
  BY <1>1 DEF afVars
<1>6. Marked' /\ SendsAfterConfirmation' /\ LoadedCovers' /\ ConfirmedIsFirst'
  BY <1>2 DEF Marked, SendsAfterConfirmation, LoadedCovers, ConfirmedIsFirst, Busy,
              Characteristics, InFlight
<1>7. SendsFirst'
  BY <1>3, <1>5 DEF Flight, SendsAfterConfirmation, SendsFirst
<1>8. WritesBehind'
  BY <1>2, <1>3, <1>4, <1>5 DEF Flight, WritesBehind, Queue
<1>9. QED
  BY <1>2, <1>6, <1>7, <1>8 DEF Flight

\* The AF task's additions leave the first indication alone while it is in flight,
\* whichever count they go by.
LEMMA AddsFlight ==
  ASSUME IInv, AfAdds \/ AfReread
  PROVE  Flight'
<1> USE DEF IInv, Shapes, Uses
<1>1. UNCHANGED <<outstanding, events>> /\ under_way' = under_way
  BY DEF AfAdds, AfGuard, AfScan, AfStoreCount, AfWriteCharacteristic, AfWriteFields,
         AfReread, AfRest, linkVars
<1>2. /\ Confirmations' = Confirmations /\ (Busy' <=> Busy)
      /\ \A c : InFlight(c)' <=> InFlight(c)
  BY <1>1 DEF Confirmations, InFlight, Busy
<1>3. af' \notin {"send", "sent"} /\ af # "sent"
  BY DEF AfAdds, AfGuard, AfScan, AfStoreCount, AfWriteCharacteristic, AfWriteFields,
         AfReread, AfNext, AfAt, Characteristics
<1>4. Single' /\ Marked' /\ SendsAfterConfirmation' /\ SendsFirst'
  BY <1>1, <1>2, <1>3 DEF Flight, Single, Marked, SendsAfterConfirmation, SendsFirst
<1>5. /\ Busy => queue.count > 0
      /\ loaded \in Nat /\ queue.count \in Nat
  BY DEF Flight, Busy, ConfirmedIsFirst, Queue
<1>6. ConfirmedIsFirst' /\ LoadedCovers' /\ WritesBehind'
  <2>1. CASE AfGuard
    <3>1. queue' = queue
      BY <2>1 DEF AfGuard
    <3>2. \/ af' = "scan" /\ loaded' = queue.count
          \/ af' \in {"guard", "check"}
      BY <2>1 DEF AfGuard, AfNext, Characteristics
    <3>3. QED
      BY <1>2, <1>5, <3>1, <3>2 DEF Flight, ConfirmedIsFirst, LoadedCovers, WritesBehind
  <2>2. CASE AfScan
    <3>1. queue' = queue /\ af = "scan"
      BY <2>2 DEF AfScan, AfAt
    <3>2. \/ af' \in {"scan", "store"} /\ loaded' = loaded
          \/ af' \in {"guard", "check"}
      BY <2>2 DEF AfScan, AfNext, AfAt, Characteristics
    <3>3. QED
      BY <1>2, <3>1, <3>2 DEF Flight, ConfirmedIsFirst, LoadedCovers, WritesBehind
  <2>3. CASE AfReread
    <3>1. queue' = queue /\ af' = af /\ loaded' = queue.count
      BY <2>3 DEF AfReread
    <3>2. QED
      BY <1>2, <1>5, <3>1 DEF Flight, ConfirmedIsFirst, LoadedCovers, WritesBehind
  <2>4. CASE AfStoreCount
    <3>1. /\ queue' = [queue EXCEPT !.count = loaded + 1]
          /\ af = "store" /\ af' = "characteristic" /\ loaded' = loaded + 1
      BY <2>4 DEF AfStoreCount, AfAt
    <3>2. queue'.count = loaded + 1 /\ queue'.indication = queue.indication
      BY <3>1 DEF Queue
    <3>3. QED
      BY <1>2, <1>5, <3>1, <3>2
      DEF Flight, ConfirmedIsFirst, LoadedCovers, WritesBehind
  <2>5. CASE AfWriteCharacteristic
    <3>1. /\ queue' = [queue EXCEPT !.indication[LastSlot] = adding]
          /\ af = "characteristic" /\ af' = "fields" /\ loaded' = loaded
      BY <2>5 DEF AfWriteCharacteristic, AfAt
    <3>2. queue'.count = queue.count
      BY <3>1 DEF Queue
    <3>3. Busy => queue'.indication[0] = queue.indication[0]
      <4>1. 0 \in Index
        BY ConstantsAssumption DEF Index
      <4>2. Busy => LastSlot # 0
        BY <1>5, <3>1 DEF LastSlot, Flight, WritesBehind
      <4>3. QED
        BY <3>1, <4>1, <4>2 DEF Queue, Slot
    <3>4. QED
      BY <1>2, <3>1, <3>2, <3>3
      DEF Flight, ConfirmedIsFirst, LoadedCovers, WritesBehind, Busy
  <2>6. CASE AfWriteFields
    <3>1. queue' = queue /\ af' \in {"guard", "check"}
      BY <2>6 DEF AfWriteFields, AfNext, Characteristics
    <3>2. QED
      BY <1>2, <3>1 DEF Flight, ConfirmedIsFirst, LoadedCovers, WritesBehind
  <2>7. QED
    BY <2>1, <2>2, <2>3, <2>4, <2>5, <2>6 DEF AfAdds
<1>7. QED
  BY <1>4, <1>6 DEF Flight

\* sl_send_bluetooth_indications() sends only when nothing is in flight, and then
\* what it sends is first and marked.
LEMMA SendsFlight ==
  ASSUME IInv, AfMessage \/ AfSends
  PROVE  Flight'
<1> USE DEF IInv, Shapes
<1>1. queue' = queue
  BY DEF AfMessage, AfSends, AfTick, AfCheck, AfSend, AfMark, queueVars
<1>2. af' \in {"idle", "guard", "check", "send", "sent"}
  BY DEF AfMessage, AfSends, AfTick, AfCheck, AfSend, AfMark
<1>3. LoadedCovers' /\ WritesBehind'
  BY <1>2 DEF LoadedCovers, WritesBehind
<1>4. CASE AfMessage \/ AfTick \/ AfCheck \/ AfMark
  <2>1. UNCHANGED <<outstanding, events>>
    BY <1>4 DEF AfMessage, AfTick, AfCheck, AfMark, AfRest, linkVars
  <2>2. /\ Confirmations' = Confirmations /\ (Busy' <=> Busy)
        /\ \A c : InFlight(c)' <=> InFlight(c)
    BY <2>1 DEF Confirmations, InFlight, Busy
  <2>3. Single' /\ ConfirmedIsFirst'
    BY <1>1, <2>1, <2>2 DEF Flight, Single, ConfirmedIsFirst
  <2>4. CASE AfCheck
    <3>1. af = "check" /\ under_way' = under_way /\ af' = IF MaySend THEN "send" ELSE "idle"
      BY <2>4 DEF AfCheck, AfAt, AfRest
    <3>2. Busy => under_way
      BY <3>1 DEF Flight, Marked
    <3>3. SendsAfterConfirmation' /\ SendsFirst'
      BY <1>1, <2>2, <3>1, <3>2 DEF MaySend, SendsAfterConfirmation, SendsFirst
    <3>4. Marked'
      BY <2>2, <3>1, <3>2 DEF Marked
    <3>5. QED
      BY <1>3, <2>3, <3>3, <3>4 DEF Flight
  <2>5. CASE AfMessage \/ AfTick
    <3>1. /\ af = "idle" /\ under_way' = under_way /\ af' # "send"
      BY <2>5 DEF AfMessage, AfTick, AfAt, AfRest
    <3>2. Marked' /\ SendsAfterConfirmation' /\ SendsFirst'
      BY <2>2, <3>1 DEF Flight, Marked, SendsAfterConfirmation, SendsFirst
    <3>3. QED
      BY <1>3, <2>3, <3>2 DEF Flight
  <2>6. CASE AfMark
    <3>1. under_way' /\ af' = "idle"
      BY <2>6 DEF AfMark
    <3>2. Marked' /\ SendsAfterConfirmation' /\ SendsFirst'
      BY <3>1 DEF Marked, SendsAfterConfirmation, SendsFirst
    <3>3. QED
      BY <1>3, <2>3, <3>2 DEF Flight
  <2>7. QED
    BY <1>4, <2>4, <2>5, <2>6
<1>5. CASE AfSend
  <2>1. af = "send" /\ af' = "sent"
    BY <1>5 DEF AfSend, AfAt
  <2>2. ~Busy /\ queue.count > 0 /\ queue.indication[0] \in Characteristics
    BY <2>1 DEF Flight, SendsAfterConfirmation, SendsFirst
  <2>3. /\ Single'
        /\ \A c \in Characteristics : InFlight(c)' => c = queue.indication[0]
    BY <1>5, <2>2, SendingStarts
  <2>4. ConfirmedIsFirst'
    BY <1>1, <2>2, <2>3 DEF ConfirmedIsFirst
  <2>5. Marked' /\ SendsAfterConfirmation' /\ SendsFirst'
    BY <2>1 DEF Marked, SendsAfterConfirmation, SendsFirst
  <2>6. QED
    BY <1>3, <2>3, <2>4, <2>5 DEF Flight
<1>6. QED
  BY <1>4, <1>5 DEF AfSends

\* The client and the connection put nothing new in flight.
LEMMA ClientFlight ==
  ASSUME IInv, Client
  PROVE  Flight'
<1> USE DEF IInv, Shapes
<1>1. AppUnchanged
  BY DEF Client, Connect, Disconnect, ClientConfirms, ChangeSubscription, Request
<1>2. /\ \A c \in Characteristics : InFlight(c)' => InFlight(c)
      /\ Single'
  <2>1. CASE ClientConfirms
    BY <2>1, ConfirmationFollows DEF Flight, Characteristics
  <2>2. CASE ~ClientConfirms
    <3>1. outstanding' = outstanding \/ outstanding' = "none"
      BY <2>2 DEF Client, Connect, Disconnect, ChangeSubscription, Request
    <3>2. \E e : e.type # "confirmation" /\ events' = Append(events, e)
      <4>1. CASE Connect
        BY <4>1 DEF Connect
      <4>2. CASE Disconnect
        BY <4>2 DEF Disconnect
      <4>3. CASE \E c \in Characteristics : ChangeSubscription(c)
        BY <4>3 DEF ChangeSubscription
      <4>4. CASE \/ \E c \in Writes : Request("write", c)
                 \/ \E c \in Reads : Request("read", c)
        BY <4>4 DEF Request
      <4>5. QED
        BY <2>2, <4>1, <4>2, <4>3, <4>4 DEF Client
    <3>3. QED
      BY <3>1, <3>2, NothingNew DEF Flight, Characteristics
  <2>3. QED
    BY <2>1, <2>2
<1>3. Busy' => Busy
  BY <1>2 DEF Busy
<1>4. queue' = queue /\ under_way' = under_way /\ af' = af /\ loaded' = loaded
  BY <1>1 DEF AppUnchanged, queueVars, afVars
<1>5. Marked' /\ SendsAfterConfirmation' /\ SendsFirst'
  BY <1>3, <1>4 DEF Flight, Marked, SendsAfterConfirmation, SendsFirst
<1>6. ConfirmedIsFirst' /\ LoadedCovers' /\ WritesBehind'
  BY <1>2, <1>3, <1>4 DEF Flight, ConfirmedIsFirst, LoadedCovers, WritesBehind
<1>7. QED
  BY <1>2, <1>5, <1>6 DEF Flight

-----------------------------------------------------------------------------
\* However the AF task and the event handler interleave, what is in flight is
\* single, marked, first in the queue and out of the AF task's way.
THEOREM FlightIsKept == Spec => []IInv
<1>1. Init => IInv
  <2> SUFFICES ASSUME Init PROVE IInv
    OBVIOUS
  <2>1. Shapes
    BY DEF Init, Shapes, Queue, Slot, Characteristics, Event
  <2>2. Confirmations = {} /\ outstanding = "none" /\ af = "idle"
    BY DEF Init, Confirmations
  <2>3. ~Busy /\ \A c \in Characteristics : ~InFlight(c)
    BY <2>2 DEF Busy, InFlight, Characteristics
  <2>4. Flight
    BY <2>2, <2>3 DEF Flight, Single, Marked, SendsAfterConfirmation, SendsFirst,
                      ConfirmedIsFirst, LoadedCovers, WritesBehind
  <2>5. QED
    BY <2>1, <2>4 DEF IInv
<1>2. IInv /\ [Next]_vars => IInv'
  <2> SUFFICES ASSUME IInv, [Next]_vars PROVE IInv'
    OBVIOUS
  <2>1. Shapes /\ SendsFirst
    BY DEF IInv, Flight
  <2>2. CASE Handler
    BY <2>1, <2>2, HandlerShapes, HandlerFlight, ConfirmationFlight DEF IInv
  <2>3. CASE AfAdds \/ AfReread
    BY <2>1, <2>3, AddsShapes, AddsFlight DEF IInv
  <2>4. CASE AfMessage \/ AfSends
    BY <2>1, <2>4, SendsShapes, SendsFlight DEF IInv
  <2>5. CASE Client
    BY <2>1, <2>5, ClientShapes, ClientFlight DEF IInv
  <2>6. CASE UNCHANGED vars
    <3>1. UNCHANGED <<queue, under_way, af, adding, loaded, outstanding, events>>
      BY <2>6 DEF vars, queueVars, afVars, linkVars
    <3>2. /\ Confirmations' = Confirmations /\ (Busy' <=> Busy)
          /\ \A c : InFlight(c)' <=> InFlight(c)
      BY <3>1 DEF Confirmations, InFlight, Busy
    <3>3. Shapes'
      BY <2>1, <3>1 DEF Shapes
    <3>4. Flight'
      BY <3>1, <3>2 DEF IInv, Flight, Single, Marked, SendsAfterConfirmation, SendsFirst,
                        ConfirmedIsFirst, LoadedCovers, WritesBehind
    <3>5. QED
      BY <3>3, <3>4 DEF IInv
  <2>7. QED
    BY <2>2, <2>3, <2>4, <2>5, <2>6 DEF Next
<1>3. QED
  BY <1>1, <1>2, PTL DEF Spec

\* No indication is sent before the last one's confirmation is handled.
THEOREM SendsWhenFree == Spec => []SendsAfterConfirmation
<1>1. IInv => SendsAfterConfirmation
  BY DEF IInv, Flight
<1>2. QED
  BY <1>1, FlightIsKept, PTL

\* A confirmation removes the indication that was confirmed.
THEOREM ConfirmationRemovesItsOwn == Spec => []ConfirmedIsFirst
<1>1. IInv => ConfirmedIsFirst
  BY DEF IInv, Flight
<1>2. QED
  BY <1>1, FlightIsKept, PTL

\* No field of an indication is written in front of the queue.
THEOREM NeverInFront == Spec => []WritesToSlot
<1>1. IInv => WritesToSlot
  BY DEF IInv, Shapes, Queue, Flight, WritesBehind, WritesToSlot, LastSlot
<1>2. QED
  BY <1>1, FlightIsKept, PTL
=============================================================================
