----------------------- MODULE IndicationQuietProofs -----------------------
(***************************************************************************)
(* The indication queue when its two tasks do not interrupt each other,    *)
(* for every length that leaves a slot free and every use the client makes *)
(* of it.                                                                  *)
(***************************************************************************)
EXTENDS IndicationQueueProofs

\* No task interrupts another, and the queue is longer than all that can wait.
Quiet == ~Preempt /\ Length > 3

-----------------------------------------------------------------------------
(* A tidy queue: n characteristics, no two the same, and blanks.           *)

Filled(q, n) ==
  \A i \in Index : IF i < n THEN q.indication[i] \in Characteristics
                            ELSE q.indication[i] = Blank

Distinct(q, n) ==
  \A i, j \in Index : i < j /\ j < n =>
    q.indication[i] # q.indication[j]

Tidy(q, n) == n \in 0 .. Length /\ Filled(q, n) /\ Distinct(q, n)

\* There are three characteristics, so that no more than three can wait.
LEMMA AtMostThree ==
  ASSUME Quiet, NEW q \in Queue, NEW n, Tidy(q, n)
  PROVE  n <= 3
<1> SUFFICES ASSUME n > 3 PROVE FALSE
  BY ConstantsAssumption DEF Tidy
<1>1. 0 \in Index /\ 1 \in Index /\ 2 \in Index /\ 3 \in Index
  BY ConstantsAssumption DEF Quiet, Index
<1>2. n \in Int /\ 0 < n /\ 1 < n /\ 2 < n /\ 3 < n
  BY ConstantsAssumption DEF Tidy
<1> DEFINE c(i) == q.indication[i]
<1>3. /\ c(0) \in Characteristics /\ c(1) \in Characteristics
      /\ c(2) \in Characteristics /\ c(3) \in Characteristics
  BY <1>1, <1>2 DEF Tidy, Filled
<1>4. /\ c(0) # c(1) /\ c(0) # c(2) /\ c(0) # c(3)
      /\ c(1) # c(2) /\ c(1) # c(3) /\ c(2) # c(3)
  BY <1>1, <1>2 DEF Tidy, Distinct
<1> HIDE DEF c
<1>5. QED
  BY <1>3, <1>4 DEF Characteristics

\* A characteristic that does not wait yet takes the first free slot.
LEMMA PutTidy ==
  ASSUME Quiet, NEW q \in Queue, NEW p \in Queue, NEW n, Tidy(q, n),
         p.indication[n] \in Characteristics,
         \A i \in Index : i < n =>
           q.indication[i] # p.indication[n],
         \A i \in Index : i # n => p.indication[i] = q.indication[i]
  PROVE  Tidy(p, n + 1)
<1>1. n \in 0 .. Length /\ n <= 3 /\ Length \in Nat /\ Length > 3
  BY AtMostThree, ConstantsAssumption DEF Tidy, Quiet
<1>2. n + 1 \in 0 .. Length /\ n \in Index /\ \A i \in Index : i < n + 1 <=> i < n \/ i = n
  BY <1>1 DEF Index
<1>3. Filled(p, n + 1)
  <2> SUFFICES ASSUME NEW i \in Index
               PROVE  IF i < n + 1 THEN p.indication[i] \in Characteristics
                                   ELSE p.indication[i] = Blank
    BY DEF Filled
  <2>1. CASE i = n
    BY <1>2, <2>1
  <2>2. CASE i # n
    BY <1>2, <2>2 DEF Tidy, Filled
  <2>3. QED
    BY <2>1, <2>2
<1>4. Distinct(p, n + 1)
  <2> SUFFICES ASSUME NEW i \in Index, NEW j \in Index, i < j, j < n + 1
               PROVE  p.indication[i] # p.indication[j]
    BY DEF Distinct
  <2>1. i # n /\ i < n
    BY <1>1, <1>2 DEF Index
  <2>2. CASE j = n
    BY <2>1, <2>2
  <2>3. CASE j # n
    BY <1>2, <2>1, <2>3 DEF Tidy, Distinct
  <2>4. QED
    BY <2>2, <2>3
<1>5. QED
  BY <1>2, <1>3, <1>4 DEF Tidy

LEMMA AddTidy ==
  ASSUME Quiet, NEW q \in Queue, Tidy(q, q.count),
         NEW c \in Characteristics
  PROVE  Tidy(Add(q, c), Add(q, c).count)
<1> DEFINE p == Add(q, c)
<1>1. CASE MayAdd(q, c) /\ ~Waits(q, c)
  <2>1. q.count \in Index
    BY <1>1, ConstantsAssumption DEF MayAdd, Queue, Index
  <2>2. p = [count |-> q.count + 1,
             indication |-> [q.indication EXCEPT ![q.count] = c]]
    BY <1>1 DEF Add
  <2>3. p \in Queue
    BY AddKeeps
  <2> HIDE DEF p
  <2>4. /\ p.count = q.count + 1 /\ p.indication[q.count] = c
        /\ \A i \in Index : i # q.count => p.indication[i] = q.indication[i]
    BY <2>1, <2>2 DEF Queue
  <2>5. \A i \in Index : i < q.count => q.indication[i] # c
    BY <1>1 DEF Waits, Index, Queue
  <2>6. Tidy(p, q.count + 1)
    BY <2>3, <2>4, <2>5, PutTidy
  <2>7. QED
    BY <2>4, <2>6 DEF p
<1>2. CASE ~(MayAdd(q, c) /\ ~Waits(q, c))
  BY <1>2 DEF Add
<1>3. QED
  BY <1>1, <1>2

LEMMA NotifyTidy ==
  ASSUME Quiet, queue \in Queue, Tidy(queue, queue.count),
         Notify
  PROVE  Tidy(queue', queue'.count)
<1> DEFINE first == Add(queue, "light_state")
           second == Add(first, "trigger_source")
<1>0. /\ "light_state" \in Characteristics /\ "trigger_source" \in Characteristics
      /\ "source_address" \in Characteristics
  BY DEF Characteristics
<1>1. first \in Queue /\ Tidy(first, first.count)
  BY <1>0, AddKeeps, AddTidy
<1>2. second \in Queue /\ Tidy(second, second.count)
  BY <1>0, <1>1, AddKeeps, AddTidy
<1>3. queue' = Add(second, "source_address")
  BY DEF Notify, Notified
<1> HIDE DEF first, second
<1>4. QED
  BY <1>0, <1>2, <1>3, AddTidy

\* What a removal leaves is tidy, for the queue was not full.
LEMMA RemoveTidy ==
  ASSUME Quiet, NEW q \in Queue, Tidy(q, q.count), NEW c
  PROVE  /\ Tidy(Remove(q, c), Remove(q, c).count)
         /\ q.count > 0 /\ q.indication[0] = c =>
              /\ Remove(q, c).count = q.count - 1
              /\ \A i \in Index : i < q.count - 1 =>
                   i + 1 \in Index /\ Remove(q, c).indication[i] = q.indication[i + 1]
<1> DEFINE p == Remove(q, c)
           left == q.count - 1
<1>1. CASE q.count > 0 /\ q.indication[0] = c
  <2>1. /\ q.count \in Nat /\ q.count <= 3 /\ q.count > 0
        /\ Length \in Nat /\ Length > 3 /\ left \in Nat /\ left + 1 = q.count
    BY <1>1, AtMostThree, ConstantsAssumption DEF Quiet, Queue
  <2>2. p.count = left
    BY <1>1 DEF Remove
  <2>3. ASSUME NEW i \in Index
        PROVE  /\ i < left => i + 1 \in Index /\ p.indication[i] = q.indication[i + 1]
               /\ i = left => p.indication[i] = Blank
               /\ i > left => p.indication[i] = q.indication[i]
    <3>1. p.indication[i] = IF i >= Length - 1 \/ i > left THEN q.indication[i]
                            ELSE IF i = left THEN Blank ELSE q.indication[i + 1]
      BY <1>1 DEF Remove
    <3> HIDE DEF p, left
    <3>2. i \in Nat /\ (i <= left => i < Length - 1 /\ i + 1 \in Index)
      BY <2>1 DEF Index
    <3>3. QED
      BY <2>1, <3>1, <3>2
  <2> HIDE DEF p, left
  <2>4. left \in 0 .. Length
    BY <2>1
  <2>5. Filled(p, left)
    <3> SUFFICES ASSUME NEW i \in Index
                 PROVE  IF i < left THEN p.indication[i] \in Characteristics
                                    ELSE p.indication[i] = Blank
      BY DEF Filled
    <3>1. i \in Nat
      BY DEF Index
    <3>2. CASE i < left
      <4>1. i + 1 \in Index /\ i + 1 < q.count /\ p.indication[i] = q.indication[i + 1]
        BY <2>1, <2>3, <3>1, <3>2
      <4>2. QED
        BY <3>2, <4>1 DEF Tidy, Filled
    <3>3. CASE i = left
      BY <2>1, <2>3, <3>3
    <3>4. CASE i > left
      <4>1. ~(i < q.count) /\ ~(i < left)
        BY <2>1, <3>1, <3>4
      <4>2. QED
        BY <2>3, <3>4, <4>1 DEF Tidy, Filled
    <3>5. QED
      BY <2>1, <3>1, <3>2, <3>3, <3>4
  <2>6. Distinct(p, left)
    <3> SUFFICES ASSUME NEW i \in Index, NEW j \in Index, i < j, j < left
                 PROVE  p.indication[i] # p.indication[j]
      BY DEF Distinct
    <3>1. i \in Nat /\ j \in Nat /\ i < left
      BY <2>1 DEF Index
    <3>2. /\ i + 1 \in Index /\ j + 1 \in Index /\ i + 1 < j + 1 /\ j + 1 < q.count
          /\ p.indication[i] = q.indication[i + 1] /\ p.indication[j] = q.indication[j + 1]
      BY <2>1, <2>3, <3>1
    <3>3. QED
      BY <3>2 DEF Tidy, Distinct
  <2>7. Tidy(p, p.count)
    BY <2>2, <2>4, <2>5, <2>6 DEF Tidy
  <2>8. QED
    BY <2>2, <2>3, <2>7 DEF p, left
<1>2. CASE ~(q.count > 0 /\ q.indication[0] = c)
  BY <1>2 DEF Remove
<1>3. QED
  BY <1>1, <1>2

-----------------------------------------------------------------------------
(* The inductive invariant of the queue.                                   *)

\* How many slots of the queue hold an indication: the one that the AF task has
\* just added to the count does not hold its characteristic yet.
Settled == IF af = "characteristic" THEN queue.count - 1 ELSE queue.count

\* The characteristic that the AF task adds is in none of the first n slots.
Absent(n) ==
  \A i \in Index : i < n => queue.indication[i] # adding

\* The AF task's scan, and its copy of the count, which is what the count is.
Progress ==
  /\ af = "scan" => index \in 0 .. queue.count /\ Absent(index)
  /\ af # "scan" => index = 0
  /\ af \in {"store", "characteristic"} => Absent(Settled)
  /\ loaded = IF af \in Uses THEN queue.count ELSE 0

WInv == Tidy(queue, Settled) /\ Progress

\* Uninterrupted, every operation of the handler leaves a tidy queue.
LEMMA HandlerTidy ==
  ASSUME Quiet, IInv, WInv, Handler
  PROVE  WInv'
<1>1. af = "idle" /\ UNCHANGED <<af, adding, index, loaded>>
  BY DEF Quiet, Handler, Handle, HandleBoot, HandleClosed, HandleOpened,
         HandleLightWrite, HandleOtherWrite, HandleRead, HandleClientConfig,
         HandleConfirmation, afVars
<1>2. queue \in Queue /\ Tidy(queue, queue.count) /\ index = 0 /\ loaded = 0
  BY <1>1 DEF IInv, Shapes, WInv, Settled, Progress, Uses
<1>3. Tidy(queue', queue'.count)
  <2>1. CASE HandleOpened
    BY <1>2, <2>1, NotifyTidy DEF HandleOpened
  <2>2. CASE HandleLightWrite
    BY <1>2, <2>2, NotifyTidy DEF HandleLightWrite
  <2>3. CASE HandleConfirmation
    BY <1>2, <2>3, RemoveTidy DEF HandleConfirmation, Confirm
  <2>4. CASE HandleBoot \/ HandleClosed \/ HandleOtherWrite \/ HandleRead
             \/ HandleClientConfig
    <3>1. queue' = queue
      BY <2>4 DEF HandleBoot, HandleClosed, HandleOtherWrite, HandleRead,
                  HandleClientConfig, queueVars
    <3>2. QED
      BY <1>2, <3>1
  <2>5. QED
    BY <2>1, <2>2, <2>3, <2>4 DEF Handler
<1>4. QED
  BY <1>1, <1>2, <1>3 DEF WInv, Settled, Progress, Uses

\* The AF task adds what it has not found to wait, to the first free slot.
LEMMA AddsTidy ==
  ASSUME Quiet, IInv, WInv, AfAdds \/ AfReread
  PROVE  WInv'
<1>0. queue \in Queue /\ adding \in Characteristics /\ queue.count \in Nat
  BY DEF IInv, Shapes, Queue
<1> USE DEF AfAt, Uses
<1>1. CASE AfReread
  <2>1. /\ queue' = queue /\ af' = af /\ adding' = adding /\ index' = index
        /\ loaded' = loaded
    BY <1>1 DEF AfReread, WInv, Progress
  <2>2. QED
    BY <2>1 DEF WInv, Settled, Progress, Absent
<1>2. CASE AfGuard
  <2>1. /\ queue' = queue /\ index' = 0 /\ af = "guard"
        /\ \/ af' = "scan" /\ loaded' = queue.count
           \/ af' \in {"guard", "check"} /\ loaded' = 0
    BY <1>0, <1>2 DEF AfGuard, AfNext, Characteristics, WInv, Progress
  <2>2. Absent(0)'
    BY <1>0 DEF Absent, Index
  <2>3. QED
    BY <1>0, <2>1, <2>2 DEF WInv, Settled, Progress
<1>3. CASE AfScan
  <2>1. /\ queue' = queue /\ af = "scan" /\ loaded = queue.count
        /\ index \in 0 .. queue.count /\ Absent(index)
        /\ Tidy(queue, queue.count)
    BY <1>3 DEF AfScan, WInv, Progress, Settled
  <2>2. CASE /\ index >= loaded /\ index' = 0 /\ af' = "store" /\ adding' = adding
             /\ loaded' = loaded
    <3>1. index = queue.count
      BY <1>0, <2>1, <2>2
    <3>2. Absent(queue.count)'
      BY <2>1, <2>2, <3>1 DEF Absent
    <3>3. QED
      BY <2>1, <2>2, <3>2 DEF WInv, Settled, Progress
  <2>3. CASE AfNext
    <3>1. af' \in {"guard", "check"} /\ index' = 0 /\ loaded' = 0
      BY <1>0, <2>3 DEF AfNext, Characteristics
    <3>2. QED
      BY <2>1, <3>1 DEF WInv, Settled, Progress
  <2>4. CASE /\ index < loaded /\ queue.indication[index] # adding
             /\ index' = index + 1 /\ adding' = adding /\ af' = af /\ loaded' = loaded
    <3>1. index + 1 \in 0 .. queue.count /\ index \in Nat
      BY <1>0, <2>1, <2>4
    <3>2. ASSUME NEW i \in Index, i < index + 1
          PROVE  queue.indication[i] # adding
      <4>1. i = index \/ i < index
        BY <3>1, <3>2 DEF Index
      <4>2. QED
        BY <2>1, <2>4, <4>1 DEF Absent
    <3>3. Absent(index + 1)
      BY <3>2 DEF Absent
    <3>4. Absent(index)'
      BY <2>1, <2>4, <3>3 DEF Absent
    <3>5. QED
      BY <2>1, <2>4, <3>1, <3>4 DEF WInv, Settled, Progress
  <2>5. QED
    BY <1>3, <2>2, <2>3, <2>4 DEF AfScan
<1>4. CASE AfStoreCount
  <2>1. /\ queue' = [queue EXCEPT !.count = loaded + 1] /\ index' = index
        /\ adding' = adding /\ loaded' = loaded + 1
        /\ af = "store" /\ af' = "characteristic"
    BY <1>4 DEF AfStoreCount
  <2>2. /\ Absent(queue.count) /\ Tidy(queue, queue.count) /\ index = 0
        /\ loaded = queue.count
    BY <2>1 DEF WInv, Settled, Progress
  <2>3. queue'.count = queue.count + 1 /\ queue'.indication = queue.indication
    BY <1>0, <2>1, <2>2 DEF Queue
  <2>4. Settled' = queue.count
    BY <1>0, <2>1, <2>3 DEF Settled
  <2>5. Tidy(queue', queue.count)
    BY <2>2, <2>3 DEF Tidy, Filled, Distinct
  <2>6. Absent(Settled)'
    BY <2>1, <2>2, <2>3, <2>4 DEF Absent
  <2>7. QED
    BY <2>1, <2>2, <2>3, <2>4, <2>5, <2>6 DEF WInv, Progress
<1>5. CASE AfWriteCharacteristic
  <2>1. /\ queue' = [queue EXCEPT !.indication[LastSlot] = adding]
        /\ index' = index /\ adding' = adding /\ loaded' = loaded
        /\ af = "characteristic" /\ af' = "fields"
    BY <1>5 DEF AfWriteCharacteristic
  <2>2. /\ Absent(LastSlot) /\ Tidy(queue, LastSlot) /\ index = 0
        /\ loaded = queue.count
    BY <2>1 DEF WInv, Settled, Progress, LastSlot
  <2>3. LastSlot \in Nat /\ LastSlot <= 3 /\ LastSlot + 1 = queue.count
    BY <1>0, <2>2, AtMostThree DEF Tidy, LastSlot
  <2>4. LastSlot \in Index
    BY <2>3, ConstantsAssumption DEF Quiet, Index
  <2>5. queue' \in Queue
    BY AddsShapes DEF IInv, Shapes
  <2>6. /\ queue'.count = queue.count
        /\ queue'.indication[LastSlot] = adding
        /\ \A i \in Index : i # LastSlot => queue'.indication[i] = queue.indication[i]
    BY <1>0, <2>1, <2>4 DEF Queue
  <2>7. Tidy(queue', LastSlot + 1)
    BY <1>0, <2>2, <2>5, <2>6, PutTidy DEF Absent
  <2>8. QED
    BY <2>1, <2>2, <2>3, <2>6, <2>7 DEF WInv, Settled, Progress
<1>6. CASE AfWriteFields
  <2>1. /\ queue' = queue /\ index' = 0 /\ loaded' = 0
        /\ af = "fields" /\ af' \in {"guard", "check"}
    BY <1>0, <1>6 DEF AfWriteFields, AfNext, Characteristics
  <2>2. QED
    BY <2>1 DEF WInv, Settled, Progress
<1>7. QED
  BY <1>1, <1>2, <1>3, <1>4, <1>5, <1>6 DEF AfAdds

\* Neither the sending nor the client touches the queue.
LEMMA RestTidy ==
  ASSUME WInv, AfMessage \/ AfSends \/ Client \/ UNCHANGED vars
  PROVE  WInv'
<1>1. queue' = queue /\ index' = index /\ adding' = adding /\ loaded' = loaded
  BY DEF AfMessage, AfSends, AfTick, AfCheck, AfSend, AfMark, Client, Connect,
         Disconnect, ClientConfirms, ChangeSubscription, Request, AppUnchanged,
         vars, queueVars, afVars
<1>2. \/ af' = af
      \/ af \in {"idle", "check", "send", "sent"}
           /\ af' \in {"idle", "guard", "check", "send", "sent"}
  BY DEF AfMessage, AfSends, AfTick, AfCheck, AfSend, AfMark, AfAt, Client, Connect,
         Disconnect, ClientConfirms, ChangeSubscription, Request, AppUnchanged,
         vars, afVars
<1>3. CASE af' = af
  BY <1>1, <1>3 DEF WInv, Settled, Progress, Absent
<1>4. CASE af \in {"idle", "check", "send", "sent"}
             /\ af' \in {"idle", "guard", "check", "send", "sent"}
  BY <1>1, <1>4 DEF WInv, Settled, Progress, Uses
<1>5. QED
  BY <1>2, <1>3, <1>4

LEMMA QuietQueue == ASSUME Quiet PROVE Spec => []WInv
<1>1. Init => WInv
  BY ConstantsAssumption
  DEF Init, WInv, Settled, Progress, Uses, Tidy, Filled, Distinct, Index, Blank
<1>2. IInv /\ WInv /\ [Next]_vars => WInv'
  BY HandlerTidy, AddsTidy, RestTidy DEF Next
<1>3. QED
  BY <1>1, <1>2, FlightIsKept, PTL DEF Spec

\* Left to itself, the queue holds distinct characteristics, and blanks after
\* them: sl_add_bluetooth_indication() adds none twice, and what
\* sl_remove_last_indication() moves up leaves no gap.
THEOREM QuietQueueIsWellFormed == ASSUME Quiet PROVE Spec => []QueueWellFormed
<1>1. IInv /\ WInv => QueueWellFormed
  <2> SUFFICES ASSUME IInv, WInv, af = "idle" PROVE QueueWellFormed
    BY DEF QueueWellFormed
  <2>1. Filled(queue, queue.count) /\ Distinct(queue, queue.count)
    BY DEF WInv, Settled, Tidy
  <2>2. Blank \notin Characteristics
    BY DEF Blank, Characteristics
  <2>3. \A i \in Index : i < queue.count <=> queue.indication[i] # Blank
    BY <2>1, <2>2 DEF Filled
  <2>4. QED
    BY <2>1, <2>3 DEF Distinct, QueueWellFormed
<1>2. QED
  BY <1>1, FlightIsKept, QuietQueue, PTL

-----------------------------------------------------------------------------
(* Type correctness, with the bounds that the tidy queue gives.            *)

\* The types of what the queue's proofs do not need.
Others ==
  /\ under_way \in BOOLEAN /\ booted \in BOOLEAN /\ asserted \in BOOLEAN
  /\ advertising \in BOOLEAN /\ connected \in BOOLEAN /\ request \in BOOLEAN
  /\ enabled \subseteq Characteristics /\ subscribed \subseteq Subscribes

LEMMA HandlerOthers == ASSUME IInv, Others, Handler PROVE Others'
<1> USE DEF Others
<1>1. CASE HandleBoot \/ HandleClosed \/ HandleOtherWrite
  BY <1>1 DEF HandleBoot, HandleClosed, HandleOtherWrite, queueVars, linkVars
<1>2. CASE HandleOpened
  BY <1>2 DEF HandleOpened, linkVars
<1>3. CASE HandleLightWrite
  BY <1>3 DEF HandleLightWrite, Respond
<1>4. CASE HandleRead
  BY <1>4 DEF HandleRead, Respond, queueVars
<1>5. CASE HandleConfirmation
  BY <1>5 DEF HandleConfirmation, Confirm, linkVars
<1>6. CASE HandleClientConfig
  <2>1. Head(events) \in Event /\ Head(events).type = "client_config"
    BY <1>6 DEF HandleClientConfig, Handle, IInv, Shapes
  <2>2. Head(events).characteristic \in Characteristics
    BY <2>1 DEF Event
  <2>3. enabled' \subseteq Characteristics
    BY <1>6, <2>2 DEF HandleClientConfig, Configure
  <2>4. UNCHANGED <<under_way, booted, asserted, linkVars>>
    BY <1>6 DEF HandleClientConfig, Configure
  <2>5. QED
    BY <2>3, <2>4 DEF linkVars
<1>7. QED
  BY <1>1, <1>2, <1>3, <1>4, <1>5, <1>6 DEF Handler

LEMMA OthersStep == ASSUME IInv, Others, [Next]_vars PROVE Others'
<1> USE DEF Others
<1>1. CASE Handler
  BY <1>1, HandlerOthers
<1>2. CASE AfMessage \/ AfAdds \/ AfReread
  BY <1>2 DEF AfMessage, AfAdds, AfGuard, AfScan, AfStoreCount, AfWriteCharacteristic,
              AfWriteFields, AfReread, AfRest, linkVars
<1>3. CASE AfSends
  BY <1>3 DEF AfSends, AfTick, AfCheck, AfSend, AfMark, AfRest, linkVars, queueVars
<1>4. CASE Client
  <2>1. UNCHANGED <<under_way, booted, asserted, enabled>>
    BY <1>4 DEF Client, Connect, Disconnect, ClientConfirms, ChangeSubscription,
                Request, AppUnchanged, queueVars
  <2>2. /\ advertising' \in BOOLEAN /\ connected' \in BOOLEAN /\ request' \in BOOLEAN
        /\ subscribed' \subseteq Subscribes
    BY <1>4 DEF Client, Connect, Disconnect, ClientConfirms, ChangeSubscription, Request
  <2>3. QED
    BY <2>1, <2>2
<1>5. CASE UNCHANGED vars
  BY <1>5 DEF vars, queueVars, linkVars
<1>6. QED
  BY <1>1, <1>2, <1>3, <1>4, <1>5 DEF Next

LEMMA OthersAreTyped == Spec => []Others
<1>1. Init => Others
  BY DEF Init, Others
<1>2. IInv /\ Others /\ [Next]_vars => Others'
  BY OthersStep
<1>3. QED
  BY <1>1, <1>2, FlightIsKept, PTL DEF Spec

\* Uninterrupted, every variable keeps its type, and the count, the AF task's
\* copy of it and its loop index stay within the queue.
THEOREM QuietTypes == ASSUME Quiet PROVE Spec => []TypeOK
<1>1. IInv /\ WInv /\ Others => TypeOK
  <2> SUFFICES ASSUME IInv, WInv, Others PROVE TypeOK
    OBVIOUS
  <2>1. Length \in Nat /\ Length > 3
    BY ConstantsAssumption DEF Quiet
  <2>2. queue \in Queue /\ queue.count \in Nat
    BY DEF IInv, Shapes, Queue
  <2>3. Settled <= 3 /\ (Settled = queue.count \/ Settled = queue.count - 1)
    BY <2>2, AtMostThree DEF WInv, Settled
  <2>4. queue.count \in 0 .. Length
    BY <2>1, <2>2, <2>3
  <2>5. loaded \in 0 .. Length
    <3>1. loaded = queue.count \/ loaded = 0
      BY DEF WInv, Progress
    <3>2. QED
      BY <2>1, <2>4, <3>1
  <2>6. index \in 0 .. Length
    <3>1. index \in 0 .. queue.count \/ index = 0
      BY DEF WInv, Progress
    <3>2. QED
      BY <2>1, <2>2, <2>4, <3>1
  <2>7. QueueTypes
    BY <2>2, <2>4 DEF IInv, Shapes, Others, Queue, QueueTypes
  <2>8. AfTypes
    BY <2>5, <2>6 DEF IInv, Shapes, AfTypes
  <2>9. LinkTypes
    BY DEF IInv, Shapes, Others, LinkTypes
  <2>10. QED
    BY <2>7, <2>8, <2>9 DEF TypeOK
<1>2. QED
  BY <1>1, FlightIsKept, QuietQueue, OthersAreTyped, PTL

-----------------------------------------------------------------------------
(* The flag, while the connection lasts and the client stays subscribed.   *)

QuietLink == Quiet /\ ~Disconnects /\ ~Unsubscribes

\* All that waits or is about to may be sent: the client has subscribed to it.
Sendable ==
  /\ subscribed # {} => connected
  /\ enabled \subseteq subscribed
  /\ \A i \in 1 .. Len(events) :
       events[i].type = "client_config" => events[i].characteristic \in subscribed
  /\ \A i \in Index : i < Settled => queue.indication[i] \in enabled
  /\ af \in {"scan", "store", "characteristic"} => adding \in enabled

\* The flag tells what is in flight, except between the sending and the marking.
Honest == IF af = "sent" THEN Busy ELSE under_way = Busy

\* An addition is of what is enabled.
LEMMA AddEnabled ==
  ASSUME NEW q \in Queue, NEW c \in Characteristics,
         \A i \in Index : i < q.count => q.indication[i] \in enabled
  PROVE  \A i \in Index : i < Add(q, c).count =>
           Add(q, c).indication[i] \in enabled
<1> DEFINE p == Add(q, c)
<1>1. CASE MayAdd(q, c) /\ ~Waits(q, c)
  <2>1. q.count \in Index /\ c \in enabled
    BY <1>1, ConstantsAssumption DEF MayAdd, Queue, Index
  <2>2. p = [count |-> q.count + 1,
             indication |-> [q.indication EXCEPT ![q.count] = c]]
    BY <1>1 DEF Add
  <2> HIDE DEF p
  <2>3. /\ p.count = q.count + 1 /\ p.indication[q.count] = c
        /\ \A i \in Index : i # q.count => p.indication[i] = q.indication[i]
    BY <2>1, <2>2 DEF Queue
  <2>4. \A i \in Index : i < q.count + 1 => i < q.count \/ i = q.count
    BY <2>1 DEF Index
  <2>5. \A i \in Index : i < p.count => p.indication[i] \in enabled
    BY <2>1, <2>3, <2>4
  <2>6. QED
    BY <2>5 DEF p
<1>2. CASE ~(MayAdd(q, c) /\ ~Waits(q, c))
  BY <1>2 DEF Add
<1>3. QED
  BY <1>1, <1>2

LEMMA NotifyEnabled ==
  ASSUME queue \in Queue, Notify,
         \A i \in Index : i < queue.count => queue.indication[i] \in enabled
  PROVE  \A i \in Index : i < queue'.count => queue'.indication[i] \in enabled
<1> DEFINE first == Add(queue, "light_state")
           second == Add(first, "trigger_source")
<1>0. /\ "light_state" \in Characteristics /\ "trigger_source" \in Characteristics
      /\ "source_address" \in Characteristics
  BY DEF Characteristics
<1>1. /\ first \in Queue
      /\ \A i \in Index : i < first.count => first.indication[i] \in enabled
  BY <1>0, AddKeeps, AddEnabled
<1>2. /\ second \in Queue
      /\ \A i \in Index : i < second.count => second.indication[i] \in enabled
  BY <1>0, <1>1, AddKeeps, AddEnabled
<1>3. queue' = Add(second, "source_address")
  BY DEF Notify, Notified
<1> HIDE DEF first, second
<1>4. QED
  BY <1>0, <1>2, <1>3, AddEnabled

\* An event that is no confirmation comes or goes, and what is in flight stays.
LEMMA FlightStays ==
  ASSUME events \in Seq(Event), outstanding' = outstanding,
         \/ events' = events
         \/ \E e : e.type # "confirmation" /\ events' = Append(events, e)
         \/ /\ events # <<>> /\ events' = Tail(events)
            /\ Head(events).type # "confirmation"
  PROVE  Busy' = Busy
<1>1. CASE events' = events
  BY <1>1 DEF Busy, InFlight, Confirmations
<1>2. CASE \E e : e.type # "confirmation" /\ events' = Append(events, e)
  <2>1. PICK e : e.type # "confirmation" /\ events' = Append(events, e)
    BY <1>2
  <2>2. /\ Len(events') = Len(events) + 1 /\ events'[Len(events) + 1] = e
        /\ \A i \in 1 .. Len(events) : events'[i] = events[i]
    BY <2>1
  <2>3. Confirmations' = Confirmations
    BY <2>1, <2>2 DEF Confirmations
  <2>4. \A i \in Confirmations : events'[i] = events[i]
    BY <2>2 DEF Confirmations
  <2>5. QED
    BY <2>3, <2>4 DEF Busy, InFlight
<1>3. CASE /\ events # <<>> /\ events' = Tail(events)
           /\ Head(events).type # "confirmation"
  <2>1. /\ \A i \in 1 .. Len(events') :
             i + 1 \in 1 .. Len(events) /\ events'[i] = events[i + 1]
        /\ \A i \in 1 .. Len(events) : i # 1 => i - 1 \in 1 .. Len(events')
        /\ events[1] = Head(events)
    BY <1>3
  <2>2. \A i \in Confirmations' : i + 1 \in Confirmations /\ events'[i] = events[i + 1]
    BY <2>1 DEF Confirmations
  <2>3. ASSUME NEW i \in Confirmations
        PROVE  i - 1 \in Confirmations' /\ events'[i - 1] = events[i]
    <3>1. i \in 1 .. Len(events) /\ i # 1
      BY <1>3, <2>1 DEF Confirmations
    <3>2. i - 1 \in 1 .. Len(events') /\ (i - 1) + 1 = i
      BY <2>1, <3>1
    <3>3. events'[i - 1] = events[i]
      BY <2>1, <3>2
    <3>4. QED
      BY <3>2, <3>3 DEF Confirmations
  <2>4. \A c : InFlight(c)' <=> InFlight(c)
    BY <2>2, <2>3 DEF InFlight
  <2>5. QED
    BY <2>4 DEF Busy
<1>4. QED
  BY <1>1, <1>2, <1>3

LEMMA HandlerSendable ==
  ASSUME QuietLink, IInv, WInv, Sendable, Handler
  PROVE  Sendable'
<1>0. Quiet /\ queue \in Queue /\ events \in Seq(Event)
  BY DEF QuietLink, IInv, Shapes
<1>1. /\ af = "idle" /\ UNCHANGED <<af, adding>>
      /\ events # <<>> /\ events' = Tail(events)
  BY <1>0 DEF Quiet, Handler, Handle, HandleBoot, HandleClosed, HandleOpened,
         HandleLightWrite, HandleOtherWrite, HandleRead, HandleClientConfig,
         HandleConfirmation, afVars
<1>2. UNCHANGED <<connected, subscribed>>
  BY DEF Handler, HandleBoot, HandleClosed, HandleOpened, HandleLightWrite, Respond,
         HandleOtherWrite, HandleRead, HandleClientConfig, HandleConfirmation, linkVars
<1>3. enabled \subseteq enabled' /\ enabled' \subseteq subscribed
  <2>1. CASE HandleClientConfig
    <3>1. /\ Head(events) = events[1] /\ 1 \in 1 .. Len(events)
          /\ Head(events).type = "client_config"
      BY <1>0, <1>1, <2>1 DEF HandleClientConfig, Handle
    <3>2. Head(events).characteristic \in subscribed
      BY <3>1 DEF Sendable
    <3>3. QED
      BY <2>1, <3>2 DEF HandleClientConfig, Configure, Sendable
  <2>2. CASE ~HandleClientConfig
    <3>1. enabled' = enabled
      BY <2>2 DEF Handler, HandleBoot, HandleClosed, HandleOpened, HandleLightWrite,
             HandleOtherWrite, HandleRead, HandleConfirmation, queueVars
    <3>2. QED
      BY <3>1 DEF Sendable
  <2>3. QED
    BY <2>1, <2>2
<1>4. \A i \in 1 .. Len(events') : events'[i].type = "client_config" =>
        events'[i].characteristic \in subscribed
  <2>1. \A i \in 1 .. Len(events') :
          i + 1 \in 1 .. Len(events) /\ events'[i] = events[i + 1]
    BY <1>0, <1>1
  <2>2. QED
    BY <2>1 DEF Sendable
<1>5. /\ \A i \in Index : i < queue.count => queue.indication[i] \in enabled
      /\ Tidy(queue, queue.count)
  BY <1>1 DEF Sendable, Settled, WInv, IInv, Shapes
<1>6. \A i \in Index : i < queue'.count => queue'.indication[i] \in enabled
  <2>1. CASE HandleOpened
    BY <1>0, <1>5, <2>1, NotifyEnabled DEF HandleOpened
  <2>2. CASE HandleLightWrite
    BY <1>0, <1>5, <2>2, NotifyEnabled DEF HandleLightWrite
  <2>3. CASE HandleConfirmation
    <3>1. PICK c : queue' = Remove(queue, c)
      BY <2>3 DEF HandleConfirmation, Confirm
    <3>2. CASE queue.count > 0 /\ queue.indication[0] = c
      <4>1. /\ queue'.count = queue.count - 1
            /\ \A i \in Index : i < queue.count - 1 =>
                 i + 1 \in Index /\ queue'.indication[i] = queue.indication[i + 1]
        BY <1>0, <1>5, <3>1, <3>2, RemoveTidy
      <4>2. \A i \in Index : i < queue.count - 1 => i + 1 < queue.count
        BY <1>0 DEF Queue, Index
      <4>3. QED
        BY <1>5, <4>1, <4>2
    <3>3. CASE ~(queue.count > 0 /\ queue.indication[0] = c)
      BY <1>5, <3>1, <3>3 DEF Remove
    <3>4. QED
      BY <3>2, <3>3
  <2>4. CASE HandleBoot \/ HandleClosed \/ HandleOtherWrite \/ HandleRead
             \/ HandleClientConfig
    <3>1. queue' = queue
      BY <2>4 DEF HandleBoot, HandleClosed, HandleOtherWrite, HandleRead,
                  HandleClientConfig, queueVars
    <3>2. QED
      BY <1>5, <3>1
  <2>5. QED
    BY <2>1, <2>2, <2>3, <2>4 DEF Handler
<1>7. QED
  BY <1>1, <1>2, <1>3, <1>4, <1>6 DEF Sendable, Settled

LEMMA AddsSendable ==
  ASSUME QuietLink, IInv, WInv, Sendable, AfAdds \/ AfReread
  PROVE  Sendable'
<1>0. Quiet /\ queue \in Queue /\ queue.count \in Nat /\ adding \in Characteristics
  BY DEF QuietLink, IInv, Shapes, Queue
<1>1. UNCHANGED <<enabled, connected, subscribed, events>>
  BY DEF AfAdds, AfGuard, AfScan, AfStoreCount, AfWriteCharacteristic, AfWriteFields,
         AfReread, AfRest, linkVars
<1>2. /\ \A i \in Index : i < Settled' => queue'.indication[i] \in enabled
      /\ af' \in {"scan", "store", "characteristic"} => adding' \in enabled
  <2>1. CASE AfGuard \/ AfScan \/ AfWriteFields
    <3>1. queue' = queue /\ af # "characteristic" /\ af' # "characteristic"
      BY <1>0, <2>1 DEF AfGuard, AfScan, AfWriteFields, AfNext, AfAt, Characteristics
    <3>2. af' \in {"scan", "store"} => adding' \in enabled
      <4>1. CASE AfGuard
        BY <1>0, <4>1 DEF AfGuard, AfNext, MayAdd, Characteristics
      <4>2. CASE AfScan
        <5>1. adding \in enabled
          BY <4>2 DEF AfScan, AfAt, Sendable
        <5>2. adding' = adding \/ af' \in {"guard", "check"}
          BY <1>0, <4>2 DEF AfScan, AfNext, Characteristics
        <5>3. QED
          BY <5>1, <5>2
      <4>3. CASE AfWriteFields
        BY <1>0, <4>3 DEF AfWriteFields, AfNext, Characteristics
      <4>4. QED
        BY <2>1, <4>1, <4>2, <4>3
    <3>3. QED
      BY <3>1, <3>2 DEF Sendable, Settled
  <2>2. CASE AfReread
    <3>1. queue' = queue /\ af' = af /\ adding' = adding
      BY <2>2 DEF AfReread
    <3>2. QED
      BY <3>1 DEF Sendable, Settled
  <2>3. CASE AfStoreCount
    <3>1. /\ queue' = [queue EXCEPT !.count = loaded + 1]
          /\ adding' = adding /\ af = "store" /\ af' = "characteristic"
      BY <2>3 DEF AfStoreCount, AfAt
    <3>2. loaded = queue.count
      BY <3>1 DEF WInv, Progress, Uses
    <3>3. queue'.count = queue.count + 1 /\ queue'.indication = queue.indication
      BY <1>0, <3>1, <3>2 DEF Queue
    <3>4. Settled' = queue.count /\ Settled = queue.count
      BY <1>0, <3>1, <3>3 DEF Settled
    <3>5. QED
      BY <3>1, <3>3, <3>4 DEF Sendable
  <2>4. CASE AfWriteCharacteristic
    <3>1. /\ queue' = [queue EXCEPT !.indication[LastSlot] = adding]
          /\ af = "characteristic" /\ af' = "fields"
      BY <2>4 DEF AfWriteCharacteristic, AfAt
    <3>2. Tidy(queue, LastSlot) /\ adding \in enabled /\ Settled = LastSlot
      BY <3>1 DEF WInv, Progress, Uses, Settled, LastSlot, Sendable
    <3>3. LastSlot \in Nat /\ LastSlot <= 3 /\ LastSlot + 1 = queue.count
      BY <1>0, <3>1, <3>2, AtMostThree DEF Tidy, Settled
    <3>4. /\ LastSlot \in Index
          /\ \A i \in Index : i < queue.count => i < LastSlot \/ i = LastSlot
      BY <1>0, <3>3, ConstantsAssumption DEF Quiet, Index
    <3>5. /\ queue'.count = queue.count
          /\ queue'.indication[LastSlot] = adding
          /\ \A i \in Index : i # LastSlot => queue'.indication[i] = queue.indication[i]
      BY <1>0, <3>1, <3>4 DEF Queue
    <3>6. Settled' = queue.count
      BY <3>1, <3>5 DEF Settled
    <3>7. ASSUME NEW i \in Index, i < queue.count
          PROVE  queue'.indication[i] \in enabled
      <4>1. CASE i = LastSlot
        BY <3>2, <3>5, <4>1
      <4>2. CASE i # LastSlot
        <5>1. queue.indication[i] \in enabled
          BY <3>2, <3>4, <3>7, <4>2 DEF Sendable
        <5>2. QED
          BY <3>5, <4>2, <5>1
      <4>3. QED
        BY <4>1, <4>2
    <3>8. QED
      BY <3>1, <3>6, <3>7
  <2>5. QED
    BY <2>1, <2>2, <2>3, <2>4 DEF AfAdds
<1>3. QED
  BY <1>1, <1>2 DEF Sendable

LEMMA RestSendable ==
  ASSUME QuietLink, IInv, Sendable, AfMessage \/ AfSends \/ Client \/ UNCHANGED vars
  PROVE  Sendable'
<1>0. events \in Seq(Event)
  BY DEF IInv, Shapes
<1>1. queue' = queue /\ enabled' = enabled /\ adding' = adding
  BY DEF AfMessage, AfSends, AfTick, AfCheck, AfSend, AfMark, AfRest, Client, Connect,
         Disconnect, ClientConfirms, ChangeSubscription, Request, AppUnchanged,
         vars, queueVars, afVars
<1>2. \/ af' = af
      \/ af \in {"idle", "check", "send", "sent"}
           /\ af' \in {"idle", "guard", "check", "send", "sent"}
  BY DEF AfMessage, AfSends, AfTick, AfCheck, AfSend, AfMark, AfAt, Client, Connect,
         Disconnect, ClientConfirms, ChangeSubscription, Request, AppUnchanged,
         vars, afVars
<1>3. /\ \A i \in Index : i < Settled' => queue'.indication[i] \in enabled
      /\ af' \in {"scan", "store", "characteristic"} => adding' \in enabled
  BY <1>1, <1>2 DEF Sendable, Settled
<1>4. /\ subscribed' # {} => connected'
      /\ subscribed \subseteq subscribed'
      /\ \A i \in 1 .. Len(events') :
           events'[i].type = "client_config" => events'[i].characteristic \in subscribed'
  <2>1. CASE AfMessage \/ AfSends \/ UNCHANGED vars
    <3>1. UNCHANGED <<connected, subscribed, events>>
      BY <2>1 DEF AfMessage, AfSends, AfTick, AfCheck, AfSend, AfMark, AfRest,
                  linkVars, vars
    <3>2. QED
      BY <3>1 DEF Sendable
  <2>2. CASE Client
    <3>1. PICK e : /\ events' = Append(events, e)
                   /\ e.type = "client_config" => e.characteristic \in subscribed'
      <4>1. CASE Connect
        BY <4>1 DEF Connect
      <4>2. CASE ClientConfirms
        BY <4>2 DEF ClientConfirms
      <4>3. ASSUME NEW c \in Characteristics, ChangeSubscription(c)
            PROVE  \E e : /\ events' = Append(events, e)
                          /\ e.type = "client_config" => e.characteristic \in subscribed'
        <5>1. /\ events' = Append(events, [type |-> "client_config",
                                           characteristic |-> c])
              /\ c \in subscribed'
          BY <4>3 DEF QuietLink, ChangeSubscription
        <5>2. QED
          BY <5>1
      <4>4. CASE \E c \in Writes : Request("write", c)
        BY <4>4 DEF Request
      <4>5. CASE \E c \in Reads : Request("read", c)
        BY <4>5 DEF Request
      <4>6. QED
        BY <2>2, <4>1, <4>2, <4>3, <4>4, <4>5 DEF QuietLink, Client, Disconnect
    <3>2. subscribed \subseteq subscribed'
      BY <2>2 DEF QuietLink, Client, Connect, Disconnect, ClientConfirms,
                  ChangeSubscription, Request
    <3>3. subscribed' # {} => connected'
      BY <2>2 DEF QuietLink, Client, Connect, Disconnect, ClientConfirms,
                  ChangeSubscription, Request, Sendable
    <3>4. ASSUME NEW i \in 1 .. Len(events'), events'[i].type = "client_config"
          PROVE  events'[i].characteristic \in subscribed'
      <4>1. CASE i \in 1 .. Len(events)
        <5>1. events'[i] = events[i]
          BY <1>0, <3>1, <4>1
        <5>2. QED
          BY <3>2, <3>4, <4>1, <5>1 DEF Sendable
      <4>2. CASE i \notin 1 .. Len(events)
        <5>1. events'[i] = e
          BY <1>0, <3>1, <4>2
        <5>2. QED
          BY <3>1, <3>4, <5>1
      <4>3. QED
        BY <4>1, <4>2
    <3>5. QED
      BY <3>2, <3>3, <3>4
  <2>3. QED
    BY <2>1, <2>2
<1>5. QED
  BY <1>1, <1>3, <1>4 DEF Sendable

\* Only a sending and the handling of a confirmation change whether something is
\* in flight, as long as the connection lasts.
LEMMA BusyStays ==
  ASSUME ~Disconnects, IInv, [Next]_vars, ~HandleConfirmation, ~AfSend
  PROVE  Busy' = Busy
<1>0. events \in Seq(Event) /\ outstanding \in Characteristics \cup {"none"}
  BY DEF IInv, Shapes
<1>1. CASE Handler
  <2>1. /\ events # <<>> /\ events' = Tail(events)
        /\ Head(events).type # "confirmation"
    BY <1>1 DEF Handler, Handle, HandleBoot, HandleClosed, HandleOpened,
         HandleLightWrite, HandleOtherWrite, HandleRead, HandleClientConfig
  <2>2. UNCHANGED outstanding
    BY <1>1 DEF Handler, HandleBoot, HandleClosed, HandleOpened, Respond,
         HandleLightWrite, HandleOtherWrite, HandleRead, HandleClientConfig, linkVars
  <2>3. QED
    BY <1>0, <2>1, <2>2, FlightStays
<1>2. CASE AfMessage \/ AfAdds \/ AfReread \/ AfSends \/ UNCHANGED vars
  <2>1. UNCHANGED <<outstanding, events>>
    BY <1>2 DEF AfMessage, AfAdds, AfGuard, AfScan, AfStoreCount,
         AfWriteCharacteristic, AfWriteFields, AfReread, AfSends, AfTick, AfCheck, AfMark, AfRest, linkVars, vars
  <2>2. QED
    BY <1>0, <2>1, FlightStays
<1>3. CASE ClientConfirms
  <2>1. outstanding \in Characteristics
    BY <1>0, <1>3 DEF ClientConfirms
  <2>2. events' = Append(events, [type |-> "confirmation", characteristic |-> outstanding])
    BY <1>3 DEF ClientConfirms
  <2>3. /\ Len(events) + 1 \in 1 .. Len(events')
        /\ events'[Len(events) + 1] = [type |-> "confirmation", characteristic |-> outstanding]
    BY <1>0, <2>2
  <2>4. Len(events) + 1 \in Confirmations'
    BY <2>3 DEF Confirmations
  <2>5. Busy /\ Busy'
    BY <2>1, <2>3, <2>4 DEF Busy, InFlight
  <2>6. QED
    BY <2>5 DEF Busy
<1>4. CASE Client /\ ~ClientConfirms
  <2>1. UNCHANGED outstanding
    BY <1>4 DEF Client, Connect, Disconnect, ChangeSubscription, Request
  <2>2. \E e : e.type # "confirmation" /\ events' = Append(events, e)
    BY <1>4 DEF Client, Connect, Disconnect, ChangeSubscription, Request
  <2>3. QED
    BY <1>0, <2>1, <2>2, FlightStays
<1>5. QED
  BY <1>1, <1>2, <1>3, <1>4 DEF Next

\* What is sent is accepted: the client is there and has subscribed to it.
LEMMA SendAccepted ==
  ASSUME IInv, Sendable, AfSend
  PROVE  /\ ~Busy /\ queue.count > 0 /\ Settled = queue.count
         /\ outstanding' = queue.indication[0]
         /\ outstanding' \in Characteristics /\ Busy'
<1>1. af = "send"
  BY DEF AfSend, AfAt
<1>2. ~Busy /\ queue.count > 0 /\ queue.indication[0] \in Characteristics
  BY <1>1 DEF IInv, Flight, SendsAfterConfirmation, SendsFirst
<1>3. outstanding = "none"
  BY <1>2 DEF Busy, InFlight, IInv, Shapes
<1>4. Settled = queue.count /\ 0 \in Index
  BY <1>1, ConstantsAssumption DEF Settled, Index
<1>5. queue.indication[0] \in subscribed /\ connected
  BY <1>2, <1>4 DEF Sendable
<1>6. outstanding' = queue.indication[0]
  BY <1>3, <1>5 DEF AfSend, Accepted
<1>7. Busy'
  BY <1>2, <1>6 DEF Busy, InFlight
<1>8. QED
  BY <1>2, <1>4, <1>6, <1>7

LEMMA HonestStep ==
  ASSUME QuietLink, IInv, Sendable, Honest, [Next]_vars
  PROVE  Honest'
<1>1. CASE HandleConfirmation
  <2>1. Single /\ Handle("confirmation") /\ outstanding' = outstanding
    BY <1>1 DEF IInv, Flight, HandleConfirmation, linkVars
  <2>2. ~Busy'
    BY <2>1, ConfirmationEnds DEF IInv, Shapes
  <2>3. under_way' = FALSE /\ af' = "idle"
    BY <1>1, <2>1 DEF HandleConfirmation, Confirm, QuietLink, Quiet, Handle, afVars
  <2>4. QED
    BY <2>2, <2>3 DEF Honest, Busy
<1>2. CASE AfSend
  <2>1. af' = "sent"
    BY <1>2 DEF AfSend
  <2>2. QED
    BY <1>2, <2>1, SendAccepted DEF Honest
<1>3. CASE AfMark
  <2>1. af = "sent" /\ af' = "idle" /\ under_way' = TRUE
    BY <1>3 DEF AfMark, AfAt
  <2>2. ~HandleConfirmation /\ ~AfSend
    BY <2>1 DEF HandleConfirmation, Handle, afVars, AfSend
  <2>3. Busy' = Busy
    BY <2>2, BusyStays DEF QuietLink
  <2>4. QED
    BY <2>1, <2>3 DEF Honest, Busy
<1>4. CASE ~HandleConfirmation /\ ~AfSend /\ ~AfMark
  <2>1. under_way' = under_way
    BY <1>4 DEF Next, Handler, HandleBoot, HandleClosed, HandleOpened,
         HandleLightWrite, HandleOtherWrite, HandleRead, HandleClientConfig, Configure,
         AfMessage, AfAdds, AfGuard, AfScan, AfStoreCount, AfWriteCharacteristic,
         AfWriteFields, AfReread, AfSends, AfTick, AfCheck, AfRest, Client, Connect, Disconnect, ClientConfirms,
         ChangeSubscription, Request, AppUnchanged, queueVars, vars
  <2>2. af' = af \/ (af # "sent" /\ af' # "sent")
    <3>1. CASE Handler \/ Client \/ UNCHANGED vars
      BY <3>1 DEF Handler, Handle, HandleBoot, HandleClosed, HandleOpened,
         HandleLightWrite, HandleOtherWrite, HandleRead, HandleClientConfig,
         HandleConfirmation, Client, Connect, Disconnect, ClientConfirms,
         ChangeSubscription, Request, AppUnchanged, afVars, vars
    <3>2. CASE AfMessage \/ AfTick \/ AfCheck
      BY <3>2 DEF AfMessage, AfTick, AfCheck, AfAt
    <3>3. CASE AfAdds \/ AfReread
      <4>1. adding \in Characteristics
        BY DEF IInv, Shapes
      <4>2. QED
        BY <3>3, <4>1 DEF AfAdds, AfGuard, AfScan, AfStoreCount, AfWriteCharacteristic,
             AfWriteFields, AfReread, AfNext, AfAt, Characteristics
    <3>4. QED
      BY <1>4, <3>1, <3>2, <3>3 DEF Next, AfSends
  <2>3. Busy' = Busy
    BY <1>4, BusyStays DEF QuietLink
  <2>4. QED
    BY <2>1, <2>2, <2>3 DEF Honest
<1>5. QED
  BY <1>1, <1>2, <1>3, <1>4

LEMMA QuietFlag == ASSUME QuietLink PROVE Spec => [](Sendable /\ Honest)
<1>0. Quiet
  BY DEF QuietLink
<1>1. Init => Sendable /\ Honest
  <2> SUFFICES ASSUME Init PROVE Sendable /\ Honest
    OBVIOUS
  <2>1. /\ enabled = {} /\ subscribed = {} /\ events = <<[type |-> "boot"]>>
        /\ af = "idle" /\ queue.count = 0 /\ under_way = FALSE /\ outstanding = "none"
    BY DEF Init
  <2>2. Sendable
    BY <2>1 DEF Sendable, Settled, Index
  <2>3. Confirmations = {} /\ "none" \notin Characteristics
    BY <2>1 DEF Confirmations, Characteristics
  <2>4. Busy = FALSE
    BY <2>1, <2>3 DEF Busy, InFlight
  <2>5. QED
    BY <2>1, <2>2, <2>4 DEF Honest
<1>2. IInv /\ WInv /\ Sendable /\ Honest /\ [Next]_vars => (Sendable /\ Honest)'
  BY HandlerSendable, AddsSendable, RestSendable, HonestStep DEF Next
<1>3. QED
  BY <1>0, <1>1, <1>2, FlightIsKept, QuietQueue, PTL DEF Spec

\* Left to itself, and with a client that stays, indication_is_under_way says
\* whether an indication is under way: none that is refused sets it.
THEOREM QuietFlagIsHonest == ASSUME QuietLink PROVE Spec => []FlagIsHonest
<1>1. Honest => FlagIsHonest
  BY DEF Honest, FlagIsHonest
<1>2. QED
  BY <1>1, QuietFlag, PTL
=============================================================================
