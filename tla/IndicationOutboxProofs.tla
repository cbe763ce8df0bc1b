----------------------- MODULE IndicationOutboxProofs -----------------------
(***************************************************************************)
(* The indication queue, left to itself and with a client that stays,      *)
(* implements the outbox, for every length that leaves a slot free.        *)
(***************************************************************************)
EXTENDS IndicationQuietProofs, FiniteSetTheorems

\* The first n characteristics of a queue, and what of them waits.
Line(q, n) == [i \in 1 .. n |-> q.indication[i - 1]]

InLine == Line(queue, Settled)

Members(line) == {line[i] : i \in 1 .. Len(line)}

\* What is in flight, as the outbox sees it.
Flying == IF Busy THEN CHOOSE c \in Characteristics : InFlight(c) ELSE "none"

\* Neither changes.
Stutters == InLine' = InLine /\ Flying' = Flying

-----------------------------------------------------------------------------
(* What is in the line.                                                    *)

LEMMA LineType ==
  ASSUME Quiet, NEW q \in Queue, NEW n, Tidy(q, n)
  PROVE  /\ n \in Nat /\ n <= 3
         /\ \A i \in 1 .. n : i - 1 \in Index /\ i - 1 < n
         /\ Line(q, n) \in Seq(Characteristics) /\ Len(Line(q, n)) = n
         /\ \A i \in 1 .. n : Line(q, n)[i] = q.indication[i - 1]
<1>1. n \in Nat /\ n <= 3 /\ Length \in Nat /\ Length > 3
  BY AtMostThree, ConstantsAssumption DEF Tidy, Quiet
<1>2. \A i \in 1 .. n : i - 1 \in Index /\ i - 1 < n
  BY <1>1 DEF Index
<1>3. \A i \in 1 .. n : q.indication[i - 1] \in Characteristics
  BY <1>2 DEF Tidy, Filled
<1>4. Line(q, n) \in [1 .. n -> Characteristics]
  BY <1>3 DEF Line
<1>5. Line(q, n) \in Seq(Characteristics) /\ Len(Line(q, n)) = n
  BY <1>1, <1>4
<1>6. QED
  BY <1>1, <1>2, <1>5 DEF Line

\* Two lines with the same characteristics are the same.
LEMMA SameLine ==
  ASSUME Quiet, NEW q \in Queue, NEW p \in Queue, NEW n, Tidy(q, n),
         \A i \in Index : i < n => p.indication[i] = q.indication[i]
  PROVE  Line(p, n) = Line(q, n)
<1>1. \A i \in 1 .. n : p.indication[i - 1] = q.indication[i - 1]
  BY LineType
<1>2. QED
  BY <1>1 DEF Line

LEMMA CharacteristicsFinite == IsFiniteSet(Characteristics)
<1>1. /\ IsFiniteSet({}) /\ IsFiniteSet({} \cup {"light_state"})
      /\ IsFiniteSet({} \cup {"light_state"} \cup {"trigger_source"})
      /\ IsFiniteSet({} \cup {"light_state"} \cup {"trigger_source"}
                       \cup {"source_address"})
  BY FS_EmptySet, FS_AddElement
<1>2. Characteristics = {} \cup {"light_state"} \cup {"trigger_source"}
                          \cup {"source_address"}
  BY DEF Characteristics
<1>3. QED
  BY <1>1, <1>2

\* A member of the second of two sequences.
LEMMA ConcatSecond ==
  ASSUME NEW S, NEW s \in Seq(S), NEW t \in Seq(S), NEW i \in 1 .. Len(t)
  PROVE  (s \o t)[Len(s) + i] = t[i]
OBVIOUS

LEMMA SameCardinality == \A S : Outbox!Cardinality(S) = Cardinality(S)
BY DEF Outbox!Cardinality, Cardinality

\* A line that has grown is the line as it was and fresh characteristics.
LEMMA GrownLine ==
  ASSUME Quiet, NEW q \in Queue, NEW p \in Queue, NEW n, NEW m,
         Tidy(q, n), Tidy(p, m), n < m,
         \A i \in Index : i < n => p.indication[i] = q.indication[i]
  PROVE  \E new \in Outbox!Fresh(Members(Line(q, n))) :
           Line(p, m) = Line(q, n) \o new
<1> DEFINE k == m - n
           waits == Members(Line(q, n))
           rest == Characteristics \ waits
           new == [i \in 1 .. k |-> p.indication[n + i - 1]]
<1>1. /\ n \in Nat /\ m \in Nat /\ k \in Nat \ {0} /\ n + k = m
      /\ Len(Line(q, n)) = n /\ Len(Line(p, m)) = m
  BY LineType
<1>2. ASSUME NEW i \in 1 .. k
      PROVE  n + i - 1 \in Index /\ n + i - 1 < m /\ n <= n + i - 1
  <2>1. n + i \in 1 .. m /\ (n + i) - 1 = n + i - 1
    BY <1>1
  <2>2. n + i - 1 \in Index /\ n + i - 1 < m
    BY <2>1, LineType
  <2>3. QED
    BY <1>1, <2>2
<1>3. ASSUME NEW i \in 1 .. k
      PROVE  p.indication[n + i - 1] \in rest
  <2>1. p.indication[n + i - 1] \in Characteristics
    BY <1>2 DEF Tidy, Filled
  <2>2. ASSUME NEW x \in 1 .. n
        PROVE  Line(q, n)[x] # p.indication[n + i - 1]
    <3>1. /\ x - 1 \in Index /\ x - 1 < n
          /\ Line(q, n)[x] = q.indication[x - 1]
      BY LineType
    <3>2. Line(q, n)[x] = p.indication[x - 1]
      BY <3>1
    <3>3. x - 1 < n + i - 1
      BY <1>1, <1>2
    <3>4. QED
      BY <1>2, <3>1, <3>2, <3>3 DEF Tidy, Distinct
  <2>3. QED
    BY <1>1, <2>1, <2>2 DEF Members
<1>4. new \in [1 .. k -> rest]
  BY <1>3
<1>5. ASSUME NEW i \in 1 .. k, NEW j \in 1 .. k, new[i] = new[j]
      PROVE  i = j
  <2>1. p.indication[n + i - 1] = p.indication[n + j - 1]
    BY <1>5
  <2>2. n + i - 1 \in Index /\ n + i - 1 < m /\ n + j - 1 \in Index /\ n + j - 1 < m
    BY <1>2
  <2>3. ~(n + i - 1 < n + j - 1) /\ ~(n + j - 1 < n + i - 1)
    BY <2>1, <2>2 DEF Tidy, Distinct
  <2>4. QED
    BY <1>1, <2>3
<1>6. IsFiniteSet(rest)
  BY CharacteristicsFinite, FS_Subset
<1> HIDE DEF rest, waits
<1>7. new \in Injection(1 .. k, rest)
  BY <1>4, <1>5 DEF Injection, IsInjective
<1>8. k <= Cardinality(rest) /\ Cardinality(rest) \in Nat
  <2> HIDE DEF new, k
  <2>1. Cardinality(1 .. k) <= Cardinality(rest)
    BY <1>6, <1>7, FS_Injection
  <2>2. Cardinality(1 .. k) = k
    BY <1>1, FS_Interval
  <2>3. QED
    BY <1>6, <2>1, <2>2, FS_CardinalityType
<1>9. new \in Outbox!Fresh(waits)
  <2> HIDE DEF new, k
  <2>1. k \in 1 .. Outbox!Cardinality(rest)
    BY <1>1, <1>8, SameCardinality
  <2>2. new \in UNION {[1 .. x -> rest] : x \in 1 .. Outbox!Cardinality(rest)}
    BY <1>4, <2>1
  <2>3. \A i, j \in DOMAIN new : new[i] = new[j] => i = j
    BY <1>4, <1>5
  <2>4. QED
    BY <2>2, <2>3 DEF Outbox!Fresh, rest
<1>10. Line(p, m) = Line(q, n) \o new
  <2>1. new \in Seq(Characteristics) /\ Len(new) = k
    <3> HIDE DEF new, k
    <3>1. new \in [1 .. k -> Characteristics]
      BY <1>4 DEF rest
    <3>2. QED
      BY <1>1, <3>1
  <2>2. Line(q, n) \in Seq(Characteristics) /\ Line(p, m) \in Seq(Characteristics)
    BY LineType
  <2> DEFINE both == Line(q, n) \o new
  <2>3. both \in Seq(Characteristics) /\ Len(both) = m
    <3> HIDE DEF new, k
    <3>1. QED
      BY <1>1, <2>1, <2>2
  <2>4. ASSUME NEW i \in 1 .. m
        PROVE  Line(p, m)[i] = both[i]
    <3>1. Line(p, m)[i] = p.indication[i - 1]
      BY LineType
    <3>2. CASE i <= n
      <4>1. i \in 1 .. n
        BY <1>1, <3>2
      <4>2. both[i] = Line(q, n)[i]
        <5> HIDE DEF new, k
        <5>1. QED
          BY <1>1, <2>1, <2>2, <4>1
      <4>3. /\ Line(q, n)[i] = q.indication[i - 1]
            /\ i - 1 \in Index /\ i - 1 < n
        BY <4>1, LineType
      <4>4. QED
        BY <3>1, <4>2, <4>3
    <3>3. CASE i > n
      <4>1. i - n \in 1 .. k /\ n + (i - n) - 1 = i - 1
        BY <1>1, <3>3
      <4>2. both[i] = new[i - n]
        <5> HIDE DEF new, k
        <5>1. both[Len(Line(q, n)) + (i - n)] = new[i - n]
          BY <2>1, <2>2, <4>1, ConcatSecond
        <5>2. Len(Line(q, n)) + (i - n) = i
          BY <1>1
        <5>3. QED
          BY <5>1, <5>2
      <4>3. new[i - n] = p.indication[i - 1]
        BY <4>1
      <4>4. QED
        BY <3>1, <4>2, <4>3
    <3>4. QED
      BY <1>1, <3>2, <3>3
  <2> HIDE DEF both
  <2>5. Line(p, m) = both
    BY <1>1, <2>2, <2>3, <2>4
  <2>6. QED
    BY <2>5 DEF both
<1>11. QED
  BY <1>9, <1>10 DEF waits

-----------------------------------------------------------------------------
(* What is in flight is the first in the line.                             *)

LEMMA FlyingIsFirst ==
  IInv => /\ Flying = IF Busy THEN queue.indication[0] ELSE "none"
          /\ Busy => Settled > 0
<1> SUFFICES ASSUME IInv, Busy
             PROVE  Flying = queue.indication[0] /\ Settled > 0
  BY DEF Flying
<1>1. PICK c \in Characteristics : InFlight(c)
  BY DEF Busy
<1>2. \A d \in Characteristics : InFlight(d) => queue.indication[0] = d
  BY DEF IInv, Flight, ConfirmedIsFirst
<1>3. InFlight(Flying) /\ Flying \in Characteristics
  BY <1>1 DEF Flying
<1>4. queue.count > 0 /\ queue.count \in Nat
  BY <1>1 DEF IInv, Flight, ConfirmedIsFirst, Shapes, Queue
<1>5. af = "characteristic" => queue.count > 1
  BY DEF IInv, Flight, WritesBehind
<1>6. QED
  BY <1>2, <1>3, <1>4, <1>5 DEF Settled

\* A line that keeps its characteristics, while what is in flight stays, grows by
\* what is offered or does not grow.
LEMMA GrowsOrStutters ==
  ASSUME Quiet, IInv, IInv', WInv, WInv', Busy' = Busy, Settled' >= Settled,
         \A i \in Index : i < Settled =>
           queue'.indication[i] = queue.indication[i]
  PROVE  Outbox!Offer \/ Stutters
<1>1. /\ queue \in Queue /\ queue' \in Queue
      /\ Tidy(queue, Settled) /\ Tidy(queue', Settled')
  BY DEF IInv, Shapes, WInv, Tidy, Filled, Distinct
<1>2. Settled \in Nat /\ Settled' \in Nat /\ 0 \in Index
  BY <1>1, LineType, ConstantsAssumption DEF Index
<1>3. Flying' = Flying
  <2>1. (IInv => /\ Flying = IF Busy THEN queue.indication[0] ELSE "none"
                 /\ Busy => Settled > 0)'
    BY FlyingIsFirst, PTL
  <2>2. Busy => queue'.indication[0] = queue.indication[0]
    BY <1>2, FlyingIsFirst
  <2>3. QED
    BY <2>1, <2>2, FlyingIsFirst
<1>4. CASE Settled' = Settled
  <2>1. InLine' = InLine
    BY <1>1, <1>4, SameLine DEF InLine, Line
  <2>2. QED
    BY <1>3, <2>1 DEF Stutters
<1>5. CASE Settled' > Settled
  <2>0. Settled < Settled'
    BY <1>2, <1>5
  <2>1. PICK new \in Outbox!Fresh(Members(Line(queue, Settled))) :
               Line(queue', Settled') = Line(queue, Settled) \o new
    BY <1>1, <2>0, GrownLine
  <2>2. new \in Outbox!Fresh(Members(InLine)) /\ InLine' = InLine \o new
    BY <2>1 DEF InLine, Line
  <2>3. QED
    BY <1>3, <2>2 DEF Members, Outbox!Offer, Outbox!Waiting, InLine, Line, Settled, Flying
<1>6. QED
  BY <1>2, <1>4, <1>5

\* A notification keeps all that waits where it is.
LEMMA AddPrefix ==
  ASSUME NEW q \in Queue, NEW c \in Characteristics
  PROVE  \A i \in Index : i < q.count =>
           Add(q, c).indication[i] = q.indication[i]
<1>1. q.count \in Nat
  BY DEF Queue
<1>2. QED
  BY <1>1 DEF Add, Queue

LEMMA NotifyPrefix ==
  ASSUME queue \in Queue, Notify
  PROVE  \A i \in Index : i < queue.count =>
           queue'.indication[i] = queue.indication[i]
<1> DEFINE first == Add(queue, "light_state")
           second == Add(first, "trigger_source")
<1>0. /\ "light_state" \in Characteristics /\ "trigger_source" \in Characteristics
      /\ "source_address" \in Characteristics
  BY DEF Characteristics
<1>1. /\ first \in Queue /\ first.count >= queue.count
      /\ \A i \in Index : i < queue.count => first.indication[i] = queue.indication[i]
  BY <1>0, AddKeeps, AddPrefix
<1>2. /\ second \in Queue /\ second.count >= first.count
      /\ \A i \in Index : i < first.count => second.indication[i] = first.indication[i]
  BY <1>0, <1>1, AddKeeps, AddPrefix
<1>3. queue' = Add(second, "source_address")
  BY DEF Notify, Notified
<1> HIDE DEF first, second
<1>4. \A i \in Index : i < second.count => queue'.indication[i] = second.indication[i]
  BY <1>0, <1>2, <1>3, AddPrefix
<1>5. queue.count \in Nat /\ first.count \in Nat /\ second.count \in Nat
  BY <1>1, <1>2 DEF Queue
<1>6. \A i \in Index : i < queue.count => i < first.count /\ i < second.count
  BY <1>1, <1>2, <1>5 DEF Index
<1>7. QED
  BY <1>1, <1>2, <1>4, <1>6

-----------------------------------------------------------------------------
(* Every step is a step of the outbox, or none.                            *)

LEMMA HandlerRefines ==
  ASSUME QuietLink, IInv, IInv', WInv, WInv', Handler, ~HandleConfirmation
  PROVE  Outbox!Offer \/ Stutters
<1>0. Quiet /\ queue \in Queue /\ queue' \in Queue
  BY DEF QuietLink, IInv, Shapes
<1>1. af = "idle" /\ af' = af
  BY <1>0 DEF Quiet, Handler, Handle, HandleBoot, HandleClosed, HandleOpened,
         HandleLightWrite, HandleOtherWrite, HandleRead, HandleClientConfig, afVars
<1>2. Settled = queue.count /\ Settled' = queue'.count
  BY <1>1 DEF Settled
<1>3. /\ queue'.count >= queue.count
      /\ \A i \in Index : i < queue.count => queue'.indication[i] = queue.indication[i]
  <2>1. CASE HandleOpened
    BY <1>0, <2>1, NotifyKeeps, NotifyPrefix DEF HandleOpened
  <2>2. CASE HandleLightWrite
    <3>1. queue' = queue \/ Notify
      BY <2>2 DEF HandleLightWrite
    <3>2. CASE queue' = queue
      BY <1>0, <3>2 DEF Queue
    <3>3. CASE Notify
      BY <1>0, <3>3, NotifyKeeps, NotifyPrefix
    <3>4. QED
      BY <3>1, <3>2, <3>3
  <2>3. CASE HandleBoot \/ HandleClosed \/ HandleOtherWrite \/ HandleRead
             \/ HandleClientConfig
    <3>1. queue' = queue
      BY <2>3 DEF HandleBoot, HandleClosed, HandleOtherWrite, HandleRead,
                  HandleClientConfig, queueVars
    <3>2. QED
      BY <1>0, <3>1 DEF Queue
  <2>4. QED
    BY <2>1, <2>2, <2>3 DEF Handler
<1>4. ~AfSend
  BY <1>1 DEF AfSend, AfAt
<1>5. Busy' = Busy
  BY <1>4, BusyStays DEF QuietLink, Next
<1>6. QED
  BY <1>0, <1>2, <1>3, <1>5, GrowsOrStutters

LEMMA AddsRefine ==
  ASSUME QuietLink, IInv, IInv', WInv, WInv', AfAdds \/ AfReread
  PROVE  Outbox!Offer \/ Stutters
<1>0. /\ Quiet /\ queue \in Queue /\ queue.count \in Nat
      /\ adding \in Characteristics
  BY DEF QuietLink, IInv, Shapes, Queue
<1>1. /\ Settled' >= Settled
      /\ \A i \in Index : i < Settled => queue'.indication[i] = queue.indication[i]
  <2>1. CASE AfGuard \/ AfScan \/ AfWriteFields
    <3>1. queue' = queue /\ af # "characteristic" /\ af' # "characteristic"
      BY <1>0, <2>1 DEF AfGuard, AfScan, AfWriteFields, AfNext, AfAt, Characteristics
    <3>2. QED
      BY <1>0, <3>1 DEF Settled
  <2>2. CASE AfReread
    <3>1. queue' = queue /\ af' = af
      BY <2>2 DEF AfReread
    <3>2. QED
      BY <1>0, <3>1 DEF Settled
  <2>3. CASE AfStoreCount
    <3>1. /\ queue' = [queue EXCEPT !.count = loaded + 1]
          /\ af = "store" /\ af' = "characteristic"
      BY <2>3 DEF AfStoreCount, AfAt
    <3>2. loaded = queue.count
      BY <3>1 DEF WInv, Progress, Uses
    <3>3. queue'.count = queue.count + 1 /\ queue'.indication = queue.indication
      BY <1>0, <3>1, <3>2 DEF Queue
    <3>4. Settled' = queue.count /\ Settled = queue.count
      BY <1>0, <3>1, <3>3 DEF Settled
    <3>5. QED
      BY <1>0, <3>3, <3>4
  <2>4. CASE AfWriteCharacteristic
    <3>1. /\ queue' = [queue EXCEPT !.indication[LastSlot] = adding]
          /\ af = "characteristic" /\ af' = "fields"
      BY <2>4 DEF AfWriteCharacteristic, AfAt
    <3>2. Tidy(queue, LastSlot) /\ Settled = LastSlot
      BY <3>1 DEF WInv, Progress, Uses, Settled, LastSlot
    <3>3. LastSlot \in Nat /\ LastSlot + 1 = queue.count
      BY <1>0, <3>1, <3>2, LineType DEF Settled
    <3>4. /\ queue'.count = queue.count
          /\ \A i \in Index : i # LastSlot => queue'.indication[i] = queue.indication[i]
      BY <1>0, <3>1 DEF Queue
    <3>5. Settled' = queue.count
      BY <3>1, <3>4 DEF Settled
    <3>6. \A i \in Index : i < LastSlot => i # LastSlot
      BY <3>3 DEF Index
    <3>7. QED
      BY <3>2, <3>3, <3>4, <3>5, <3>6
  <2>5. QED
    BY <2>1, <2>2, <2>3, <2>4 DEF AfAdds
<1>2. ~HandleConfirmation /\ ~AfSend
  BY DEF AfAdds, AfGuard, AfScan, AfStoreCount, AfWriteCharacteristic, AfWriteFields,
         AfReread, Uses, AfAt, AfSend, HandleConfirmation, Handle, QuietLink, Quiet
<1>3. Busy' = Busy
  BY <1>2, BusyStays DEF QuietLink, Next
<1>4. QED
  BY <1>0, <1>1, <1>3, GrowsOrStutters

LEMMA RestRefines ==
  ASSUME QuietLink, IInv, IInv', WInv, WInv', ~AfSend, ~HandleConfirmation,
         AfMessage \/ AfSends \/ Client \/ UNCHANGED vars
  PROVE  Outbox!Offer \/ Stutters
<1>0. Quiet /\ queue \in Queue /\ queue.count \in Nat
  BY DEF QuietLink, IInv, Shapes, Queue
<1>1. queue' = queue
  BY DEF AfMessage, AfSends, AfTick, AfCheck, AfSend, AfMark, Client, Connect,
         Disconnect, ClientConfirms, ChangeSubscription, Request, AppUnchanged,
         vars, queueVars
<1>2. af' = af \/ (af # "characteristic" /\ af' # "characteristic")
  BY DEF AfMessage, AfSends, AfTick, AfCheck, AfSend, AfMark, AfAt, Client, Connect,
         Disconnect, ClientConfirms, ChangeSubscription, Request, AppUnchanged,
         vars, afVars
<1>3. Settled' = Settled /\ Settled \in Int
  BY <1>0, <1>1, <1>2 DEF Settled
<1>4. Busy' = Busy
  BY BusyStays DEF QuietLink, Next
<1>5. QED
  BY <1>0, <1>1, <1>3, <1>4, GrowsOrStutters

LEMMA SendRefines ==
  ASSUME QuietLink, IInv, IInv', WInv, Sendable, AfSend
  PROVE  Outbox!Send
<1>1. /\ ~Busy /\ Busy' /\ queue.count > 0 /\ Settled = queue.count
  BY SendAccepted
<1>2. queue' = queue /\ af = "send" /\ af' = "sent"
  BY DEF AfSend, AfAt, queueVars
<1>3. Flying = "none"
  BY <1>1 DEF Flying
<1>4. Flying' = queue.indication[0]
  <2>1. (IInv => /\ Flying = IF Busy THEN queue.indication[0] ELSE "none"
                 /\ Busy => Settled > 0)'
    BY FlyingIsFirst, PTL
  <2>2. QED
    BY <1>1, <1>2, <2>1
<1>5. InLine' = InLine
  BY <1>2 DEF InLine, Line, Settled
<1>6. InLine # <<>> /\ Head(InLine) = queue.indication[0]
  <2>1. /\ Line(queue, Settled) \in Seq(Characteristics)
        /\ Len(Line(queue, Settled)) = Settled /\ Settled \in Nat
        /\ \A i \in 1 .. Settled :
             Line(queue, Settled)[i] = queue.indication[i - 1]
    BY LineType DEF QuietLink, IInv, Shapes, WInv
  <2>2. 1 \in 1 .. Settled /\ 1 - 1 = 0
    BY <1>1, <2>1
  <2>3. Line(queue, Settled)[1] = queue.indication[0]
    BY <2>1, <2>2
  <2>4. QED
    BY <2>1, <2>2, <2>3 DEF InLine
<1>7. QED
  BY <1>3, <1>4, <1>5, <1>6 DEF Outbox!Send, InLine, Line, Settled, Flying

LEMMA ConfirmationRefines ==
  ASSUME QuietLink, IInv, WInv, WInv', HandleConfirmation
  PROVE  Outbox!Confirm
<1> DEFINE c == Head(events).characteristic
<1>0. /\ Quiet /\ queue \in Queue /\ queue.count \in Nat /\ events \in Seq(Event)
      /\ queue' \in Queue
  BY HandlerShapes DEF QuietLink, IInv, Shapes, Queue, Handler
<1>1. /\ Handle("confirmation") /\ outstanding' = outstanding
      /\ queue' = Remove(queue, c) /\ af = "idle" /\ af' = "idle"
  BY <1>0 DEF HandleConfirmation, Confirm, Handle, Quiet, linkVars, afVars
<1>2. c \in Characteristics /\ InFlight(c)
  <2>1. /\ events # <<>> /\ Head(events).type = "confirmation"
        /\ Head(events) \in Event
    BY <1>0, <1>1 DEF Handle
  <2>2. 1 \in Confirmations /\ events[1].characteristic = c
    BY <1>0, <2>1 DEF Confirmations
  <2>3. QED
    BY <2>1, <2>2 DEF Event, InFlight
<1> HIDE DEF c
<1>3. queue.count > 0 /\ queue.indication[0] = c
  BY <1>2 DEF IInv, Flight, ConfirmedIsFirst
<1>4. Flying = c /\ Flying # "none"
  <2>1. Busy
    BY <1>2 DEF Busy
  <2>2. QED
    BY <1>2, <1>3, <2>1, FlyingIsFirst DEF Characteristics
<1>5. Flying' = "none"
  BY <1>0, <1>1, ConfirmationEnds DEF Flying, IInv, Flight
<1>6. Settled = queue.count /\ Settled' = queue'.count
  BY <1>1 DEF Settled
<1>7. Tidy(queue, queue.count) /\ Tidy(queue', queue'.count)
  BY <1>6 DEF WInv, Tidy, Filled, Distinct
<1>8. /\ queue'.count = queue.count - 1
      /\ \A i \in Index : i < queue.count - 1 =>
           i + 1 \in Index /\ queue'.indication[i] = queue.indication[i + 1]
  BY <1>0, <1>1, <1>3, <1>7, RemoveTidy
<1> DEFINE q == Line(queue, queue.count)
           p == Line(queue', queue'.count)
<1>9. /\ q \in Seq(Characteristics) /\ Len(q) = queue.count
      /\ \A i \in 1 .. queue.count : q[i] = queue.indication[i - 1]
  BY <1>0, <1>7, LineType
<1>10. /\ p \in Seq(Characteristics) /\ Len(p) = queue'.count
       /\ \A i \in 1 .. queue'.count : /\ p[i] = queue'.indication[i - 1]
                                       /\ i - 1 \in Index /\ i - 1 < queue'.count
  BY <1>0, <1>7, LineType
<1> HIDE DEF p, q
<1>11. p = Tail(q)
  <2>1. Tail(q) \in Seq(Characteristics) /\ Len(Tail(q)) = queue'.count
    BY <1>0, <1>3, <1>8, <1>9
  <2>2. ASSUME NEW i \in 1 .. queue'.count
        PROVE  p[i] = Tail(q)[i]
    <3>1. i + 1 \in 1 .. queue.count /\ (i - 1) + 1 = i /\ (i + 1) - 1 = i
      BY <1>0, <1>8
    <3>2. p[i] = queue.indication[i]
      BY <1>8, <1>10, <3>1
    <3>3. Tail(q)[i] = q[i + 1]
      BY <1>0, <1>8, <1>9, <3>1
    <3>4. QED
      BY <1>9, <3>1, <3>2, <3>3
  <2>3. QED
    BY <1>10, <2>1, <2>2
<1>12. q # <<>> /\ Head(q) = c
  <2>1. 1 \in 1 .. queue.count /\ 1 - 1 = 0
    BY <1>0, <1>3
  <2>2. QED
    BY <1>3, <1>9, <2>1
<1>13. InLine = q /\ InLine' = p
  BY <1>6 DEF InLine, Line, p, q
<1>14. InLine # <<>> /\ Head(InLine) = Flying /\ InLine' = Tail(InLine)
  BY <1>4, <1>11, <1>12, <1>13
<1>15. QED
  BY <1>4, <1>5, <1>14 DEF Outbox!Confirm, InLine, Line, Settled, Flying

-----------------------------------------------------------------------------
\* Left to itself, and with a client that stays, the queue of app_bluetooth.c is
\* an outbox: each characteristic waits once, the first queued is sent first, one
\* at a time, and is retired by its own confirmation. (That what waits is sent
\* rests on fairness.)
THEOREM OutboxImplemented ==
  ASSUME QuietLink PROVE Spec => Outbox!Init /\ [][Outbox!Next]_(Outbox!vars)
<1>0. Quiet
  BY DEF QuietLink
<1>1. Init => Outbox!Init
  <2> SUFFICES ASSUME Init PROVE Outbox!Init
    OBVIOUS
  <2>1. /\ af = "idle" /\ queue.count = 0 /\ outstanding = "none"
        /\ events = <<[type |-> "boot"]>>
    BY DEF Init
  <2>2. Confirmations = {} /\ "none" \notin Characteristics
    BY <2>1 DEF Confirmations, Characteristics
  <2>3. ~Busy
    BY <2>1, <2>2 DEF Busy, InFlight
  <2>4. Flying = "none"
    BY <2>3 DEF Flying
  <2>5. InLine = <<>>
    BY <2>1 DEF InLine, Line, Settled
  <2>6. QED
    BY <2>4, <2>5 DEF Outbox!Init, InLine, Line, Settled, Flying
<1>2. IInv /\ IInv' /\ WInv /\ WInv' /\ Sendable /\ [Next]_vars
        => [Outbox!Next]_(Outbox!vars)
  <2> SUFFICES ASSUME IInv, IInv', WInv, WInv', Sendable, [Next]_vars
               PROVE  [Outbox!Next]_(Outbox!vars)
    OBVIOUS
  <2>1. Stutters => UNCHANGED Outbox!vars
    BY DEF Stutters, InLine, Line, Settled, Flying, Outbox!vars
  <2>2. CASE HandleConfirmation
    BY <2>2, ConfirmationRefines DEF Outbox!Next
  <2>3. CASE AfSend
    BY <2>3, SendRefines DEF Outbox!Next
  <2>4. CASE ~HandleConfirmation /\ ~AfSend
    <3>1. Outbox!Offer \/ Stutters
      BY <2>4, HandlerRefines, AddsRefine, RestRefines DEF Next
    <3>2. QED
      BY <2>1, <3>1 DEF Outbox!Next
  <2>5. QED
    BY <2>2, <2>3, <2>4
<1>3. QED
  BY <1>0, <1>1, <1>2, FlightIsKept, QuietQueue, QuietFlag, PTL DEF Spec
=============================================================================
