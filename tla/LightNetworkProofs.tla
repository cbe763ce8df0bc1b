------------------------- MODULE LightNetworkProofs -------------------------
(***************************************************************************)
(* What LightControl's application knows of its network, for every value   *)
(* of the constants, as long as the callback queue never fills up.         *)
(***************************************************************************)
EXTENDS LightControlProofs

\* No callback is dropped: the queue has a free slot at all times.
RoomLeft == Len(callbacks) < MaxCallbacks

\* A callback that says whether the network is up.
Decisive(c) == c.type = "status" /\ c.status # "other"

Undecided(q) == \A i \in 1 .. Len(q) : ~Decisive(q[i])

LastDecisive(q, i) ==
  /\ i \in 1 .. Len(q) /\ Decisive(q[i])
  /\ \A j \in 1 .. Len(q) : j > i => ~Decisive(q[j])

(* The inductive invariant, in four parts.                                 *)

\* What the last decisive callback says of the network is true; when none is on
\* its way, what the application remembers is true.
NetworkKnown ==
  /\ \A i \in 1 .. Len(callbacks) : LastDecisive(callbacks, i) =>
       (callbacks[i].status = "EMBER_NETWORK_UP" <=> network = "up")
  /\ Undecided(callbacks) =>
       /\ stack_status = "EMBER_NETWORK_UP" => network = "up"
       /\ network_formed => network = "up"
       /\ stack_status = "EMBER_NETWORK_DOWN" => network # "up"

\* Without a network, and outside a form and a leave, the decisive callbacks on
\* their way are handled before the next tick.
DecidedByTick ==
  network # "up" /\ cli = "idle" /\ af \notin {"form", "permit"} =>
    \A i \in 1 .. Len(callbacks) : Decisive(callbacks[i]) => i <= behind

\* Before the network is initialised it is not up, and nothing is on its way.
NothingAtBoot == af = "boot" => callbacks = <<>> /\ network # "up"

\* The light operates only on a network that is up, or is about to stop.
OperatesOrLeaves ==
  state = "S_OPERATE" /\ cli = "idle" /\ ~leave_request => network = "up"

NetworkInv == NetworkKnown /\ DecidedByTick /\ NothingAtBoot /\ OperatesOrLeaves

-----------------------------------------------------------------------------
(* Sequences of callbacks.                                                 *)

\* A decisive callback that is added is the last one.
LEMMA AppendDecisive ==
  ASSUME NEW q \in Seq(Callback), NEW c \in Callback, Decisive(c)
  PROVE  /\ ~Undecided(Append(q, c))
         /\ \A i \in 1 .. Len(Append(q, c)) :
              LastDecisive(Append(q, c), i) => Append(q, c)[i] = c
<1> DEFINE p == Append(q, c)
<1>1. Len(q) \in Nat /\ Len(p) = Len(q) + 1 /\ p[Len(q) + 1] = c
  OBVIOUS
<1> HIDE DEF p
<1>2. Len(q) + 1 \in 1 .. Len(p)
  BY <1>1
<1>3. ~Undecided(p)
  BY <1>1, <1>2 DEF Undecided
<1>4. ASSUME NEW i \in 1 .. Len(p), LastDecisive(p, i) PROVE i = Len(q) + 1
  <2>1. ~(Len(q) + 1 > i)
    BY <1>1, <1>2, <1>4 DEF LastDecisive
  <2>2. QED
    BY <1>1, <2>1
<1>5. QED
  BY <1>1, <1>3, <1>4 DEF p

\* Any other callback changes nothing.
LEMMA AppendIndecisive ==
  ASSUME NEW q \in Seq(Callback), NEW c \in Callback, ~Decisive(c)
  PROVE  /\ Undecided(Append(q, c)) => Undecided(q)
         /\ \A i \in 1 .. Len(Append(q, c)) :
              /\ LastDecisive(Append(q, c), i) => LastDecisive(q, i)
              /\ Decisive(Append(q, c)[i]) =>
                   i \in 1 .. Len(q) /\ Append(q, c)[i] = q[i]
<1> DEFINE p == Append(q, c)
<1>1. /\ Len(q) \in Nat /\ Len(p) = Len(q) + 1 /\ p[Len(q) + 1] = c
      /\ \A i \in 1 .. Len(q) : p[i] = q[i]
  OBVIOUS
<1> HIDE DEF p
<1>2. 1 .. Len(q) \subseteq 1 .. Len(p)
  BY <1>1
<1>3. Undecided(p) => Undecided(q)
  BY <1>1, <1>2 DEF Undecided
<1>4. ASSUME NEW i \in 1 .. Len(p), Decisive(p[i])
      PROVE  i \in 1 .. Len(q) /\ p[i] = q[i]
  <2>1. i # Len(q) + 1
    BY <1>1, <1>4
  <2>2. i \in 1 .. Len(q)
    BY <1>1, <2>1
  <2>3. QED
    BY <1>1, <2>2
<1>5. ASSUME NEW i \in 1 .. Len(p), LastDecisive(p, i) PROVE LastDecisive(q, i)
  BY <1>1, <1>2, <1>4, <1>5 DEF LastDecisive
<1>6. QED
  BY <1>3, <1>4, <1>5 DEF p

\* Taking the first callback: the others keep their order.
LEMMA TailDecisive ==
  ASSUME NEW q \in Seq(Callback), q # <<>>
  PROVE  /\ \A i \in 1 .. Len(Tail(q)) :
              /\ i + 1 \in 1 .. Len(q) /\ Tail(q)[i] = q[i + 1]
              /\ LastDecisive(Tail(q), i) => LastDecisive(q, i + 1)
         /\ Undecided(Tail(q)) =>
              IF Decisive(Head(q)) THEN LastDecisive(q, 1) ELSE Undecided(q)
         /\ 1 \in 1 .. Len(q) /\ q[1] = Head(q)
<1> DEFINE p == Tail(q)
<1>1. /\ Len(q) \in Nat \ {0} /\ Len(p) = Len(q) - 1 /\ q[1] = Head(q)
      /\ \A i \in 1 .. Len(p) : p[i] = q[i + 1]
  OBVIOUS
<1> HIDE DEF p
<1>2. ASSUME NEW i \in 1 .. Len(p) PROVE i + 1 \in 1 .. Len(q) /\ p[i] = q[i + 1]
  BY <1>1
<1>3. ASSUME NEW j \in 1 .. Len(q), j > 1
      PROVE  j - 1 \in 1 .. Len(p) /\ q[j] = p[j - 1]
  <2>1. j - 1 \in 1 .. Len(p) /\ (j - 1) + 1 = j
    BY <1>1, <1>3
  <2>2. QED
    BY <1>1, <2>1
<1>4. ASSUME NEW i \in 1 .. Len(p), LastDecisive(p, i) PROVE LastDecisive(q, i + 1)
  <2>1. Decisive(q[i + 1])
    BY <1>2, <1>4 DEF LastDecisive
  <2>2. ASSUME NEW j \in 1 .. Len(q), j > i + 1 PROVE ~Decisive(q[j])
    <3>1. j > 1 /\ j - 1 > i
      BY <1>1, <2>2
    <3>2. j - 1 \in 1 .. Len(p) /\ q[j] = p[j - 1]
      BY <1>3, <3>1
    <3>3. QED
      BY <1>4, <3>1, <3>2 DEF LastDecisive
  <2>3. QED
    BY <1>2, <2>1, <2>2 DEF LastDecisive
<1>5. ASSUME Undecided(p) PROVE \A j \in 1 .. Len(q) : j > 1 => ~Decisive(q[j])
  BY <1>3, <1>5 DEF Undecided
<1>6. 1 \in 1 .. Len(q)
  BY <1>1
<1>7. ASSUME Undecided(p), ~Decisive(Head(q)) PROVE Undecided(q)
  <2> SUFFICES ASSUME NEW j \in 1 .. Len(q) PROVE ~Decisive(q[j])
    BY DEF Undecided
  <2>1. j = 1 \/ j > 1
    BY <1>1
  <2>2. QED
    BY <1>1, <1>5, <1>7, <2>1
<1>8. ASSUME Undecided(p), Decisive(Head(q)) PROVE LastDecisive(q, 1)
  BY <1>1, <1>5, <1>6, <1>8 DEF LastDecisive
<1>9. QED
  BY <1>1, <1>2, <1>4, <1>6, <1>7, <1>8 DEF p

-----------------------------------------------------------------------------
(* What the last decisive callback says stays true.                        *)

\* The stack tells the application of what it does to the network.
LEMMA KnownWhenTold ==
  ASSUME NetworkTypes, RoomLeft, NEW c \in Callback, Decisive(c), Post(c),
         c.status = "EMBER_NETWORK_UP" <=> network' = "up"
  PROVE  NetworkKnown'
<1>1. callbacks' = Append(callbacks, c) /\ callbacks \in Seq(Callback)
  BY DEF RoomLeft, Post, NetworkTypes
<1>2. QED
  BY <1>1, AppendDecisive DEF NetworkKnown

\* A callback that says nothing of the network.
LEMMA KnownWhenOther ==
  ASSUME NetworkTypes, RoomLeft, NetworkKnown, NEW c \in Callback, ~Decisive(c),
         Post(c), UNCHANGED <<network, stack_status, network_formed>>
  PROVE  NetworkKnown'
<1>1. callbacks' = Append(callbacks, c) /\ callbacks \in Seq(Callback)
  BY DEF RoomLeft, Post, NetworkTypes
<1>2. /\ Undecided(callbacks') => Undecided(callbacks)
      /\ \A i \in 1 .. Len(callbacks') :
           /\ LastDecisive(callbacks', i) => LastDecisive(callbacks, i)
           /\ Decisive(callbacks'[i]) =>
                i \in 1 .. Len(callbacks) /\ callbacks'[i] = callbacks[i]
  BY <1>1, AppendIndecisive
<1>3. ASSUME NEW i \in 1 .. Len(callbacks'), LastDecisive(callbacks', i)
      PROVE  callbacks'[i].status = "EMBER_NETWORK_UP" <=> network' = "up"
  <2>1. Decisive(callbacks'[i])
    BY <1>3 DEF LastDecisive
  <2>2. /\ LastDecisive(callbacks, i) /\ i \in 1 .. Len(callbacks)
        /\ callbacks'[i] = callbacks[i]
    BY <1>2, <1>3, <2>1
  <2>3. QED
    BY <2>2 DEF NetworkKnown
<1>4. QED
  BY <1>2, <1>3 DEF NetworkKnown

\* Nothing is sent, and the network is not brought up or taken down.
LEMMA KnownWhenQuiet ==
  ASSUME NetworkKnown, network' = "up" <=> network = "up",
         UNCHANGED <<stack_status, callbacks>>, network_formed' => network_formed
  PROVE  NetworkKnown'
BY DEF NetworkKnown

\* The application is told.
LEMMA KnownWhenHandled ==
  ASSUME NetworkTypes, NetworkKnown, AfCallback
  PROVE  NetworkKnown'
<1> DEFINE c == Head(callbacks)
<1>1. /\ callbacks \in Seq(Callback) /\ callbacks # <<>>
      /\ callbacks' = Tail(callbacks) /\ network' = network
  BY DEF NetworkTypes, AfCallback
<1>2. c \in Callback
  BY <1>1
<1>3. /\ \A i \in 1 .. Len(callbacks') :
           /\ i + 1 \in 1 .. Len(callbacks) /\ callbacks'[i] = callbacks[i + 1]
           /\ LastDecisive(callbacks', i) => LastDecisive(callbacks, i + 1)
      /\ Undecided(callbacks') =>
           IF Decisive(c) THEN LastDecisive(callbacks, 1) ELSE Undecided(callbacks)
      /\ 1 \in 1 .. Len(callbacks) /\ callbacks[1] = c
  BY <1>1, TailDecisive
<1>4. ASSUME NEW i \in 1 .. Len(callbacks'), LastDecisive(callbacks', i)
      PROVE  callbacks'[i].status = "EMBER_NETWORK_UP" <=> network' = "up"
  BY <1>1, <1>3, <1>4 DEF NetworkKnown
<1>5. ASSUME Undecided(callbacks')
      PROVE  /\ stack_status' = "EMBER_NETWORK_UP" => network' = "up"
             /\ network_formed' => network' = "up"
             /\ stack_status' = "EMBER_NETWORK_DOWN" => network' # "up"
  <2>1. CASE Decisive(c)
    <3>1. c.status = "EMBER_NETWORK_UP" <=> network = "up"
      BY <1>3, <1>5, <2>1 DEF NetworkKnown
    <3>2. /\ stack_status' = c.status
          /\ network_formed' = (c.status = "EMBER_NETWORK_UP"
                                 \/ (network_formed /\ c.status # "EMBER_NETWORK_DOWN"))
      BY <2>1 DEF Decisive, AfCallback, StackStatus
    <3>3. c.status \in {"EMBER_NETWORK_UP", "EMBER_NETWORK_DOWN"}
      BY <1>2, <2>1 DEF Decisive, Callback, Statuses
    <3>4. QED
      BY <1>1, <3>1, <3>2, <3>3
  <2>2. CASE ~Decisive(c)
    <3>1. /\ stack_status = "EMBER_NETWORK_UP" => network = "up"
          /\ network_formed => network = "up"
          /\ stack_status = "EMBER_NETWORK_DOWN" => network # "up"
      BY <1>3, <1>5, <2>2 DEF NetworkKnown
    <3>2. \/ UNCHANGED <<stack_status, network_formed>>
          \/ stack_status' = "other" /\ (network_formed' => network_formed)
      BY <2>2 DEF Decisive, AfCallback, StackStatus, IncomingMessage
    <3>3. QED
      BY <1>1, <3>1, <3>2
  <2>3. QED
    BY <2>1, <2>2
<1>6. QED
  BY <1>4, <1>5 DEF NetworkKnown

\* Statuses that are decisive, and what is not.
LEMMA DecisiveStatuses ==
  /\ Decisive(Status("EMBER_NETWORK_UP")) /\ Decisive(Status("EMBER_NETWORK_DOWN"))
  /\ ~Decisive(Status("other"))
  /\ Status("EMBER_NETWORK_UP").status = "EMBER_NETWORK_UP"
  /\ Status("EMBER_NETWORK_DOWN").status = "EMBER_NETWORK_DOWN"
  /\ \A e \in Endpoints, t \in BOOLEAN :
       ~Decisive([type |-> "message", endpoint |-> e, toggle |-> t])
BY DEF Decisive, Status

LEMMA KnownStep ==
  ASSUME TypeOK, RoomLeft, NetworkKnown, [Next]_vars
  PROVE  NetworkKnown'
<1> USE DecisiveStatuses, PostedType
<1>0. NetworkTypes
  BY DEF TypeOK
<1>1. CASE AfInit
  <2>1. CASE network = "stored"
    <3>1. network' = "up" /\ Post(Status("EMBER_NETWORK_UP"))
      BY <1>1, <2>1 DEF AfInit
    <3>2. QED
      BY <1>0, <3>1, KnownWhenTold
  <2>2. CASE network # "stored"
    <3>1. UNCHANGED <<network, stack_status, network_formed, callbacks>>
      BY <1>1, <2>2 DEF AfInit
    <3>2. QED
      BY <3>1, KnownWhenQuiet
  <2>3. QED
    BY <2>1, <2>2
<1>2. CASE AfCallback
  BY <1>0, <1>2, KnownWhenHandled
<1>3. CASE Tick
  <2>1. UNCHANGED <<network, stack_status, callbacks>>
    BY <1>3 DEF Tick, TickInit, TickForm, TickOperate, TickFormed, TickQuiet,
                TickToggle
  <2>2. UNCHANGED network_formed \/ network_formed' = FALSE
    BY <1>3 DEF Tick, TickInit, TickForm, TickOperate, TickFormed, TickQuiet,
                TickToggle, flags
  <2>3. QED
    BY <2>1, <2>2, KnownWhenQuiet
<1>4. CASE FormReply
  <2>1. UNCHANGED <<stack_status, network_formed>>
    BY <1>4 DEF FormReply, flags
  <2>2. CASE UNCHANGED <<network, callbacks>>
    BY <2>1, <2>2, KnownWhenQuiet
  <2>3. CASE network' = "up" /\ Post(Status("EMBER_NETWORK_UP"))
    BY <1>0, <2>3, KnownWhenTold
  <2>4. QED
    BY <1>4, <2>2, <2>3 DEF FormReply
<1>5. CASE PermitReply \/ LoadForLed \/ DriveLed \/ Load \/ Store \/ BleToggle
             \/ CliForm \/ CliLeaveRequest \/ UNCHANGED vars
  <2>1. UNCHANGED <<network, stack_status, network_formed, callbacks>>
    BY <1>5 DEF PermitReply, LoadForLed, DriveLed, Load, Store, BleToggle, CliForm,
                CliLeaveRequest, vars, flags
  <2>2. QED
    BY <2>1, KnownWhenQuiet
<1>6. CASE CliLeave
  <2>1. network' = "none" /\ UNCHANGED <<stack_status, network_formed>>
    BY <1>6 DEF CliLeave, flags
  <2>2. CASE Post(Status("EMBER_NETWORK_DOWN"))
    BY <1>0, <2>1, <2>2, KnownWhenTold
  <2>3. CASE network # "up" /\ UNCHANGED callbacks
    BY <2>1, <2>3, KnownWhenQuiet
  <2>4. QED
    BY <1>6, <2>2, <2>3 DEF CliLeave
<1>7. CASE CliReset
  <2>1. callbacks' = <<>> /\ stack_status' = "EMBER_SUCCESS" /\ ~network_formed'
    BY <1>7 DEF CliReset
  <2>2. QED
    BY <2>1 DEF NetworkKnown
<1>8. CASE ReportOther
  <2>1. /\ Post(Status("other"))
        /\ UNCHANGED <<network, stack_status, network_formed>>
    BY <1>8 DEF ReportOther, flags
  <2>2. QED
    BY <1>0, <2>1, KnownWhenOther
<1>9. ASSUME NEW e \in Endpoints, NEW t \in BOOLEAN, Receive(e, t)
      PROVE  NetworkKnown'
  <2>1. /\ Post([type |-> "message", endpoint |-> e, toggle |-> t])
        /\ UNCHANGED <<network, stack_status, network_formed>>
    BY <1>9 DEF Receive, flags
  <2>2. QED
    BY <1>0, <2>1, KnownWhenOther
<1>10. QED
  BY <1>1, <1>2, <1>3, <1>4, <1>5, <1>6, <1>7, <1>8, <1>9
  DEF Next, Continue, Cli, Stack

-----------------------------------------------------------------------------
(* Without a network, nothing decisive is left for after the next tick.    *)

\* A callback that does not decide anything may be added at any time.
LEMMA DecidedWhenOther ==
  ASSUME NetworkTypes, RoomLeft, DecidedByTick, NEW c \in Callback, ~Decisive(c),
         Post(c), UNCHANGED <<network, cli, af, behind>>
  PROVE  DecidedByTick'
<1>1. callbacks' = Append(callbacks, c) /\ callbacks \in Seq(Callback)
  BY DEF RoomLeft, Post, NetworkTypes
<1>2. \A i \in 1 .. Len(callbacks') : Decisive(callbacks'[i]) =>
        i \in 1 .. Len(callbacks) /\ callbacks'[i] = callbacks[i]
  BY <1>1, AppendIndecisive
<1>3. QED
  BY <1>2 DEF DecidedByTick

\* A tick that is armed leaves everything that is there behind it.
LEMMA DecidedWhenArmed ==
  ASSUME NetworkTypes, Armed, UNCHANGED callbacks
  PROVE  DecidedByTick'
<1>1. Len(callbacks) \in Nat
  BY DEF NetworkTypes
<1>2. \A i \in 1 .. Len(callbacks') : i <= behind'
  BY <1>1 DEF Armed
<1>3. QED
  BY <1>2 DEF DecidedByTick

\* Nothing is sent; the AF task and the CLI go on.
LEMMA DecidedWhenQuiet ==
  ASSUME DecidedByTick, UNCHANGED <<callbacks, behind>>,
         network' # "up" /\ cli' = "idle" /\ af' \notin {"form", "permit"} =>
           network # "up" /\ cli = "idle" /\ af \notin {"form", "permit"}
  PROVE  DecidedByTick'
BY DEF DecidedByTick

\* The callbacks move up as one is handled, and those left behind count down.
LEMMA DecidedWhenHandled ==
  ASSUME TaskTypes, NetworkTypes, DecidedByTick, AfCallback
  PROVE  DecidedByTick'
<1>1. /\ callbacks \in Seq(Callback) /\ callbacks # <<>>
      /\ callbacks' = Tail(callbacks) /\ UNCHANGED <<network, cli, af>>
  BY DEF NetworkTypes, AfCallback
<1>2. \A i \in 1 .. Len(callbacks') :
        i + 1 \in 1 .. Len(callbacks) /\ callbacks'[i] = callbacks[i + 1]
  BY <1>1, TailDecisive
<1>3. behind' = (IF behind > 0 THEN behind - 1 ELSE 0) /\ behind \in Nat
  BY ConstantsAssumption DEF AfCallback, TaskTypes
<1>4. ASSUME NEW i \in 1 .. Len(callbacks'), i + 1 <= behind PROVE i <= behind'
  <2>1. i \in Nat
    OBVIOUS
  <2>2. QED
    BY <1>3, <1>4, <2>1
<1>5. QED
  BY <1>1, <1>2, <1>4 DEF DecidedByTick

LEMMA DecidedStep ==
  ASSUME TypeOK, RoomLeft, NetworkInv, [Next]_vars
  PROVE  DecidedByTick'
<1> USE DecisiveStatuses, PostedType
<1>0. NetworkTypes /\ TaskTypes /\ DecidedByTick /\ NothingAtBoot
  BY DEF TypeOK, NetworkInv
<1>1. CASE AfInit
  <2>1. network' = "up" \/ callbacks' = <<>>
    BY <1>0, <1>1 DEF AfInit, NothingAtBoot
  <2>2. QED
    BY <2>1 DEF DecidedByTick
<1>2. CASE AfCallback
  BY <1>0, <1>2, DecidedWhenHandled
<1>3. CASE TickInit \/ TickOperate \/ TickFormed \/ TickQuiet \/ PermitReply \/ Store
  <2>1. Armed /\ UNCHANGED callbacks
    BY <1>3 DEF TickInit, TickOperate, TickFormed, TickQuiet, PermitReply, Store
  <2>2. QED
    BY <1>0, <2>1, DecidedWhenArmed
<1>4. CASE TickForm \/ FormReply
  <2>1. af' \in {"form", "permit"}
    BY <1>4 DEF TickForm, FormReply
  <2>2. QED
    BY <2>1 DEF DecidedByTick
<1>5. CASE TickToggle \/ LoadForLed \/ DriveLed \/ Load
  <2>1. /\ UNCHANGED <<callbacks, behind, network, cli>>
        /\ af \notin {"form", "permit"}
    BY <1>5 DEF TickToggle, Ticks, LoadForLed, DriveLed, Load
  <2>2. QED
    BY <1>0, <2>1, DecidedWhenQuiet
<1>6. CASE BleToggle \/ CliForm \/ UNCHANGED vars
  <2>1. UNCHANGED <<callbacks, behind, network, cli, af>>
    BY <1>6 DEF BleToggle, CliForm, vars
  <2>2. QED
    BY <1>0, <2>1, DecidedWhenQuiet
<1>7. CASE CliLeave
  <2>1. cli' = "leaving"
    BY <1>7 DEF CliLeave
  <2>2. QED
    BY <2>1 DEF DecidedByTick
<1>8. CASE CliLeaveRequest
  <2>1. af' \in {"form", "permit"} \/ callbacks' = <<>>
    BY <1>8 DEF CliLeaveRequest, CliRuns
  <2>2. QED
    BY <2>1 DEF DecidedByTick
<1>9. CASE CliReset
  <2>1. callbacks' = <<>>
    BY <1>9 DEF CliReset
  <2>2. QED
    BY <2>1 DEF DecidedByTick
<1>10. CASE ReportOther
  <2>1. Post(Status("other")) /\ UNCHANGED <<network, cli, af, behind>>
    BY <1>10 DEF ReportOther
  <2>2. QED
    BY <1>0, <2>1, DecidedWhenOther
<1>11. ASSUME NEW e \in Endpoints, NEW t \in BOOLEAN, Receive(e, t)
       PROVE  DecidedByTick'
  <2>1. /\ Post([type |-> "message", endpoint |-> e, toggle |-> t])
        /\ UNCHANGED <<network, cli, af, behind>>
    BY <1>11 DEF Receive
  <2>2. QED
    BY <1>0, <2>1, DecidedWhenOther
<1>12. QED
  BY <1>1, <1>2, <1>3, <1>4, <1>5, <1>6, <1>7, <1>8, <1>9, <1>10, <1>11
  DEF Next, Tick, Continue, Cli, Stack

-----------------------------------------------------------------------------
(* What follows for the light.                                             *)

LEMMA BootStep ==
  ASSUME NothingAtBoot, [Next]_vars
  PROVE  NothingAtBoot'
<1>1. CASE CliReset
  BY <1>1 DEF CliReset, NothingAtBoot
<1>2. CASE AfInit \/ AfCallback \/ Tick \/ Continue
  BY <1>2 DEF AfInit, AfCallback, Tick, TickInit, TickForm, TickOperate, TickFormed,
              TickQuiet, TickToggle, Ticks, Continue, FormReply, PermitReply,
              LoadForLed, DriveLed, Load, Store, NothingAtBoot
<1>3. CASE BleToggle \/ CliForm \/ CliLeaveRequest \/ UNCHANGED vars
  BY <1>3 DEF BleToggle, CliForm, CliLeaveRequest, vars, NothingAtBoot
<1>4. CASE CliLeave
  BY <1>4 DEF CliLeave, CliRuns, NothingAtBoot
<1>5. CASE Stack
  BY <1>5 DEF Stack, ReportOther, Receive, NothingAtBoot
<1>6. QED
  BY <1>1, <1>2, <1>3, <1>4, <1>5 DEF Next, Cli

\* At a tick outside a leave nothing decisive is on its way, so that what the
\* application remembers is true.
LEMMA TickKnows ==
  ASSUME TypeOK, NetworkInv, Ticks, cli = "idle",
         stack_status = "EMBER_NETWORK_UP" \/ network_formed
  PROVE  network = "up"
<1> SUFFICES ASSUME network # "up" PROVE FALSE
  OBVIOUS
<1>1. \A i \in 1 .. Len(callbacks) : Decisive(callbacks[i]) => i <= 0
  BY DEF NetworkInv, DecidedByTick, Ticks
<1>2. Undecided(callbacks)
  BY <1>1 DEF Undecided
<1>3. QED
  BY <1>2 DEF NetworkInv, NetworkKnown

LEMMA OperatesStep ==
  ASSUME TypeOK, RoomLeft, NetworkInv, [Next]_vars
  PROVE  OperatesOrLeaves'
<1>0. OperatesOrLeaves
  BY DEF NetworkInv
<1>1. CASE TickOperate \/ TickFormed
  <2>1. /\ Ticks
        /\ stack_status = "EMBER_NETWORK_UP" \/ network_formed
        /\ UNCHANGED <<network, cli>>
    BY <1>1 DEF TickOperate, TickFormed
  <2>2. QED
    BY <2>1, TickKnows DEF OperatesOrLeaves
<1>2. CASE TickInit \/ PermitReply \/ CliReset
  BY <1>2 DEF TickInit, PermitReply, CliReset, OperatesOrLeaves
<1>3. CASE TickQuiet \/ Store
  BY <1>0, <1>3 DEF TickQuiet, Store, TakeLeaveRequest, OperatesOrLeaves
<1>4. CASE CliLeave \/ CliLeaveRequest
  BY <1>4 DEF CliLeave, CliLeaveRequest, OperatesOrLeaves
<1>5. CASE AfInit \/ FormReply
  BY <1>0, <1>5 DEF AfInit, FormReply, flags, OperatesOrLeaves
<1>6. CASE AfCallback \/ TickForm \/ TickToggle
  BY <1>0, <1>6 DEF AfCallback, TickForm, TickToggle, flags, OperatesOrLeaves
<1>7. CASE LoadForLed \/ DriveLed \/ Load \/ BleToggle \/ CliForm \/ UNCHANGED vars
  <2>1. UNCHANGED <<state, cli, leave_request, network>>
    BY <1>7 DEF LoadForLed, DriveLed, Load, BleToggle, CliForm, vars, flags
  <2>2. QED
    BY <1>0, <2>1 DEF OperatesOrLeaves
<1>8. CASE Stack
  BY <1>0, <1>8 DEF Stack, ReportOther, Receive, flags, OperatesOrLeaves
<1>9. QED
  BY <1>1, <1>2, <1>3, <1>4, <1>5, <1>6, <1>7, <1>8 DEF Next, Tick, Continue, Cli

LEMMA NetworkInvariant == Spec /\ []RoomLeft => []NetworkInv
<1>1. Init => NetworkInv
  BY DEF Init, NetworkInv, NetworkKnown, DecidedByTick, NothingAtBoot,
         OperatesOrLeaves
<1>2. TypeOK /\ RoomLeft /\ NetworkInv /\ [Next]_vars => NetworkInv'
  BY KnownStep, DecidedStep, BootStep, OperatesStep DEF NetworkInv
<1>3. QED
  BY <1>1, <1>2, TypeCorrect, PTL DEF Spec

\* As long as no callback finds the queue full, an application that has handled
\* its callbacks knows the state of the network (emberAfStackStatusCallback()).
THEOREM ApplicationKnowsNetwork == Spec /\ []RoomLeft => []AppKnowsNetwork
<1>1. NetworkInv => AppKnowsNetwork
  <2> SUFFICES ASSUME NetworkInv, callbacks = <<>> PROVE AppKnowsNetwork
    BY DEF AppKnowsNetwork
  <2>1. Undecided(callbacks)
    BY DEF Undecided
  <2>2. QED
    BY <2>1 DEF NetworkInv, NetworkKnown, AppKnowsNetwork
<1>2. QED
  BY <1>1, NetworkInvariant, PTL

\* As long as no callback finds the queue full, the light that operates, with
\* everything handled, is on a network: a leave, a form or a reset that comes in
\* between does not leave a stale status behind for state_machine_handler().
THEOREM LightOperatesOnNetwork == Spec /\ []RoomLeft => []OperatesOnNetwork
<1>1. NetworkInv => OperatesOnNetwork
  BY DEF NetworkInv, OperatesOrLeaves, OperatesOnNetwork
<1>2. QED
  BY <1>1, NetworkInvariant, PTL
=============================================================================
