--------------------------- MODULE StackService ---------------------------
(***************************************************************************)
(* What the two adaptations to the RTOS, of the Connect and of the         *)
(* Bluetooth stack, promise the application's tasks, whatever flags,       *)
(* mutexes and shared buffers they are made of: a call of the stack's API  *)
(* returns the answer to that very call; the stack's callbacks or events   *)
(* reach the application unchanged, in the order in which they were        *)
(* accepted, and each one once. A stack that may be stopped drops what is  *)
(* under way then. ConnectIpc and BtRtosAdaptation implement it.           *)
(***************************************************************************)
EXTENDS Naturals, Sequences

CONSTANTS Tasks, Arguments, Callbacks, Slots, MayStop, None

VARIABLES
  asked,     \* the argument of the call a task has under way
  answered,  \* the tasks whose call is carried out and has not returned
  got,       \* the answer that a task's call has returned
  mailbox,   \* callbacks accepted and not delivered
  delivered  \* the callback that the application framework handles

vars == <<asked, answered, got, mailbox, delivered>>

Init ==
  /\ asked = [t \in Tasks |-> None] /\ answered = {}
  /\ got = [t \in Tasks |-> None]
  /\ mailbox = <<>> /\ delivered = None

Ask(t) ==
  /\ asked[t] = None /\ got[t] = None
  /\ \E x \in Arguments : asked' = [asked EXCEPT ![t] = x]
  /\ UNCHANGED <<answered, got, mailbox, delivered>>

\* The stack carries out one call at a time.
Answer(t) ==
  /\ asked[t] # None /\ answered = {}
  /\ answered' = {t}
  /\ UNCHANGED <<asked, got, mailbox, delivered>>

Return(t) ==
  /\ t \in answered
  /\ answered' = answered \ {t}
  /\ got' = [got EXCEPT ![t] = asked[t]]
  /\ asked' = [asked EXCEPT ![t] = None]
  /\ UNCHANGED <<mailbox, delivered>>

Use(t) ==
  /\ got[t] # None
  /\ got' = [got EXCEPT ![t] = None]
  /\ UNCHANGED <<asked, answered, mailbox, delivered>>

Accept ==
  /\ Len(mailbox) < Slots
  /\ \E c \in Callbacks : mailbox' = Append(mailbox, c)
  /\ UNCHANGED <<asked, answered, got, delivered>>

Deliver ==
  /\ mailbox # <<>> /\ delivered = None
  /\ delivered' = Head(mailbox)
  /\ mailbox' = Tail(mailbox)
  /\ UNCHANGED <<asked, answered, got>>

Handle ==
  /\ delivered # None
  /\ delivered' = None
  /\ UNCHANGED <<asked, answered, got, mailbox>>

\* The stack is stopped: callbacks that wait are lost, the last ones first, and
\* tasks that are terminated get no answers and deliver nothing.
Stop ==
  /\ MayStop
  /\ \E n \in 0 .. Len(mailbox) : mailbox' = SubSeq(mailbox, 1, n)
  /\ delivered' \in {delivered, None}
  /\ \E T \in SUBSET Tasks :
       /\ asked' = [t \in Tasks |-> IF t \in T THEN None ELSE asked[t]]
       /\ got' = [t \in Tasks |-> IF t \in T THEN None ELSE got[t]]
       /\ answered' = answered \ T

Next ==
  \/ \E t \in Tasks : Ask(t) \/ Answer(t) \/ Return(t) \/ Use(t)
  \/ Accept \/ Deliver \/ Handle \/ Stop

Spec == Init /\ [][Next]_vars
=============================================================================
