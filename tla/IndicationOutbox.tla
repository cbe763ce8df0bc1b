-------------------------- MODULE IndicationOutbox --------------------------
(***************************************************************************)
(* What the light promises a mobile device about its indications: each     *)
(* characteristic waits at most once, they are sent in the order in which  *)
(* they were queued, one at a time, and a confirmation retires exactly the *)
(* indication that was sent. IndicationQueue implements it as long as its  *)
(* two tasks do not interrupt each other.                                  *)
(***************************************************************************)
EXTENDS Naturals, Sequences, FiniteSets

CONSTANT Characteristics

VARIABLES
  waiting,  \* the characteristics that are queued, the oldest first
  flight    \* the one that is sent and not confirmed, or "none"

vars == <<waiting, flight>>

Waiting == {waiting[i] : i \in 1 .. Len(waiting)}

\* Sequences of distinct characteristics, none of them in S.
Fresh(S) ==
  LET new == Characteristics \ S
  IN {s \in UNION {[1 .. n -> new] : n \in 1 .. Cardinality(new)} :
        \A i, j \in DOMAIN s : s[i] = s[j] => i = j}

Init == waiting = <<>> /\ flight = "none"

Offer ==
  /\ \E new \in Fresh(Waiting) : waiting' = waiting \o new
  /\ UNCHANGED flight

Send ==
  /\ flight = "none" /\ waiting # <<>>
  /\ flight' = Head(waiting)
  /\ UNCHANGED waiting

Confirm ==
  /\ flight # "none"
  /\ waiting # <<>> /\ Head(waiting) = flight
  /\ waiting' = Tail(waiting)
  /\ flight' = "none"

Next == Offer \/ Send \/ Confirm

\* What waits is sent, and what is sent is retired.
Spec == Init /\ [][Next]_vars /\ WF_vars(Send) /\ WF_vars(Confirm)
=============================================================================
