---------------------------- MODULE StoreForward ----------------------------
(***************************************************************************)
(* What the offline cache promises its clients while power holds: a FIFO   *)
(* of at most Capacity entries that keeps the newest ones.  Entries leave  *)
(* it from the head only, each handed on once; an entry that flash spoils  *)
(* keeps its place until it is dropped, and a clear empties the queue.     *)
(***************************************************************************)
EXTENDS Naturals, Sequences

CONSTANTS Capacity, Spoiled

VARIABLES queue,   \* the entries waiting, oldest first
          arrived, \* how many entries have been accepted
          sent     \* the entries handed on

vars == <<queue, arrived, sent>>

Init == queue = <<>> /\ arrived = 0 /\ sent = {}

Accept ==
  /\ queue' = Append(IF Len(queue) = Capacity THEN Tail(queue) ELSE queue, arrived + 1)
  /\ arrived' = arrived + 1
  /\ UNCHANGED sent

\* Handing on is in order: nothing older is ever handed on later.
Forward ==
  /\ queue # <<>> /\ Head(queue) # Spoiled
  /\ \A e \in sent : e < Head(queue)
  /\ sent' = sent \cup {Head(queue)}
  /\ queue' = Tail(queue)
  /\ UNCHANGED arrived

Discard ==
  /\ queue # <<>> /\ Head(queue) = Spoiled
  /\ queue' = Tail(queue)
  /\ UNCHANGED <<arrived, sent>>

Spoil(i) ==
  /\ queue' = [queue EXCEPT ![i] = Spoiled]
  /\ UNCHANGED <<arrived, sent>>

Clear ==
  /\ queue' = <<>>
  /\ UNCHANGED <<arrived, sent>>

Next == Accept \/ Forward \/ Discard \/ Clear \/ \E i \in 1 .. Len(queue) : Spoil(i)

Spec == Init /\ [][Next]_vars
=============================================================================
