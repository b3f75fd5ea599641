-------------------------- MODULE AdmissionAbstract --------------------------
(***************************************************************************)
(* What the gateway's admission core promises about external calls, with  *)
(* threads, workers, shared memory and the discarded list forgotten        *)
(* (spec.md 3 invariants 2-3, 4.1 admission and completion, 8 FIFO):       *)
(*  - a call is admitted at once when the cap allows it, else it is queued;*)
(*  - calls leave the queue only from its head, and only into a free slot; *)
(*  - an admitted call holds its slot until it is released, never twice;   *)
(*  - a call is answered once it has arrived and is no longer queued.      *)
(* Release and answer are separate steps: the code answers a failed        *)
(* dispatch before erasing it, and a completed call after removing it.     *)
(***************************************************************************)
EXTENDS Naturals, Sequences, FiniteSets, SequencesExt

CONSTANTS Calls, Cap

VARIABLES
  queue,     \* calls admitted but waiting for a slot, oldest first
  admitted,  \* calls holding a slot
  answered,  \* calls whose response has been finalized
  seen       \* calls that have arrived

avars == <<queue, admitted, answered, seen>>

Room(a) == IF Cap = 0 THEN Len(queue) ELSE Cap - Cardinality(a)

AInit ==
  /\ queue = <<>> /\ admitted = {} /\ answered = {} /\ seen = {}

\* A new call takes a slot if the cap allows, else joins the queue's tail.
AArrive(c) ==
  /\ c \notin seen
  /\ seen' = seen \cup {c}
  /\ IF Cap = 0 \/ Cardinality(admitted) < Cap
       THEN admitted' = admitted \cup {c} /\ UNCHANGED queue
       ELSE queue' = Append(queue, c) /\ UNCHANGED admitted
  /\ UNCHANGED answered

\* Some admitted calls give up their slots, and the first n queued calls
\* take free slots, in queue order.
ASettle(R, n) ==
  /\ R \subseteq admitted
  /\ n <= Len(queue) /\ n <= Room(admitted \ R)
  /\ admitted' = (admitted \ R) \cup ToSet(SubSeq(queue, 1, n))
  /\ queue' = SubSeq(queue, n + 1, Len(queue))
  /\ UNCHANGED <<answered, seen>>

\* Responses are finalized for arrived, unanswered calls that are not queued.
AAnswer(S) ==
  /\ S # {}
  /\ S \subseteq seen \ answered
  /\ \A c \in S : ~Contains(queue, c)
  /\ answered' = answered \cup S
  /\ UNCHANGED <<queue, admitted, seen>>

ANext ==
  \/ \E c \in Calls : AArrive(c)
  \/ \E R \in SUBSET admitted, n \in 0..Len(queue) : ASettle(R, n)
  \/ \E S \in SUBSET Calls : AAnswer(S)

ASpec == AInit /\ [][ANext]_avars
=============================================================================
