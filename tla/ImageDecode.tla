------------------------------ MODULE ImageDecode ------------------------------
(***************************************************************************)
(* The bounded image decoder (rust/crates/hx-image-decode): the few slots   *)
(* that decodes share (slots.rs) and the life of one decode (decode.rs),    *)
(* from the call that asks for it to its callback.                          *)
(*                                                                          *)
(* Everything runs on the main loop; the hand-over of a slot is in two      *)
(* steps, the grant and the poll of the waiter it wakes, and between the    *)
(* two the waiter may be cancelled or dropped.                              *)
(***************************************************************************)
EXTENDS Naturals, Sequences, FiniteSets

CONSTANTS
    Decodes,       \* the calls of decode_async
    MaxInFlight    \* MAX_IN_FLIGHT

ASSUME LimitAssumption == MaxInFlight \in Nat \ {0}

VARIABLES
    slots,       \* SLOTS: [inFlight, queue], the waiters in the order they came
    granted,     \* waiters handed a slot they have not yet looked at
    stage,       \* how far each decode's future is
    due,         \* futures the main loop is to poll
    cancelled,   \* decodes whose token is cancelled
    answered     \* decodes whose callback has run

vars == <<slots, granted, stage, due, cancelled, answered>>

Stages == {"none", "spawned", "waiting", "decoding", "done"}

Init ==
    /\ slots = [inFlight |-> 0, queue |-> <<>>]
    /\ granted = {}
    /\ stage = [d \in Decodes |-> "none"]
    /\ due = {} /\ cancelled = {} /\ answered = {}

-----------------------------------------------------------------------------
(* The slots.                                                               *)

Free == slots.inFlight < MaxInFlight

Taken == [slots EXCEPT !.inFlight = @ + 1]
Queued(d) == [slots EXCEPT !.queue = Append(@, d)]

\* release: the slot passes to the longest waiter, or is freed.
Released(s) ==
    IF s.queue = <<>> THEN [s EXCEPT !.inFlight = @ - 1]
                      ELSE [s EXCEPT !.queue = Tail(@)]
Handed(s) == IF s.queue = <<>> THEN {} ELSE {Head(s.queue)}

\* The slots s are released by d, whose future ends: the waiter is woken.
EndsReleasing(d, s) ==
    /\ slots' = Released(s)
    /\ granted' = (granted \ {d}) \cup Handed(s)
    /\ due' = (due \ {d}) \cup Handed(s)
    /\ stage' = [stage EXCEPT ![d] = "done"]

-----------------------------------------------------------------------------
(* One decode.                                                              *)

\* decode_async refuses at once, by size or by format, and has no token.
Refuse(d) ==
    /\ stage[d] = "none"
    /\ stage' = [stage EXCEPT ![d] = "done"]
    /\ answered' = answered \cup {d}
    /\ UNCHANGED <<slots, granted, due, cancelled>>

Spawn(d) ==
    /\ stage[d] = "none"
    /\ stage' = [stage EXCEPT ![d] = "spawned"]
    /\ due' = due \cup {d}
    /\ UNCHANGED <<slots, granted, cancelled, answered>>

\* Past acquire, holding one of the slots s: a decode cancelled while it
\* waited is skipped.
Start(d, s) ==
    \/ /\ d \in cancelled
       /\ EndsReleasing(d, s)
    \/ /\ d \notin cancelled
       /\ slots' = s
       /\ granted' = granted \ {d}
       /\ due' = due \ {d}
       /\ stage' = [stage EXCEPT ![d] = "decoding"]

\* The future's first poll: a free slot, or a place in the queue.
PollFirst(d) ==
    /\ d \in due
    /\ stage[d] = "spawned"
    /\ \/ Free /\ Start(d, Taken)
       \/ /\ ~Free
          /\ slots' = Queued(d)
          /\ stage' = [stage EXCEPT ![d] = "waiting"]
          /\ due' = due \ {d}
          /\ UNCHANGED granted
    /\ UNCHANGED <<cancelled, answered>>

\* The poll after the wake: the slot is there.
PollGranted(d) ==
    /\ d \in due
    /\ stage[d] = "waiting"
    /\ d \in granted
    /\ Start(d, slots)
    /\ UNCHANGED <<cancelled, answered>>

\* Mutated form of Answers: the token is not looked at again.
AnswersAnyway(d) == answered' = answered \cup {d}

\* The callback runs unless its owner has cancelled meanwhile.
Answers(d) == answered' = IF d \in cancelled THEN answered ELSE answered \cup {d}

Settles(d) ==
    /\ stage[d] = "decoding"
    /\ Answers(d)
    /\ EndsReleasing(d, slots)
    /\ UNCHANGED cancelled

\* The loader answers, with an image or an error.
LoaderAnswers(d) == Settles(d)

\* Mutated form of Deadline: a loader that never answers is waited for.
DeadlineNever(d) == FALSE /\ UNCHANGED vars

\* DECODE_DEADLINE passes: the decode fails.
Deadline(d) == Settles(d)

\* inline_media_decode_cancel, once a token was given.
CancelDecode(d) ==
    /\ stage[d] \in {"spawned", "waiting", "decoding"}
    /\ d \notin cancelled
    /\ cancelled' = cancelled \cup {d}
    /\ UNCHANGED <<slots, granted, stage, due, answered>>

\* q without its i-th waiter.
Without(q, i) == [j \in 1 .. Len(q) - 1 |-> IF j < i THEN q[j] ELSE q[j + 1]]

\* Mutated form of DropWaiting: a granted slot goes with its waiter.
DropWaitingLeaks(d) ==
    /\ stage[d] = "waiting"
    /\ \/ /\ d \in granted
          /\ granted' = granted \ {d}
          /\ UNCHANGED slots
       \/ /\ d \notin granted
          /\ \E i \in 1 .. Len(slots.queue) :
                /\ slots.queue[i] = d
                /\ slots' = [slots EXCEPT !.queue = Without(@, i)]
          /\ UNCHANGED granted
    /\ due' = due \ {d}
    /\ stage' = [stage EXCEPT ![d] = "done"]
    /\ UNCHANGED <<cancelled, answered>>

\* A wait given up (Acquire's drop): leave the queue, or pass on a slot
\* already handed over.
DropWaiting(d) ==
    /\ stage[d] = "waiting"
    /\ \/ d \in granted /\ EndsReleasing(d, slots)
       \/ /\ d \notin granted
          /\ \E i \in 1 .. Len(slots.queue) :
                /\ slots.queue[i] = d
                /\ slots' = [slots EXCEPT !.queue = Without(@, i)]
          /\ stage' = [stage EXCEPT ![d] = "done"]
          /\ UNCHANGED <<granted, due>>
    /\ UNCHANGED <<cancelled, answered>>

\* A decode's future dropped while it holds its slot (Slot's drop).
DropDecoding(d) ==
    /\ stage[d] = "decoding"
    /\ EndsReleasing(d, slots)
    /\ UNCHANGED <<cancelled, answered>>

\* A future dropped before its first poll.
DropSpawned(d) ==
    /\ stage[d] = "spawned"
    /\ stage' = [stage EXCEPT ![d] = "done"]
    /\ due' = due \ {d}
    /\ UNCHANGED <<slots, granted, cancelled, answered>>

Next ==
    \E d \in Decodes :
        \/ Refuse(d) \/ Spawn(d) \/ PollFirst(d) \/ PollGranted(d)
        \/ LoaderAnswers(d) \/ Deadline(d)
        \/ CancelDecode(d) \/ DropSpawned(d) \/ DropWaiting(d) \/ DropDecoding(d)

Spec == Init /\ [][Next]_vars

\* The main loop polls what is due and the deadline's timer fires; the loader
\* owes nothing.
Fairness ==
    \A d \in Decodes :
        WF_vars(PollFirst(d)) /\ WF_vars(PollGranted(d)) /\ WF_vars(Deadline(d))

FairSpec == Spec /\ Fairness

-----------------------------------------------------------------------------
\* Every variable has its type; no more decodes than MAX_IN_FLIGHT run.
TypeOK ==
    /\ slots \in [inFlight : 0 .. MaxInFlight, queue : Seq(Decodes)]
    /\ granted \subseteq Decodes
    /\ stage \in [Decodes -> Stages]
    /\ due \subseteq Decodes /\ cancelled \subseteq Decodes /\ answered \subseteq Decodes

Holding == granted \cup {d \in Decodes : stage[d] = "decoding"}

\* in_flight counts the slots there are: the ones decodes hold and the ones
\* on their way to a waiter.  None leaks and none is freed twice, whoever is
\* cancelled or dropped in between.
SlotsAccounted == slots.inFlight = Cardinality(Holding)

\* Nobody waits while a slot is free, so a newcomer that finds one overtakes
\* nobody.
NoIdleSlot == slots.queue # <<>> => slots.inFlight = MaxInFlight

\* Every waiter is in the queue, once, or has been granted a slot and will be
\* polled: no wake-up is lost and the dead are not waited for.
WaitersAreKnown ==
    /\ \A d \in Decodes :
          stage[d] = "waiting" <=>
              (d \in granted \/ \E i \in 1 .. Len(slots.queue) : slots.queue[i] = d)
    /\ \A i \in 1 .. Len(slots.queue) : slots.queue[i] \notin granted
    /\ \A i, j \in 1 .. Len(slots.queue) : slots.queue[i] = slots.queue[j] => i = j
    /\ granted \subseteq due

\* Slots go to decodes in the order they asked: the step that gives one to a
\* waiter leaves nobody ahead of it in the queue.
ServesInOrder ==
    \A i \in 1 .. Len(slots.queue) :
        slots.queue[i] \in granted' => \A j \in 1 .. i - 1 : slots.queue[j] \in granted'

\* Once its owner has cancelled, a decode's callback never runs: the owner's
\* user_data may be gone.
CallsNoCancelled == (answered' \ answered) \cap cancelled = {}

\* Every decode that was started ends, though a loader may never answer.
EveryDecodeEnds == \A d \in Decodes : stage[d] = "spawned" ~> stage[d] = "done"

\* The slots are shared without loss: each one in use is counted once, none is
\* free while somebody waits, and whoever waits is queued or about to be polled.
SlotsAreShared == TypeOK /\ SlotsAccounted /\ NoIdleSlot /\ WaitersAreKnown

\* Decodes are served in their turn, and a cancelled one calls nobody back.
DecodesAreServed == [][ServesInOrder /\ CallsNoCancelled]_vars
=============================================================================
