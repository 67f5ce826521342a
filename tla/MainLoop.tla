------------------------------- MODULE MainLoop -------------------------------
(***************************************************************************)
(* The loop of src/emu/src/main.c: take one event off SDL's queue, leave if  *)
(* it is SDL_QUIT, run the engine, repeat.  This module has the loop's own   *)
(* state; MainInterp and MainJit compose it with the two engines.           *)
(***************************************************************************)
EXTENDS Integers, Sequences

CONSTANT MaxEvents   \* bound on the events that wait in SDL's queue

ASSUME MaxEventsAssumption == MaxEvents \in Nat \ {0}

VARIABLES
    queue,   \* SDL's event queue, oldest first
    at       \* "poll", "engine", or "over" once the loop was left

loopVars == <<queue, at>>

Events == {"quit", "other"}

LoopInit == queue = <<>> /\ at = "poll"

\* The window system posts an event, at any time.
Post(event) ==
    /\ at # "over" /\ Len(queue) < MaxEvents
    /\ queue' = Append(queue, event)
    /\ at' = at

Served(event) == IF event = "quit" THEN "over" ELSE "engine"

\* Faulty variant of PollEvent: the events behind the first are thrown away.
PollEventFlushing ==
    /\ at = "poll" /\ queue # <<>>
    /\ at' = Served(Head(queue))
    /\ queue' = <<>>

PollEvent ==
    /\ at = "poll" /\ queue # <<>>
    /\ at' = Served(Head(queue))
    /\ queue' = Tail(queue)

\* SDL_PollEvent writes nothing when no event waits: e.type is then whatever the
\* uninitialized local holds.
PollNothing ==
    /\ at = "poll" /\ queue = <<>>
    /\ \E event \in Events : at' = Served(event)
    /\ UNCHANGED queue

Poll == PollEvent \/ PollNothing

\* The engine is called, or goes on; back tells whether it returns to the loop.
EngineStep(back) ==
    /\ at = "engine"
    /\ at' = IF back THEN "poll" ELSE "engine"
    /\ UNCHANGED queue

QuitWaits == \E k \in 1..Len(queue) : queue[k] = "quit"

=============================================================================
