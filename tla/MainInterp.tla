------------------------------ MODULE MainInterp ------------------------------
(***************************************************************************)
(* The emulator built with -DCPU_INTERP: the main loop around Interp.      *)
(***************************************************************************)
EXTENDS Interp, MainLoop

loopedVars == <<vars, loopVars>>

LoopedInit == Init /\ LoopInit

PostEvent == (\E event \in Events : Post(event)) /\ UNCHANGED vars

PollStep == status = "running" /\ Poll /\ UNCHANGED vars

\* cpuInterpStep executes one instruction and returns.
InterpStep == Next /\ EngineStep(TRUE)

LoopedNext == PostEvent \/ PollStep \/ InterpStep

\* The loop never waits for anything; nothing is assumed of the events.
LoopedSpec ==
    LoopedInit /\ [][LoopedNext]_loopedVars /\ WF_loopedVars(PollStep \/ InterpStep)

\* A request to close the window is honoured whatever the program does, endless
\* loops included: the loop is left, or the process has ended before (exit(1)
\* or undefined behaviour).
QuitServed == QuitWaits ~> (at = "over" \/ status # "running")

=============================================================================
