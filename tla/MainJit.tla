------------------------------- MODULE MainJit -------------------------------
(***************************************************************************)
(* The emulator built with -DCPU_JIT: the main loop around Jit.            *)
(***************************************************************************)
EXTENDS Jit, MainLoop

loopedVars == <<vars, loopVars>>

LoopedInit == Init /\ LoopInit

PostEvent == (\E event \in Events : Post(event)) /\ UNCHANGED vars

PollStep == status = "running" /\ Poll /\ UNCHANGED vars

\* cpuJitRun returns to the loop when it has interpreted the end of a block.
JitStep == Next /\ EngineStep(phase # "main" /\ phase' = "main")

LoopedNext == PostEvent \/ PollStep \/ JitStep

LoopedSpec ==
    LoopedInit /\ [][LoopedNext]_loopedVars /\ WF_loopedVars(PollStep \/ JitStep)

\* A request to close the window is honoured, or the process has ended before.
\* It takes a program whose every endless loop passes a skip, an indexed jump
\* or a sprite: cpuJitRun returns to main nowhere else.
QuitServed == QuitWaits ~> (at = "over" \/ status # "running")

=============================================================================
