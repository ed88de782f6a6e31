----------------------------- MODULE MCEmulator -----------------------------
(***************************************************************************)
(* The emulated processor: its exceptions and interrupts ("core"), or      *)
(* programs for its instructions ("thumb").                                *)
(***************************************************************************)
EXTENDS EmuCore, MCEmuThumb
VARIABLE machine
\* SVC, SysTick and the first of two interrupts have handlers.
MCValid == {11, 15, 16}

emulatorVars == <<machine, vars, thumbVars>>
EmulatorInit == /\ Init /\ ThumbInit
                /\ \/ machine = "core" /\ program = NoEnd
                   \/ machine = "thumb"
Core(A) == machine = "core" /\ A /\ UNCHANGED <<machine, thumbVars>>
EmulatorNext ==
  \/ Core(Next)
  \/ machine = "thumb" /\ ThumbNext /\ UNCHANGED <<machine, vars>>
\* The fairness of EmuCore.
EmulatorSpec == /\ EmulatorInit /\ [][EmulatorNext]_emulatorVars
                /\ WF_emulatorVars(Core(Next)) /\ WF_emulatorVars(Core(Return))

\* Every opcode of one halfword is decoded to the instruction the manual gives
\* it, and an instruction does to registers, flags and memory what the manual
\* says, also in the sequence of the library's division: EmuThumb.
StepsAsManual == DecodesAsManual /\ ExecutesAsManual /\ LibraryDivides
=============================================================================
