------------------------------ MODULE Machine ------------------------------
(***************************************************************************)
(* The machine from power-on to a trap in the running kernel: Boot sets up *)
(* the tables through which TrapEntry is entered.  Nothing of the kernel   *)
(* runs while a trap is being handled.                                     *)
(***************************************************************************)
EXTENDS Boot, TrapEntry

machineVars == <<bootVars, vars>>

MachineInit == BootInit /\ Init

booting ==
    /\ pc \in {"running", "returned"}
    /\ BootNext
    /\ UNCHANGED vars

\* The shell is interrupted or faults: the CPU follows the gate of the vector
\* and clears the interrupt flag; a gate that does not lead to the stub is a
\* triple fault.
trap(v) ==
    /\ at = "shell"
    /\ IF Reaches(v)
         THEN cpu_trap(v)
         ELSE /\ pc = "running" /\ pc' = "astray"
              /\ UNCHANGED <<vector, depth, reg, stack, rdi, printed>>
    /\ interrupts' = FALSE
    /\ UNCHANGED settled

\* The stub and isr_common; iretq brings back the flag.
handling ==
    /\ isr_common
    /\ interrupts' = (interrupts \/ pc' = "returned")
    /\ UNCHANGED settled

MachineNext == booting \/ (\E v \in Vectors : trap(v)) \/ handling

\* The processor goes on, and so does a BIOS call.
MachineSpec == MachineInit /\ [][MachineNext]_machineVars
                 /\ WF_machineVars(Load /\ UNCHANGED vars)
                 /\ WF_machineVars(kernel_main /\ UNCHANGED vars)
=============================================================================
