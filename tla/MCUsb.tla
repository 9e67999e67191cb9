------------------------------- MODULE MCUsb ---------------------------------
(***************************************************************************)
(* The two pipes of the USB core for model checking: a run explores the    *)
(* bulk pipe, with the control pipe as its disturbance, or the control     *)
(* pipe, with the bulk pipe as its disturbance.                            *)
(***************************************************************************)
EXTENDS MCUsbBulk, CtrlEndp

VARIABLE pipe

PipesInit == pipe \in Endpoints /\ Init /\ CtrlInit

\* Faults and control transactions together disturb the bulk pipe MaxFaults times.
BulkPipe == /\ pipe = "bulk" /\ Next /\ faults'.count + ctrls' <= MaxFaults
            /\ UNCHANGED <<pipe, ctrlVars>>
CtrlPipe == pipe = "ctrl" /\ CtrlNext /\ UNCHANGED <<pipe, vars>>

PipesNext == BulkPipe \/ CtrlPipe
PipesSpec == PipesInit /\ [][PipesNext]_<<pipe, vars, ctrlVars>>
=============================================================================
