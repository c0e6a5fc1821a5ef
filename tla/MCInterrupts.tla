---------------------------- MODULE MCInterrupts ----------------------------
(* Sources of all three enable registers of the controller: SYSTEM_TIMER_1, *)
(* USB_CONTROLER, one of the second GPU register and ARM_TIMER.             *)
EXTENDS Interrupts

MCSources == {1, 9, 57, 64}
MCNoisy == {9, 57}
=============================================================================
