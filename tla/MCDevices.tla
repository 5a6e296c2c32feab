----------------------------- MODULE MCDevices ------------------------------
(***************************************************************************)
(* Instances for TLC of module Devices: three threads, of which one reads  *)
(* from the serial port and the others write to it, two sleep, and all     *)
(* three print on the console, one of them as the kernel.  Words are of    *)
(* one bit, so that ticks carries at its second tick.                      *)
(***************************************************************************)
EXTENDS Devices, TLC

CONSTANTS T1, T2, T3
=============================================================================
