----------------------------- MODULE MCUsbMonitor -----------------------------
(* UsbMonitor on small instances. *)
EXTENDS UsbMonitor, TLC
=============================================================================
