----------------------------- MODULE MCUsbHost ------------------------------
(***************************************************************************)
(* Small instances of UsbHost for TLC: two addresses, a settle time of one *)
(* unit and a clock that starts again after three.                          *)
(***************************************************************************)
EXTENDS UsbHost, TLC

AllKinds == {"keyboard", "mouse", "storage"}
=============================================================================
