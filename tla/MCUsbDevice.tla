---------------------------- MODULE MCUsbDevice -----------------------------
(* Small instances of UsbDevice: MCUsbDevice.cfg, MCUsbDeviceGate.cfg. *)
EXTENDS UsbDevice
=============================================================================
