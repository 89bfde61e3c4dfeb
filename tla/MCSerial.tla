------------------------------ MODULE MCSerial ------------------------------
(***************************************************************************)
(* Small instances, for TLC, of the two ways in which characters reach the *)
(* pipes: the circular buffers of the character devices (CharDev), and the *)
(* usb-serial device (UsbDevice).  A behaviour is one of one of them.      *)
(***************************************************************************)
EXTENDS CharDev, UsbDevice

VARIABLE part   \* which of the two

MCDescriptors ==
    (<<"device", 0>> :> 3) @@ (<<"config", 0>> :> 4) @@ (<<"string", 0>> :> 2)

SerialInit == part \in {"chardev", "usb"} /\ Init /\ UsbInit

SerialNext ==
    \/ part = "chardev" /\ Next /\ UNCHANGED <<usbvars, part>>
    \/ part = "usb" /\ UsbNext /\ UNCHANGED <<vars, part>>

SerialSpec == SerialInit /\ [][SerialNext]_<<vars, usbvars, part>>
=============================================================================
