----------------------------- MODULE MCUsbManager -----------------------------
\* Instances of UsbManager for TLC: the devices are model values.
EXTENDS UsbManager
===============================================================================
