------------------------------ MODULE MCBleHost ------------------------------
EXTENDS BleHost
=============================================================================
