---------------------------- MODULE MCPeripherals ----------------------------
EXTENDS Peripherals, TLC

MCBits == <<1, 2, 2, 0>>
MCSymmetry == Permutations(Pins) \cup Permutations(Units)
=============================================================================
