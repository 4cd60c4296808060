----------------------------- MODULE Peripherals -----------------------------
(***************************************************************************)
(* The peripherals driven by one task: PWM, and ADC with the entropy       *)
(* source.  They share no state, and what one does neither enables nor     *)
(* disables the other; a program that uses one of them therefore shows all *)
(* that either does.                                                       *)
(***************************************************************************)
EXTENDS PwmChannels, AdcUnits

VARIABLE used  \* the peripheral the program uses

vars == <<used, pwmVars, adcVars>>

Init ==
  /\ used \in {"pwm", "adc"}
  /\ PwmInit
  /\ AdcInit

Next ==
  \/ used = "pwm" /\ PwmNext /\ UNCHANGED <<used, adcVars>>
  \/ used = "adc" /\ AdcNext /\ UNCHANGED <<used, pwmVars>>

Spec == Init /\ [][Next]_vars

\* The state has the types the code declares, and the hardware does what the
\* program was told: the pins of PWM, the inputs of the ADC.
SettingsShown == PwmTypeOK /\ AdcTypeOK /\ PinsShowSettings /\ ConfiguredReadable
=============================================================================
