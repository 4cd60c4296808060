------------------------------ MODULE AdcUnits ------------------------------
(***************************************************************************)
(* runtime.mod/native/esp32_adc.c and esp32_random.c: ADC units opened for *)
(* the first pin and closed after the last, and the internal entropy       *)
(* source, which needs the same hardware and excludes them.                *)
(*                                                                         *)
(* A pin is its unit and its channel on it.  One task calls these          *)
(* functions, so that each is a step; a call that changes nothing is none. *)
(* Any call of the ADC driver may fail, and then changes nothing.          *)
(***************************************************************************)
EXTENDS Integers

CONSTANTS
  Units,         \* SOC_ADC_PERIPH_NUM
  AdcChannels,   \* SOC_ADC_MAX_CHANNEL_NUM
  NAttenuations  \* SOC_ADC_ATTEN_NUM

ASSUME AdcAssumption == NAttenuations \in 1 .. 4

VARIABLES
  opened,       \* the units with a handle in bmx_esp32_adc_units
  configured,   \* the pins set in bmx_esp32_adc_configured
  attenuation,  \* bmx_esp32_adc_attenuation
  calibration,  \* the attenuation a pin's calibration was made for, or None
  native,       \* the attenuation the driver uses for a pin, or None
  entropy       \* bmx_esp32_internal_entropy_enabled

adcVars == <<opened, configured, attenuation, calibration, native, entropy>>

Attenuations == 0 .. NAttenuations - 1
None == -1

\* Fault: one more than the chip has.
Fault_DefaultAttenuation == NAttenuations

\* bmx_esp32_adc_default_attenuation: the highest the chip has.
DefaultAttenuation == NAttenuations - 1

Inputs == Units \X AdcChannels
UnitOf(p) == p[1]

----------------------------------------------------------------------------
(* bmx_embedded_adc_init_pin; a pin that is configured already is left alone. *)

\* Fault: the entropy source is not asked about.
Fault_MayInit(p) == p \notin configured

MayInit(p) == ~entropy /\ p \notin configured

\* bmx_esp32_adc_configure, when it succeeds.
Configure(p, a) ==
  /\ attenuation' = [attenuation EXCEPT ![p] = a]
  /\ native' = [native EXCEPT ![p] = a]

AdcInitPin(p) ==
  /\ MayInit(p)
  /\ opened' = opened \cup {UnitOf(p)}
  /\ configured' = configured \cup {p}
  /\ Configure(p, DefaultAttenuation)
  /\ UNCHANGED <<calibration, entropy>>

\* The unit is opened, but the channel cannot be configured.
InitConfigFails(p) ==
  /\ MayInit(p)
  /\ opened' = opened \cup {UnitOf(p)}
  /\ UNCHANGED <<configured, attenuation, calibration, native, entropy>>

----------------------------------------------------------------------------
(* bmx_embedded_adc_deinit_pin. *)

\* Fault: the unit is taken to be unused when the pin is its first.
Fault_LastOnUnit(p) == \A q \in configured : UnitOf(q) = UnitOf(p) => p[2] <= q[2]

\* No other pin of the unit is configured.
LastOnUnit(p) == \A q \in configured \ {p} : UnitOf(q) # UnitOf(p)

\* The driver forgets a unit's channels with the unit.
AdcDeinitPin(p) ==
  /\ p \in configured
  /\ calibration' = [calibration EXCEPT ![p] = None]
  /\ configured' = configured \ {p}
  /\ IF LastOnUnit(p)
     THEN /\ opened' = opened \ {UnitOf(p)}
          /\ native' = [q \in Inputs |->
               IF UnitOf(q) = UnitOf(p) THEN None ELSE native[q]]
     ELSE UNCHANGED <<opened, native>>
  /\ UNCHANGED <<attenuation, entropy>>

\* adc_oneshot_del_unit fails: the pin stays configured, uncalibrated.
DeinitFails(p) ==
  /\ p \in configured
  /\ LastOnUnit(p)
  /\ calibration' = [calibration EXCEPT ![p] = None]
  /\ UNCHANGED <<opened, configured, attenuation, native, entropy>>

----------------------------------------------------------------------------
\* Fault: the calibration is kept.
Fault_KeepCalibration(p, a) ==
  /\ ~entropy
  /\ p \in configured
  /\ Configure(p, a)
  /\ UNCHANGED <<opened, configured, calibration, entropy>>

\* bmx_esp32_adc_set_attenuation.
SetAttenuation(p, a) ==
  /\ ~entropy
  /\ p \in configured
  /\ Configure(p, a)
  /\ calibration' = [calibration EXCEPT ![p] = None]
  /\ UNCHANGED <<opened, configured, entropy>>

\* bmx_esp32_adc_read_millivolts makes the calibration the first time; whether
\* the reading then succeeds changes nothing.
ReadMillivolts(p) ==
  /\ ~entropy
  /\ p \in configured
  /\ calibration[p] = None
  /\ calibration' = [calibration EXCEPT ![p] = attenuation[p]]
  /\ UNCHANGED <<opened, configured, attenuation, native, entropy>>

----------------------------------------------------------------------------
(* bmx_esp32_random_enable_internal_entropy and _disable_. *)

EnableEntropy ==
  /\ ~entropy
  /\ opened = {}
  /\ entropy' = TRUE
  /\ UNCHANGED <<opened, configured, attenuation, calibration, native>>

DisableEntropy ==
  /\ entropy
  /\ entropy' = FALSE
  /\ UNCHANGED <<opened, configured, attenuation, calibration, native>>

----------------------------------------------------------------------------
AdcInit ==
  /\ opened = {}
  /\ configured = {}
  /\ attenuation = [p \in Inputs |-> 0]
  /\ calibration = [p \in Inputs |-> None]
  /\ native = [p \in Inputs |-> None]
  /\ entropy = FALSE

AdcNext ==
  \/ \E p \in Inputs :
       \/ AdcInitPin(p) \/ InitConfigFails(p)
       \/ AdcDeinitPin(p) \/ DeinitFails(p)
       \/ ReadMillivolts(p)
       \/ \E a \in Attenuations : SetAttenuation(p, a)
  \/ EnableEntropy \/ DisableEntropy

AdcSpec == AdcInit /\ [][AdcNext]_adcVars

----------------------------------------------------------------------------
(* Properties. *)

AdcTypeOK ==
  /\ opened \subseteq Units
  /\ configured \subseteq Inputs
  /\ attenuation \in [Inputs -> Attenuations]
  /\ calibration \in [Inputs -> Attenuations \cup {None}]
  /\ native \in [Inputs -> Attenuations \cup {None}]
  /\ entropy \in BOOLEAN

\* The entropy source and an ADC unit never use the hardware both, whichever
\* of the two files is asked first, and after any failure.
EntropyExclusive == entropy => opened = {}

\* A configured pin can be read at the attenuation the program was told: its
\* unit is open, and the driver has that attenuation.
ConfiguredReadable ==
  \A p \in configured : UnitOf(p) \in opened /\ native[p] = attenuation[p]

\* A reading is converted with a calibration for the attenuation it was taken
\* at: no calibration outlives its attenuation or its pin.
CalibrationMatches ==
  \A p \in Inputs : calibration[p] # None =>
    p \in configured /\ calibration[p] = native[p]

\* What the ADC keeps beside its pins, its claim to the hardware and its
\* calibrations, never outlives what it was made for.
AdcHonest == EntropyExclusive /\ CalibrationMatches

\* docs/runtime-integration.md:56-57: "Make initialization and teardown
\* repeatable, including partial-failure cleanup."  A unit is open only for a
\* configured pin; one that is not cannot be closed, and keeps the entropy
\* source off.
UnitsCleanedUp == \A u \in opened : \E p \in configured : UnitOf(p) = u
=============================================================================
