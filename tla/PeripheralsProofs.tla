-------------------------- MODULE PeripheralsProofs --------------------------
(***************************************************************************)
(* The ADC invariants, for any number of units, channels and attenuations; *)
(* the reference counts of the PWM timers, and what the PWM pins show, for *)
(* any number of channels, timers, pins and frequencies.                   *)
(***************************************************************************)
EXTENDS Peripherals, FiniteSetTheorems, TLAPS

AdcInv ==
  /\ AdcTypeOK
  /\ EntropyExclusive
  /\ ConfiguredReadable
  /\ CalibrationMatches

(***************************************************************************)
(* The four invariants of the ADC and the entropy source hold together:    *)
(* an action that may open a unit asks for the entropy flag, enabling the  *)
(* source for the handles, and whatever changes an attenuation or closes a *)
(* unit deletes the calibrations made for it.                              *)
(***************************************************************************)
LEMMA AdcInitially == AdcInit => AdcInv
<1> SUFFICES ASSUME AdcInit PROVE AdcInv
  OBVIOUS
<1>1. 0 \in Attenuations
  BY AdcAssumption DEF Attenuations
<1>2. AdcTypeOK
  BY <1>1 DEF AdcInit, AdcTypeOK
<1>3. EntropyExclusive /\ ConfiguredReadable /\ CalibrationMatches
  BY DEF AdcInit, EntropyExclusive, ConfiguredReadable, CalibrationMatches
<1> QED
  BY <1>2, <1>3 DEF AdcInv

LEMMA AdcStep == AdcInv /\ [AdcNext]_adcVars => AdcInv'
<1> SUFFICES ASSUME AdcInv, [AdcNext]_adcVars
             PROVE  AdcInv'
  OBVIOUS
<1> USE AdcAssumption DEF AdcInv, AdcTypeOK, EntropyExclusive, ConfiguredReadable,
        CalibrationMatches, Attenuations, None
<1>1. ASSUME NEW p \in Inputs, AdcInitPin(p)
      PROVE  AdcInv'
  <2>1. UnitOf(p) \in Units
    BY DEF Inputs, UnitOf
  <2> QED
    BY <1>1, <2>1 DEF AdcInitPin, MayInit, Configure, DefaultAttenuation
<1>2. ASSUME NEW p \in Inputs, InitConfigFails(p)
      PROVE  AdcInv'
  <2>1. UnitOf(p) \in Units
    BY DEF Inputs, UnitOf
  <2> QED
    BY <1>2, <2>1 DEF InitConfigFails, MayInit
<1>3. ASSUME NEW p \in Inputs, AdcDeinitPin(p)
      PROVE  AdcInv'
  BY <1>3 DEF AdcDeinitPin, LastOnUnit
<1>4. ASSUME NEW p \in Inputs, DeinitFails(p)
      PROVE  AdcInv'
  BY <1>4 DEF DeinitFails
<1>5. ASSUME NEW p \in Inputs, NEW a \in Attenuations, SetAttenuation(p, a)
      PROVE  AdcInv'
  BY <1>5 DEF SetAttenuation, Configure
<1>6. ASSUME NEW p \in Inputs, ReadMillivolts(p)
      PROVE  AdcInv'
  BY <1>6 DEF ReadMillivolts
<1>7. CASE EnableEntropy
  BY <1>7 DEF EnableEntropy
<1>8. CASE DisableEntropy
  BY <1>8 DEF DisableEntropy
<1>9. CASE UNCHANGED adcVars
  BY <1>9 DEF adcVars
<1> QED
  BY <1>1, <1>2, <1>3, <1>4, <1>5, <1>6, <1>7, <1>8, <1>9 DEF AdcNext

LEMMA AdcAlways == Spec => []AdcInv
<1>1. Init => AdcInit
  BY DEF Init
<1>2. [Next]_vars => [AdcNext]_adcVars
  BY DEF Next, vars
<1> QED
  BY AdcInitially, AdcStep, <1>1, <1>2, PTL DEF Spec

\* The entropy source and an ADC unit never use the hardware both, and no
\* reading is converted with a calibration made for another attenuation.
THEOREM AdcIsHonest == Spec => []AdcHonest
<1>1. AdcInv => AdcHonest
  BY DEF AdcInv, AdcHonest
<1> QED
  BY AdcAlways, <1>1, PTL
----------------------------------------------------------------------------
(***************************************************************************)
(* PWM.  Channels never share a pin, an output shows its channel's pin, and*)
(* each timer counts the channels on it.                                   *)
(***************************************************************************)
PwmInv ==
  /\ channel \in [Channels -> ChannelState]
  /\ timer \in [Timers -> TimerState]
  /\ out \in [Channels -> OutputState]
  /\ \A c, d \in Channels :
       channel[c].pin # NoPin /\ channel[d].pin = channel[c].pin => d = c
  /\ \A c \in Channels : out[c].pin # NoPin => channel[c].pin = out[c].pin
  /\ TimersCounted

LEMMA ChannelsFinite ==
  \A t : IsFiniteSet(On(t)) /\ Cardinality(On(t)) \in Nat
<1>1. IsFiniteSet(Channels)
  BY PwmAssumption, FS_Interval DEF Channels
<1>2. \A t : On(t) \subseteq Channels
  BY DEF On
<1> QED
  BY <1>1, <1>2, FS_Subset, FS_CardinalityType

LEMMA ChannelOfDriven ==
  ASSUME NEW p \in Driven
  PROVE  ChannelOf(p) \in Channels /\ channel[ChannelOf(p)].pin = p
BY DEF Driven, ChannelOf

\* A channel's new setting, with its pin and its timer kept, counts the same.
LEMMA CountsKept ==
  ASSUME PwmInv,
         channel' \in [Channels -> ChannelState],
         timer' \in [Timers -> TimerState],
         \A c \in Channels : /\ channel'[c].pin = channel[c].pin
                             /\ channel'[c].timer = channel[c].timer,
         \A t \in Timers : /\ timer'[t].references = timer[t].references
                           /\ timer'[t].used = timer[t].used
  PROVE  TimersCounted'
<1>1. \A t : On(t)' = On(t)
  BY DEF On
<1> QED
  BY <1>1 DEF TimersCounted, PwmInv

LEMMA LevelType ==
  ASSUME NEW s \in ChannelState
  PROVE  NativeDuty(s) \in Int /\ Output(s) \in OutputState /\ Output(s).pin = s.pin
<1>1. s.bits \in Nat /\ s.duty \in Int
  BY DEF ChannelState
<1>2. 2 ^ s.bits \in Int
  BY <1>1
<1>3. s.duty * (2 ^ s.bits - 1) + DutyMaximum \div 2 \in Int
  BY <1>1, <1>2, PwmAssumption
<1>4. NativeDuty(s) \in Int
  BY <1>3, PwmAssumption DEF NativeDuty
<1> QED
  BY <1>4 DEF Output, OutputState, ChannelState

LEMMA WithLevelType ==
  ASSUME NEW o \in OutputState, NEW n \in Int
  PROVE  WithLevel(o, n) \in OutputState /\ WithLevel(o, n).pin = o.pin
BY DEF WithLevel, OutputState

LEMMA PwmInitially == PwmInit => PwmInv
<1> SUFFICES ASSUME PwmInit PROVE PwmInv
  OBVIOUS
<1>1. \A t : On(t) = {}
  BY DEF PwmInit, Unconfigured, On
<1>2. TimersCounted
  BY <1>1, FS_EmptySet DEF TimersCounted, PwmInit
<1>3. 0 \in Timers /\ 0 \in 0 .. DutyMaximum
  BY PwmAssumption DEF Timers
<1> QED
  BY <1>2, <1>3 DEF PwmInv, PwmInit, Unconfigured, Detached, ChannelState,
     TimerState, OutputState

(***************************************************************************)
(* A step that changes neither the pin nor the timer of any channel, and   *)
(* leaves the counts alone, keeps the invariant if its outputs still show  *)
(* pins of their channels.                                                 *)
(***************************************************************************)
LEMMA SettingsStep ==
  ASSUME PwmInv,
         channel' \in [Channels -> ChannelState],
         timer' \in [Timers -> TimerState],
         out' \in [Channels -> OutputState],
         \A c \in Channels : /\ channel'[c].pin = channel[c].pin
                             /\ channel'[c].timer = channel[c].timer,
         \A t \in Timers : /\ timer'[t].references = timer[t].references
                           /\ timer'[t].used = timer[t].used,
         \A c \in Channels : out'[c].pin \in {NoPin, out[c].pin, channel[c].pin}
  PROVE  PwmInv'
<1>1. TimersCounted'
  BY CountsKept
<1> QED
  BY <1>1 DEF PwmInv

LEMMA RetunedType ==
  ASSUME PwmInv, NEW t \in Timers, NEW f \in Frequencies
  PROVE  /\ Tuned(t, f) \in TimerState /\ Retuned(t, f) \in TimerState
         /\ Tuned(t, f).used = TRUE /\ Retuned(t, f).used = TRUE
         /\ Tuned(t, f).references = timer[t].references
         /\ Retuned(t, f).references = timer[t].references
<1>1. timer[t] \in TimerState /\ Bits[f] \in Nat
  BY PwmAssumption DEF PwmInv
<1>2. /\ Tuned(t, f) \in TimerState /\ Tuned(t, f).used = TRUE
      /\ Tuned(t, f).references = timer[t].references
  BY <1>1 DEF Tuned, TimerState
<1> QED
  BY <1>1, <1>2 DEF Retuned

\* init_pin puts the new channel on its timer, and counts it.
LEMMA InitPinStep ==
  ASSUME PwmInv, NEW p \in Pins, NEW f \in Frequencies, NEW d \in Duties,
         NEW b \in BOOLEAN, NEW c \in Channels, NEW t \in Timers,
         PwmInitPin(p, f, d, b, c, t)
  PROVE  PwmInv'
<1> DEFINE s == [pin |-> p, enabled |-> TRUE, inverted |-> b, timer |-> t,
                 bits |-> Retuned(t, f).bits, duty |-> d]
           r == [Retuned(t, f) EXCEPT !.references = @ + 1]
<1>1. /\ p # NoPin /\ channel[c].pin = NoPin
      /\ \A e \in Channels : channel[e].pin # p
  BY PwmAssumption DEF PwmInitPin, Gets, Driven, IsLeast, FreeChannels
<1>2. s \in ChannelState /\ Output(s) \in OutputState /\ Output(s).pin = p
  <2>1. s \in ChannelState
    BY RetunedType, PwmAssumption DEF ChannelState, TimerState
  <2> QED
    BY <2>1, LevelType
<1>3. /\ r \in TimerState /\ r.used = TRUE
      /\ r.references = timer[t].references + 1
  <2>1. ASSUME NEW x \in TimerState
        PROVE  LET y == [x EXCEPT !.references = @ + 1]
               IN y \in TimerState /\ y.used = x.used /\ y.references = x.references + 1
    BY DEF TimerState
  <2> QED
    BY <2>1, RetunedType
<1>4. /\ channel' = [channel EXCEPT ![c] = s]
      /\ timer' = [timer EXCEPT ![t] = r]
      /\ out' = [out EXCEPT ![c] = Output(s)]
  BY DEF PwmInitPin
<1>5. s.pin = p /\ s.timer = t
  OBVIOUS
<1> HIDE DEF s, r
<1>6. /\ channel' \in [Channels -> ChannelState]
      /\ timer' \in [Timers -> TimerState]
      /\ out' \in [Channels -> OutputState]
  BY <1>2, <1>3, <1>4 DEF PwmInv
<1>7. c \notin On(t) /\ On(t)' = On(t) \cup {c}
  BY <1>1, <1>4, <1>5, <1>6 DEF On, PwmInv
<1>8. \A u \in Timers \ {t} : On(u)' = On(u)
  BY <1>1, <1>4, <1>5, <1>6 DEF On, PwmInv
<1>9. TimersCounted'
  <2>1. Cardinality(On(t)') = Cardinality(On(t)) + 1 /\ On(t)' # {}
    BY <1>7, ChannelsFinite, FS_AddElement
  <2>2. timer'[t].references = Cardinality(On(t)') /\ (timer'[t].used <=> On(t)' # {})
    BY <2>1, <1>3, <1>4 DEF PwmInv, TimersCounted
  <2>3. \A u \in Timers \ {t} : timer'[u] = timer[u]
    BY <1>4 DEF PwmInv
  <2> QED
    BY <2>2, <2>3, <1>8 DEF PwmInv, TimersCounted
<1>10. \A e, g \in Channels :
         channel'[e].pin # NoPin /\ channel'[g].pin = channel'[e].pin => g = e
  BY <1>1, <1>4, <1>5 DEF PwmInv
<1>11. \A e \in Channels : out'[e].pin # NoPin => channel'[e].pin = out'[e].pin
  BY <1>2, <1>4, <1>5 DEF PwmInv
<1> QED
  BY <1>6, <1>9, <1>10, <1>11 DEF PwmInv

\* deinit_pin takes the channel off its timer.
LEMMA DeinitPinStep ==
  ASSUME PwmInv, NEW p \in Pins, PwmDeinitPin(p)
  PROVE  PwmInv'
<1>1. PICK c \in Channels, t \in Timers :
        c = ChannelOf(p) /\ channel[c].pin = p /\ t = channel[c].timer
  BY ChannelOfDriven DEF PwmDeinitPin, PwmInv, ChannelState
<1> DEFINE left == IF timer[t].references = 0 THEN 0 ELSE timer[t].references - 1
<1>2. /\ channel' = [channel EXCEPT ![c] = Unconfigured]
      /\ timer' = [timer EXCEPT ![t].references = left, ![t].used = left # 0]
      /\ out' = [out EXCEPT ![c] = Detached]
      /\ p # NoPin
  BY <1>1, PwmAssumption DEF PwmDeinitPin
<1>3. Unconfigured \in ChannelState /\ Detached \in OutputState
  <2>1. 0 \in Timers /\ 0 \in 0 .. DutyMaximum
    BY PwmAssumption DEF Timers
  <2> QED
    BY <2>1 DEF Unconfigured, Detached, ChannelState, OutputState
<1>4. On(t)' = On(t) \ {c} /\ c \in On(t)
  BY <1>1, <1>2 DEF On, Unconfigured, PwmInv
<1>5. \A u \in Timers \ {t} : On(u)' = On(u)
  BY <1>1, <1>2 DEF On, Unconfigured, PwmInv
<1>6. /\ Cardinality(On(t)') = Cardinality(On(t)) - 1
      /\ Cardinality(On(t)) \in Nat /\ Cardinality(On(t)) # 0
      /\ Cardinality(On(t)') = 0 <=> On(t)' = {}
  <2>1. IsFiniteSet(On(t)) /\ IsFiniteSet(On(t)')
    BY <1>4, ChannelsFinite, FS_RemoveElement
  <2> QED
    BY <2>1, <1>4, FS_RemoveElement, FS_EmptySet, ChannelsFinite
<1>7. left = Cardinality(On(t)') /\ left \in Nat
  BY <1>1, <1>6 DEF PwmInv, TimersCounted
<1>8. timer[t] \in TimerState
  BY <1>1 DEF PwmInv
<1> HIDE DEF left
<1>9. timer' \in [Timers -> TimerState] /\ timer'[t].references = left
      /\ timer'[t].used = (left # 0)
      /\ \A u \in Timers \ {t} : timer'[u] = timer[u]
  BY <1>1, <1>2, <1>7, <1>8 DEF PwmInv, TimerState
<1>10. TimersCounted'
  BY <1>5, <1>6, <1>7, <1>9 DEF PwmInv, TimersCounted
<1>11. channel' \in [Channels -> ChannelState] /\ out' \in [Channels -> OutputState]
  BY <1>2, <1>3 DEF PwmInv
<1> QED
  BY <1>1, <1>2, <1>9, <1>10, <1>11 DEF PwmInv, Unconfigured, Detached

\* A failed init_pin gives back the timer it configured, unless it is shared.
LEMMA InitApplyFailsStep ==
  ASSUME PwmInv, NEW p \in Pins, NEW f \in Frequencies,
         NEW c \in Channels, NEW t \in Timers, InitApplyFails(p, f, c, t)
  PROVE  PwmInv'
<1> DEFINE r == [Retuned(t, f) EXCEPT !.used = timer[t].references # 0]
<1>1. /\ r \in TimerState /\ r.references = timer[t].references
      /\ r.used = (timer[t].references # 0)
  <2> DEFINE x == Retuned(t, f)
             u == timer[t].references # 0
  <2>1. x \in TimerState /\ x.references = timer[t].references /\ u \in BOOLEAN
    BY RetunedType
  <2> HIDE DEF x, u
  <2>2. LET y == [x EXCEPT !.used = u]
        IN y \in TimerState /\ y.used = u /\ y.references = x.references
    BY <2>1 DEF TimerState
  <2> QED
    BY <2>1, <2>2 DEF x, u
<1>2. timer' = [timer EXCEPT ![t] = r] /\ UNCHANGED <<channel, out>>
  BY DEF InitApplyFails
<1> HIDE DEF r
<1>3. timer[t].references # 0 <=> On(t) # {}
  BY ChannelsFinite, FS_EmptySet DEF PwmInv, TimersCounted
<1>4. \A u \in Timers : /\ timer'[u].references = timer[u].references
                        /\ timer'[u].used = timer[u].used
  BY <1>1, <1>2, <1>3 DEF PwmInv, TimersCounted, TimerState
<1> QED
  BY <1>1, <1>2, <1>4, SettingsStep DEF PwmInv

\* A step that changes one output, to one of its channel's pin or of none.
LEMMA OneOutput ==
  ASSUME PwmInv, NEW c \in Channels, NEW o \in OutputState,
         o.pin \in {NoPin, out[c].pin, channel[c].pin},
         out' = [out EXCEPT ![c] = o]
  PROVE  /\ out' \in [Channels -> OutputState]
         /\ \A e \in Channels : out'[e].pin \in {NoPin, out[e].pin, channel[e].pin}
BY DEF PwmInv

\* set_pin_frequency tunes a timer that is in use, and stays so.
LEMMA FrequencyStep ==
  ASSUME PwmInv, NEW p \in Pins, NEW f \in Frequencies,
         SetFrequency(p, f) \/ FrequencyDutyFails(p, f)
  PROVE  PwmInv'
<1>1. PICK c \in Channels, t \in Timers :
        c = ChannelOf(p) /\ channel[c].pin = p /\ t = channel[c].timer
  BY ChannelOfDriven DEF SetFrequency, FrequencyDutyFails, Calls, PwmInv, ChannelState
<1> DEFINE s == [channel[c] EXCEPT !.bits = Bits[f]]
<1>2. s \in ChannelState /\ s.pin = channel[c].pin /\ s.timer = channel[c].timer
  BY PwmAssumption DEF PwmInv, ChannelState
<1>3. channel' = [channel EXCEPT ![c] = s] /\ timer' = [timer EXCEPT ![t] = Tuned(t, f)]
  BY <1>1 DEF SetFrequency, FrequencyDutyFails
<1>4. out' = out \/ out' = [out EXCEPT ![c] = WithLevel(@, NativeDuty(s))]
  BY <1>1 DEF SetFrequency, FrequencyDutyFails
<1> HIDE DEF s
<1>5. /\ out' \in [Channels -> OutputState]
      /\ \A e \in Channels : out'[e].pin \in {NoPin, out[e].pin, channel[e].pin}
  <2>1. CASE out' = out
    BY <2>1 DEF PwmInv
  <2>2. CASE out' = [out EXCEPT ![c] = WithLevel(@, NativeDuty(s))]
    <3>1. out[c] \in OutputState /\ NativeDuty(s) \in Int
      BY <1>2, LevelType DEF PwmInv
    <3> QED
      BY <2>2, <3>1, WithLevelType, OneOutput
  <2> QED
    BY <1>4, <2>1, <2>2
<1>6. timer[t].used
  <2>1. c \in On(t)
    BY <1>1, PwmAssumption DEF On
  <2> QED
    BY <2>1 DEF PwmInv, TimersCounted
<1>7. \A u \in Timers : /\ timer'[u].references = timer[u].references
                        /\ timer'[u].used = timer[u].used
  <2>1. Tuned(t, f).references = timer[t].references /\ Tuned(t, f).used = timer[t].used
    BY <1>6, RetunedType DEF PwmInv, TimerState
  <2>2. /\ timer'[t] = Tuned(t, f)
        /\ \A u \in Timers : u # t => timer'[u] = timer[u]
    BY <1>3 DEF PwmInv
  <2> QED
    BY <2>1, <2>2
<1>8. timer' \in [Timers -> TimerState] /\ channel' \in [Channels -> ChannelState]
  BY <1>2, <1>3, RetunedType DEF PwmInv
<1>9. \A e \in Channels : /\ channel'[e].pin = channel[e].pin
                          /\ channel'[e].timer = channel[e].timer
  BY <1>2, <1>3 DEF PwmInv
<1> QED
  BY <1>5, <1>7, <1>8, <1>9, SettingsStep

\* The other settings touch one channel, and keep its pin and its timer.
LEMMA SettingStep ==
  ASSUME PwmInv, NEW c \in Channels, NEW s \in ChannelState,
         s.pin = channel[c].pin, s.timer = channel[c].timer,
         channel' = [channel EXCEPT ![c] = s],
         out' \in {out, [out EXCEPT ![c] = WithLevel(@, NativeDuty(s))],
                  [out EXCEPT ![c] = Output(s)]},
         UNCHANGED timer
  PROVE  PwmInv'
<1>1. /\ out' \in [Channels -> OutputState]
      /\ \A e \in Channels : out'[e].pin \in {NoPin, out[e].pin, channel[e].pin}
  <2>1. CASE out' = out
    BY <2>1 DEF PwmInv
  <2>2. CASE out' = [out EXCEPT ![c] = WithLevel(@, NativeDuty(s))]
    <3>1. out[c] \in OutputState /\ NativeDuty(s) \in Int
      BY LevelType DEF PwmInv
    <3> QED
      BY <2>2, <3>1, WithLevelType, OneOutput
  <2>3. CASE out' = [out EXCEPT ![c] = Output(s)]
    BY <2>3, LevelType, OneOutput
  <2> QED
    BY <2>1, <2>2, <2>3
<1>2. channel' \in [Channels -> ChannelState]
  BY DEF PwmInv
<1>3. \A e \in Channels : /\ channel'[e].pin = channel[e].pin
                          /\ channel'[e].timer = channel[e].timer
  BY DEF PwmInv
<1> QED
  BY <1>1, <1>2, <1>3, SettingsStep DEF PwmInv

LEMMA FailureStep ==
  ASSUME PwmInv, UNCHANGED <<channel, timer>>, NEW c \in Channels,
         out' \in {out, [out EXCEPT ![c].level = 0], [out EXCEPT ![c] = Detached],
                  [out EXCEPT ![c] = Output(channel[c])]}
  PROVE  PwmInv'
<1>1. Detached \in OutputState /\ Detached.pin = NoPin
  BY PwmAssumption DEF Detached, OutputState, Timers
<1>2. ASSUME NEW o \in OutputState
      PROVE  [o EXCEPT !.level = 0] \in OutputState /\ [o EXCEPT !.level = 0].pin = o.pin
  BY DEF OutputState
<1>3. /\ out' \in [Channels -> OutputState]
      /\ \A e \in Channels : out'[e].pin \in {NoPin, out[e].pin, channel[e].pin}
  <2>1. out[c] \in OutputState /\ channel[c] \in ChannelState
    BY DEF PwmInv
  <2>2. CASE out' = out
    BY <2>2 DEF PwmInv
  <2>3. CASE out' = [out EXCEPT ![c].level = 0]
    BY <2>1, <2>3, <1>2, OneOutput
  <2>4. CASE out' = [out EXCEPT ![c] = Detached]
    BY <2>4, <1>1, OneOutput
  <2>5. CASE out' = [out EXCEPT ![c] = Output(channel[c])]
    BY <2>1, <2>5, LevelType, OneOutput
  <2> QED
    BY <2>2, <2>3, <2>4, <2>5
<1> QED
  BY <1>3, SettingsStep DEF PwmInv

LEMMA PwmStep == PwmInv /\ [PwmNext]_pwmVars => PwmInv'
<1> SUFFICES ASSUME PwmInv, [PwmNext]_pwmVars
             PROVE  PwmInv'
  OBVIOUS
<1>1. CASE UNCHANGED pwmVars
  BY <1>1, SettingsStep DEF pwmVars, PwmInv
<1>2. ASSUME NEW p \in Pins, PinStep(p)
      PROVE  PwmInv'
  <2>1. ASSUME NEW q \in Driven
        PROVE  ChannelOf(q) \in Channels /\ channel[ChannelOf(q)] \in ChannelState
    BY ChannelOfDriven DEF PwmInv
  <2>2. ASSUME UNCHANGED <<channel, timer, out>>
        PROVE  PwmInv'
    BY <2>2, SettingsStep DEF PwmInv
  <2>3. ASSUME NEW f \in Frequencies, NEW c \in Channels, NEW t \in Timers,
               NEW d \in Duties, NEW b \in BOOLEAN, PwmInitPin(p, f, d, b, c, t)
        PROVE  PwmInv'
    BY <2>3, InitPinStep
  <2>4. ASSUME NEW f \in Frequencies, NEW c \in Channels, NEW t \in Timers,
               InitTimerFails(p, f, c, t) \/ InitApplyFails(p, f, c, t)
        PROVE  PwmInv'
    BY <2>2, <2>4, InitApplyFailsStep DEF InitTimerFails
  <2>5. ASSUME NEW f \in Frequencies,
               SetFrequency(p, f) \/ FrequencyDutyFails(p, f)
        PROVE  PwmInv'
    BY <2>5, FrequencyStep
  <2>6. ASSUME NEW f \in Frequencies,
               SameFrequency(p, f) \/ FrequencyRefused(p, f) \/ FrequencyFails(p, f)
        PROVE  PwmInv'
    BY <2>2, <2>6 DEF SameFrequency, FrequencyRefused, FrequencyFails
  <2>7. ASSUME NEW d \in Duties, SetDuty(p, d)
        PROVE  PwmInv'
    <3> DEFINE s == [channel[ChannelOf(p)] EXCEPT !.duty = d]
    <3>1. ChannelOf(p) \in Channels /\ channel[ChannelOf(p)] \in ChannelState
      BY <2>1, <2>7 DEF SetDuty, Calls
    <3>2. s \in ChannelState /\ s.pin = channel[ChannelOf(p)].pin
          /\ s.timer = channel[ChannelOf(p)].timer
      BY <3>1, PwmAssumption DEF ChannelState
    <3> QED
      BY <2>7, <3>1, <3>2, SettingStep DEF SetDuty
  <2>8. ASSUME NEW b \in BOOLEAN, SetPolarity(p, b)
        PROVE  PwmInv'
    <3> DEFINE s == [channel[ChannelOf(p)] EXCEPT !.inverted = b]
    <3>1. ChannelOf(p) \in Channels /\ channel[ChannelOf(p)] \in ChannelState
      BY <2>1, <2>8 DEF SetPolarity, Calls
    <3>2. s \in ChannelState /\ s.pin = channel[ChannelOf(p)].pin
          /\ s.timer = channel[ChannelOf(p)].timer
      BY <3>1 DEF ChannelState
    <3> QED
      BY <2>8, <3>1, <3>2, SettingStep DEF SetPolarity
  <2>9. ASSUME NEW b \in BOOLEAN, SetEnabled(p, b)
        PROVE  PwmInv'
    <3> DEFINE s == [channel[ChannelOf(p)] EXCEPT !.enabled = b]
    <3>1. ChannelOf(p) \in Channels /\ channel[ChannelOf(p)] \in ChannelState
      BY <2>1, <2>9 DEF SetEnabled, Calls
    <3>2. s \in ChannelState /\ s.pin = channel[ChannelOf(p)].pin
          /\ s.timer = channel[ChannelOf(p)].timer
      BY <3>1 DEF ChannelState
    <3> QED
      BY <2>9, <3>1, <3>2, SettingStep DEF SetEnabled
  <2>10. ASSUME NEW op \in {"duty", "enabled"}, SettingFails(p, op)
         PROVE  PwmInv'
    BY <2>2, <2>10 DEF SettingFails
  <2>11. CASE InitAgain(p)
    BY <2>2, <2>11 DEF InitAgain
  <2>12. CASE PolarityFails(p)
    BY <2>1, <2>12, FailureStep DEF PolarityFails, Calls
  <2>13. CASE PwmDeinitPin(p)
    BY <2>13, DeinitPinStep
  <2>14. CASE ReleaseFails(p)
    BY <2>1, <2>14, FailureStep DEF ReleaseFails
  <2> QED
    BY <1>2, <2>3, <2>4, <2>5, <2>6, <2>7, <2>8, <2>9, <2>10, <2>11, <2>12,
       <2>13, <2>14 DEF PinStep
<1> QED
  BY <1>1, <1>2 DEF PwmNext

LEMMA PwmAlways == Spec => []PwmInv
<1>1. Init => PwmInit
  BY DEF Init
<1>2. [Next]_vars => [PwmNext]_pwmVars
  BY DEF Next, vars
<1> QED
  BY PwmInitially, PwmStep, <1>1, <1>2, PTL DEF Spec

\* No call, refused or failing half way, leaks a PWM timer or takes one away
\* from a channel that is on it; and a pin has one output at most, that of the
\* channel configured for it.
THEOREM ChannelsOwnTheirs == Spec => []ChannelsOwn
<1>1. PwmInv => TimersCounted
  BY DEF PwmInv
<1>2. PwmInv => NoOrphanOutput
  BY DEF PwmInv, NoOrphanOutput
<1>3. PwmInv => ChannelsOwn
  BY <1>1, <1>2 DEF ChannelsOwn
<1> QED
  BY PwmAlways, <1>3, PTL

----------------------------------------------------------------------------
(***************************************************************************)
(* PWM, what the pins show.  A channel's output is on the channel's timer; *)
(* and until the driver fails, a timer in use runs at the frequency and    *)
(* with the resolution it is recorded with, and each channel has that      *)
(* resolution and shows what was set for it.                               *)
(***************************************************************************)
Resolutions == {0} \cup {Bits[f] : f \in Frequencies}

TuningTypes ==
  /\ tone \in [Timers -> Frequencies \cup {0}]
  /\ faults \in 0 .. MaxFaults
  /\ \A c \in Channels : channel[c].bits \in Resolutions
  /\ \A t \in Timers : timer[t].bits \in Resolutions
  /\ \A c \in Channels : out[c].pin # NoPin => out[c].timer = channel[c].timer

Tunes(t) ==
  /\ tone[t] \in Frequencies
  /\ timer[t].frequency = tone[t] /\ timer[t].bits = Bits[tone[t]]

Shown(c) ==
  out[c] = Output(channel[c]) /\ channel[c].bits = Bits[tone[channel[c].timer]]

PinsTuned ==
  faults = 0 =>
    /\ \A t \in Timers : timer[t].used => Tunes(t)
    /\ \A c \in Channels : channel[c].pin # NoPin => Shown(c)

\* A duty of d in m, at a resolution of k steps above zero, is one of them.
LEMMA LevelFits ==
  ASSUME NEW d \in Nat, NEW m \in Nat \ {0}, d <= m, NEW k \in Nat
  PROVE  (d * k + m \div 2) \div m \in 0 .. k
<1> DEFINE h == m \div 2
           x == d * k + h
           q == x \div m
<1>1. h \in Nat /\ h < m
  OBVIOUS
<1>2. d * k \in Nat /\ m * k \in Nat /\ d * k <= m * k
  OBVIOUS
<1>3. x \in Nat /\ x < m * k + m
  <2> HIDE DEF h
  <2> QED
    BY <1>1, <1>2
<1> HIDE DEF x
<1>4. q \in Int /\ m * q <= x /\ x < m * q + m
  BY <1>3
<1> HIDE DEF q
<1>5. m * q < m * (k + 1)
  <2>1. m * (k + 1) = m * k + m
    OBVIOUS
  <2> QED
    BY <1>2, <1>3, <1>4, <2>1
<1>6. q < k + 1
  BY <1>4, <1>5
<1>7. q >= 0
  BY <1>3, <1>4
<1> QED
  BY <1>4, <1>6, <1>7 DEF q, x, h

LEMMA LevelsFit ==
  ASSUME PwmInv, TuningTypes, NEW c \in Channels
  PROVE  NativeDuty(channel[c]) \in 0 .. 2 ^ channel[c].bits - 1
<1> DEFINE k == 2 ^ channel[c].bits - 1
<1>1. k \in Nat
  <2> DEFINE b == channel[c].bits
  <2>1. b \in Resolutions
    BY DEF TuningTypes
  <2> HIDE DEF b
  <2>2. 2 ^ b \in Nat \ {0}
    BY <2>1, ResolutionAssumption DEF Resolutions
  <2> QED
    BY <2>2 DEF b
<1>2. channel[c].duty \in Nat /\ channel[c].duty <= DutyMaximum /\ DutyMaximum \in Nat \ {0}
  BY PwmAssumption DEF PwmInv, ChannelState
<1> HIDE DEF k
<1>3. (channel[c].duty * k + DutyMaximum \div 2) \div DutyMaximum \in 0 .. k
  BY <1>1, <1>2, LevelFits
<1>4. 0 \in 0 .. k
  BY <1>1
<1>5. NativeDuty(channel[c]) \in 0 .. k
  BY <1>3, <1>4 DEF NativeDuty, k
<1> QED
  BY <1>5 DEF k

\* The step sets the channel c, on the pin p or new, and a timer no other channel
\* is on.
Touches(c, p) ==
  /\ channel[c].pin \in {p, NoPin}
  /\ \A n \in Channels \ {c} : channel'[n] = channel[n] /\ out'[n] = out[n]
  /\ out'[c].pin \in {p, NoPin}
  /\ \A t \in Timers : tone'[t] = tone[t] \/ On(t) \subseteq {c}

LEMMA OthersTuned ==
  ASSUME PwmInv, NEW c \in Channels, NEW p, Touches(c, p),
         NEW n \in Channels \ {c}, channel[n].pin # NoPin
  PROVE  /\ channel[n].timer \in Timers
         /\ tone'[channel[n].timer] = tone[channel[n].timer]
         /\ Shown(n) => Shown(n)'
<1>1. channel[n].timer \in Timers /\ n \in On(channel[n].timer)
  BY DEF PwmInv, ChannelState, On
<1>2. tone'[channel[n].timer] = tone[channel[n].timer]
  BY <1>1 DEF Touches
<1>3. channel'[n] = channel[n] /\ out'[n] = out[n]
  BY DEF Touches
<1>4. Output(channel[n])' = Output(channel[n])
  BY <1>3 DEF Output, NativeDuty
<1> QED
  BY <1>1, <1>2, <1>3, <1>4 DEF Shown

LEMMA OthersUndisturbed ==
  ASSUME PwmInv, TuningTypes, NEW c \in Channels, NEW p \in Pins, Touches(c, p),
         NEW q \in Pins \ {p}
  PROVE  Waveform(q)' = Waveform(q)
<1>1. q # NoPin
  BY PwmAssumption
<1>2. out[c].pin # q /\ out'[c].pin # q
  BY <1>1 DEF Touches, PwmInv
<1>3. ASSUME NEW n \in Channels, out[n].pin = q
      PROVE  /\ out'[n] = out[n] /\ n # c
             /\ tone'[out[n].timer] = tone[out[n].timer]
  <2>1. n # c /\ out'[n] = out[n]
    BY <1>2, <1>3 DEF Touches
  <2>2. channel[n].pin = q /\ out[n].timer = channel[n].timer
    BY <1>1, <1>3 DEF PwmInv, TuningTypes
  <2> QED
    BY <1>1, <2>1, <2>2, OthersTuned
<1>4. \A n \in Channels : out'[n].pin = q <=> out[n].pin = q
  BY <1>2 DEF Touches
<1> QED
  BY <1>3, <1>4 DEF Waveform

\* A timer whose one channel is c, or that is not in use.
LEMMA Alone ==
  ASSUME PwmInv, NEW c \in Channels, NEW t \in Timers
  PROVE  /\ c \in On(t) /\ timer[t].references <= 1 => On(t) \subseteq {c}
         /\ ~timer[t].used => On(t) = {}
<1>1. ASSUME c \in On(t), timer[t].references <= 1
      PROVE  On(t) \subseteq {c}
  <2>1. IsFiniteSet(On(t)) /\ Cardinality(On(t)) \in Nat /\ Cardinality(On(t)) <= 1
    BY <1>1, ChannelsFinite DEF PwmInv, TimersCounted
  <2>2. /\ IsFiniteSet(On(t) \ {c})
        /\ Cardinality(On(t) \ {c}) = Cardinality(On(t)) - 1
    BY <1>1, <2>1, FS_RemoveElement
  <2>3. Cardinality(On(t) \ {c}) \in Nat
    BY <2>2, FS_CardinalityType
  <2>4. Cardinality(On(t) \ {c}) = 0
    BY <2>1, <2>2, <2>3
  <2>5. On(t) \ {c} = {}
    BY <2>2, <2>4, FS_EmptySet
  <2> QED
    BY <2>5
<1> QED
  BY <1>1 DEF PwmInv, TimersCounted

\* The output of the channel c once its setting is s.
Displays(c, s) ==
  \/ out' = out /\ ~s.enabled /\ ~channel[c].enabled /\ s.inverted = channel[c].inverted
  \/ /\ out' = [out EXCEPT ![c] = WithLevel(@, NativeDuty(s))]
     /\ s.inverted = channel[c].inverted
  \/ out' = [out EXCEPT ![c] = Output(s)]

LEMMA OutputSet ==
  ASSUME PwmInv, TuningTypes, NEW c \in Channels, NEW s \in ChannelState,
         s.pin = channel[c].pin, s.timer = channel[c].timer, s.pin # NoPin,
         Displays(c, s)
  PROVE  /\ \A n \in Channels \ {c} : out'[n] = out[n]
         /\ out'[c].pin \in {s.pin, NoPin}
         /\ out'[c].pin # NoPin => out'[c].timer = s.timer
         /\ out[c] = Output(channel[c]) => out'[c] = Output(s)
<1>0. /\ out \in [Channels -> OutputState] /\ out[c] \in OutputState
      /\ out[c].pin \in {s.pin, NoPin} /\ (out[c].pin # NoPin => out[c].timer = s.timer)
  BY DEF PwmInv, TuningTypes
<1>1. CASE out' = out /\ ~s.enabled /\ ~channel[c].enabled /\ s.inverted = channel[c].inverted
  <2>1. Output(s) = Output(channel[c])
    BY <1>1 DEF Output, NativeDuty
  <2> QED
    BY <1>0, <1>1, <2>1
<1>2. CASE /\ out' = [out EXCEPT ![c] = WithLevel(@, NativeDuty(s))]
           /\ s.inverted = channel[c].inverted
  <2> DEFINE n == NativeDuty(s)
             o == WithLevel(out[c], n)
  <2>1. /\ (\A m \in Channels \ {c} : out'[m] = out[m]) /\ out'[c] = o
    BY <1>0, <1>2
  <2>2. ASSUME NEW x \in OutputState, NEW l
        PROVE  /\ [x EXCEPT !.level = l].pin = x.pin
               /\ [x EXCEPT !.level = l].timer = x.timer
               /\ [x EXCEPT !.level = l] = [pin |-> x.pin, timer |-> x.timer, level |-> l,
                                            inverted |-> x.inverted]
    BY DEF OutputState
  <2>3. o.pin = out[c].pin /\ (o.pin # NoPin => o.timer = out[c].timer)
    <3> HIDE DEF n
    <3> QED
      BY <1>0, <2>2 DEF WithLevel
  <2>4. ASSUME out[c] = Output(channel[c])
        PROVE  o = Output(s)
    <3>1. /\ out[c].pin = s.pin /\ out[c].timer = s.timer /\ out[c].inverted = s.inverted
      BY <1>2, <2>4 DEF Output
    <3>2. o = [pin |-> s.pin, timer |-> s.timer, level |-> n, inverted |-> s.inverted]
      <4> HIDE DEF n
      <4> QED
        BY <1>0, <2>2, <3>1 DEF WithLevel
    <3> QED
      BY <3>2 DEF Output
  <2> HIDE DEF o, n
  <2> QED
    BY <1>0, <2>1, <2>3, <2>4
<1>3. CASE out' = [out EXCEPT ![c] = Output(s)]
  <2>1. Output(s).pin = s.pin /\ Output(s).timer = s.timer
    BY DEF Output
  <2> QED
    BY <1>0, <1>3, <2>1
<1> QED
  BY <1>1, <1>2, <1>3 DEF Displays

TunedInv == PwmInv /\ TuningTypes /\ PinsTuned

\* What each step keeps, and shows on no other pin.
TunedStep(p) ==
  /\ TuningTypes' /\ PinsTuned'
  /\ \/ UNCHANGED <<out, tone>>
     \/ \E c \in Channels : Touches(c, p)

LEMMA FaultCounted ==
  ASSUME faults \in 0 .. MaxFaults, Faultless \/ DriverFails
  PROVE  faults' \in 0 .. MaxFaults /\ (DriverFails => faults' # 0)
BY PwmAssumption DEF Faultless, DriverFails

LEMMA InitPinTuned ==
  ASSUME TunedInv, NEW p \in Pins, NEW f \in Frequencies, NEW d \in Duties,
         NEW b \in BOOLEAN, NEW c \in Channels, NEW t \in Timers,
         PwmInitPin(p, f, d, b, c, t)
  PROVE  TunedStep(p)
<1> DEFINE r == Retuned(t, f)
           y == [r EXCEPT !.references = @ + 1]
           s == [pin |-> p, enabled |-> TRUE, inverted |-> b, timer |-> t,
                 bits |-> r.bits, duty |-> d]
<1>1. PwmInv /\ TuningTypes /\ PinsTuned
  BY DEF TunedInv
<1>2. channel[c].pin = NoPin /\ out[c].pin = NoPin /\ p # NoPin
  BY <1>1, PwmAssumption DEF PwmInitPin, Gets, IsLeast, FreeChannels, PwmInv
<1>3. /\ channel' = [channel EXCEPT ![c] = s]
      /\ timer' = [timer EXCEPT ![t] = y]
      /\ out' = [out EXCEPT ![c] = Output(s)]
      /\ tone' = Retone(t, f) /\ faults' = faults
  BY DEF PwmInitPin, Faultless
<1>4. r \in TimerState /\ y.used = r.used /\ y.bits = r.bits /\ y.frequency = r.frequency
  <2>1. ASSUME NEW x \in TimerState
        PROVE  LET z == [x EXCEPT !.references = @ + 1]
               IN z.used = x.used /\ z.bits = x.bits /\ z.frequency = x.frequency
    BY DEF TimerState
  <2>2. r \in TimerState
    BY <1>1, RetunedType
  <2> QED
    BY <2>1, <2>2
<1>5. /\ timer[t].used => r = timer[t] /\ tone' = tone
      /\ ~timer[t].used => /\ r.bits = Bits[f] /\ r.frequency = f
                           /\ tone' = [tone EXCEPT ![t] = f]
  <2>1. Tuned(t, f).bits = Bits[f] /\ Tuned(t, f).frequency = f
    BY <1>1 DEF Tuned, PwmInv, TimerState
  <2> QED
    BY <1>3, <2>1 DEF Retuned, Retone
<1>6. s.pin = p /\ s.timer = t /\ s.bits = r.bits
  OBVIOUS
<1>7. Output(s).pin = p /\ Output(s).timer = t
  BY DEF Output
<1> HIDE DEF r, y, s
<1>8. r.bits \in Resolutions
  BY <1>1, <1>5 DEF TuningTypes, Resolutions
<1>9. /\ \A n \in Channels \ {c} : channel'[n] = channel[n] /\ out'[n] = out[n]
      /\ channel'[c] = s /\ out'[c] = Output(s)
      /\ \A u \in Timers \ {t} : timer'[u] = timer[u] /\ tone'[u] = tone[u]
      /\ timer'[t] = y
      /\ tone' \in [Timers -> Frequencies \cup {0}]
  BY <1>1, <1>3, <1>5 DEF PwmInv, TuningTypes
<1>10. Touches(c, p)
  BY <1>1, <1>2, <1>5, <1>7, <1>9, Alone DEF Touches
<1>11. TuningTypes'
  BY <1>1, <1>3, <1>4, <1>6, <1>7, <1>8, <1>9 DEF TuningTypes
<1>12. PinsTuned'
  <2> SUFFICES ASSUME faults' = 0
               PROVE  /\ \A u \in Timers : timer'[u].used => Tunes(u)'
                      /\ \A n \in Channels : channel'[n].pin # NoPin => Shown(n)'
    BY DEF PinsTuned
  <2>1. faults = 0
    BY <1>3
  <2>2. /\ \A u \in Timers : timer[u].used => Tunes(u)
        /\ \A n \in Channels : channel[n].pin # NoPin => Shown(n)
    BY <1>1, <2>1 DEF PinsTuned
  <2>3. \A u \in Timers \ {t} : timer'[u].used => Tunes(u)'
    BY <1>9, <2>2 DEF Tunes
  <2>4. /\ tone'[t] \in Frequencies
        /\ r.frequency = tone'[t] /\ r.bits = Bits[tone'[t]]
    <3>1. CASE timer[t].used
      BY <1>5, <2>2, <3>1 DEF Tunes
    <3>2. CASE ~timer[t].used
      BY <1>1, <1>5, <3>2 DEF TuningTypes
    <3> QED
      BY <3>1, <3>2
  <2>5. Tunes(t)'
    BY <1>4, <1>9, <2>4 DEF Tunes
  <2>6. Shown(c)'
    <3>1. Output(channel[c])' = Output(s)
      BY <1>9 DEF Output, NativeDuty
    <3> QED
      BY <1>6, <1>9, <2>4, <3>1 DEF Shown
  <2>7. \A n \in Channels \ {c} : channel'[n].pin # NoPin => Shown(n)'
    BY <1>1, <1>9, <1>10, <2>2, OthersTuned
  <2> QED
    BY <2>3, <2>5, <2>6, <2>7
<1> QED
  BY <1>10, <1>11, <1>12 DEF TunedStep

LEMMA InitFailsTuned ==
  ASSUME TunedInv, NEW p \in Pins, NEW f \in Frequencies,
         NEW c \in Channels, NEW t \in Timers,
         InitTimerFails(p, f, c, t) \/ InitApplyFails(p, f, c, t)
  PROVE  TunedStep(p)
<1> DEFINE r == Retuned(t, f)
           y == [r EXCEPT !.used = timer[t].references # 0]
<1>1. PwmInv /\ TuningTypes /\ PinsTuned
  BY DEF TunedInv
<1>2. channel[c].pin = NoPin /\ out[c].pin = NoPin
  BY <1>1 DEF InitTimerFails, InitApplyFails, Gets, IsLeast, FreeChannels, PwmInv
<1>3. /\ UNCHANGED <<channel, out>> /\ timer' \in {timer, [timer EXCEPT ![t] = y]}
      /\ tone' \in {tone, [tone EXCEPT ![t] = f]} /\ (timer[t].used => tone' = tone)
  BY DEF InitTimerFails, InitApplyFails, Retone
<1>4. faults' \in 0 .. MaxFaults /\ faults' # 0
  BY <1>1, FaultCounted DEF TuningTypes, InitTimerFails, InitApplyFails
<1>5. y.bits \in Resolutions
  <2>1. ASSUME NEW x \in TimerState, NEW u
        PROVE  [x EXCEPT !.used = u].bits = x.bits
    BY DEF TimerState
  <2>2. r \in TimerState /\ r.bits \in Resolutions
    <3>1. Tuned(t, f).bits = Bits[f]
      BY <1>1 DEF Tuned, PwmInv, TimerState
    <3> QED
      BY <1>1, <3>1, RetunedType DEF Retuned, TuningTypes, Resolutions
  <2> HIDE DEF r
  <2> QED
    BY <2>1, <2>2
<1> HIDE DEF r, y
<1>6. /\ tone' \in [Timers -> Frequencies \cup {0}]
      /\ \A u \in Timers : timer'[u].bits \in Resolutions
  BY <1>1, <1>3, <1>5 DEF TuningTypes, PwmInv
<1>7. TuningTypes'
  BY <1>1, <1>3, <1>4, <1>6 DEF TuningTypes
<1>8. Touches(c, p)
  BY <1>1, <1>2, <1>3, Alone DEF Touches, TuningTypes
<1> QED
  BY <1>4, <1>7, <1>8 DEF TunedStep, PinsTuned

\* A step that sets one channel and leaves the timers.
LEMMA SettingTuned ==
  ASSUME TunedInv, NEW p \in Pins, NEW c \in Channels, NEW s \in ChannelState,
         channel[c].pin = p, s.pin = p, s.timer = channel[c].timer,
         s.bits = channel[c].bits,
         channel' = [channel EXCEPT ![c] = s], Displays(c, s),
         UNCHANGED <<timer, tone, faults>>
  PROVE  TunedStep(p)
<1>1. PwmInv /\ TuningTypes /\ PinsTuned /\ p # NoPin
  BY PwmAssumption DEF TunedInv
<1>2. /\ \A n \in Channels \ {c} : channel'[n] = channel[n] /\ out'[n] = out[n]
      /\ channel'[c] = s /\ out'[c].pin \in {p, NoPin}
      /\ out'[c].pin # NoPin => out'[c].timer = s.timer
      /\ out[c] = Output(channel[c]) => out'[c] = Output(s)
  BY <1>1, OutputSet DEF PwmInv
<1>3. Touches(c, p)
  BY <1>2 DEF Touches
<1>4. TuningTypes'
  BY <1>1, <1>2 DEF TuningTypes
<1>5. PinsTuned'
  <2> SUFFICES ASSUME faults' = 0
               PROVE  /\ \A u \in Timers : timer'[u].used => Tunes(u)'
                      /\ \A n \in Channels : channel'[n].pin # NoPin => Shown(n)'
    BY DEF PinsTuned
  <2>1. /\ \A u \in Timers : timer[u].used => Tunes(u)
        /\ \A n \in Channels : channel[n].pin # NoPin => Shown(n)
    BY <1>1 DEF PinsTuned
  <2>2. Shown(c)'
    <3>1. Output(channel[c])' = Output(s)
      BY <1>2 DEF Output, NativeDuty
    <3> QED
      BY <1>1, <1>2, <2>1, <3>1 DEF Shown
  <2> QED
    BY <1>1, <1>2, <1>3, <2>1, <2>2, OthersTuned DEF Tunes
<1> QED
  BY <1>3, <1>4, <1>5 DEF TunedStep

LEMMA DrivenIs ==
  ASSUME PwmInv, NEW p \in Driven
  PROVE  \E c \in Channels, t \in Timers :
           /\ c = ChannelOf(p) /\ t = channel[c].timer
           /\ channel[c].pin = p /\ p # NoPin /\ c \in On(t)
<1>1. ChannelOf(p) \in Channels /\ channel[ChannelOf(p)].pin = p
  BY ChannelOfDriven
<1>2. channel[ChannelOf(p)].timer \in Timers
  BY <1>1 DEF PwmInv, ChannelState
<1>3. p # NoPin
  BY PwmAssumption DEF Driven
<1> QED
  BY <1>1, <1>2, <1>3 DEF On

LEMMA FrequencyTuned ==
  ASSUME TunedInv, NEW p \in Pins, NEW f \in Frequencies,
         SetFrequency(p, f) \/ FrequencyDutyFails(p, f)
  PROVE  TunedStep(p)
<1>1. PwmInv /\ TuningTypes /\ PinsTuned
  BY DEF TunedInv
<1>2. PICK c \in Channels, t \in Timers :
        /\ c = ChannelOf(p) /\ t = channel[c].timer
        /\ channel[c].pin = p /\ p # NoPin /\ c \in On(t)
  BY <1>1, DrivenIs DEF SetFrequency, FrequencyDutyFails, Calls
<1> DEFINE s == [channel[c] EXCEPT !.bits = Bits[f]]
           r == Tuned(t, f)
<1>3. /\ s \in ChannelState /\ s.pin = p /\ s.timer = t /\ s.bits = Bits[f]
      /\ s.enabled = channel[c].enabled /\ s.inverted = channel[c].inverted
  BY <1>1, <1>2, PwmAssumption DEF PwmInv, ChannelState
<1>4. r.bits = Bits[f] /\ r.frequency = f
  BY <1>1 DEF Tuned, PwmInv, TimerState
<1>5. /\ channel' = [channel EXCEPT ![c] = s] /\ timer' = [timer EXCEPT ![t] = r]
      /\ tone' = [tone EXCEPT ![t] = f] /\ timer[t].references <= 1
  BY <1>2 DEF SetFrequency, FrequencyDutyFails, OnlyPin
<1>6. /\ SetFrequency(p, f) => Displays(c, s) /\ faults' = faults
      /\ FrequencyDutyFails(p, f) => out' = out
  <2>1. ASSUME SetFrequency(p, f)
        PROVE  Displays(c, s) /\ faults' = faults
    <3>1. /\ s.enabled => out' = [out EXCEPT ![c] = WithLevel(@, NativeDuty(s))]
          /\ ~s.enabled => out' = out
          /\ faults' = faults
      BY <1>2, <2>1 DEF SetFrequency, Faultless
    <3> QED
      BY <1>3, <3>1 DEF Displays
  <2>2. ASSUME FrequencyDutyFails(p, f)
        PROVE  out' = out
    BY <2>2 DEF FrequencyDutyFails
  <2> QED
    BY <2>1, <2>2
<1> HIDE DEF s, r
<1>7. /\ \A n \in Channels \ {c} : channel'[n] = channel[n]
      /\ channel'[c] = s
      /\ \A u \in Timers \ {t} : timer'[u] = timer[u] /\ tone'[u] = tone[u]
      /\ timer'[t] = r /\ tone'[t] = f
      /\ tone' \in [Timers -> Frequencies \cup {0}]
  BY <1>1, <1>5 DEF PwmInv, TuningTypes
<1>8. /\ \A n \in Channels \ {c} : out'[n] = out[n]
      /\ out'[c].pin \in {p, NoPin}
      /\ out'[c].pin # NoPin => out'[c].timer = t
      /\ SetFrequency(p, f) /\ out[c] = Output(channel[c]) => out'[c] = Output(s)
  <2>1. CASE SetFrequency(p, f)
    BY <1>1, <1>2, <1>3, <1>6, <2>1, OutputSet
  <2>2. CASE FrequencyDutyFails(p, f) /\ ~SetFrequency(p, f)
    BY <1>1, <1>2, <1>6, <2>2 DEF PwmInv, TuningTypes
  <2> QED
    BY <2>1, <2>2
<1>9. Touches(c, p)
  BY <1>1, <1>2, <1>5, <1>7, <1>8, Alone DEF Touches
<1>10. faults' \in 0 .. MaxFaults /\ (FrequencyDutyFails(p, f) => faults' # 0)
  BY <1>1, FaultCounted DEF TuningTypes, SetFrequency, FrequencyDutyFails
<1>11. TuningTypes'
  BY <1>1, <1>2, <1>3, <1>4, <1>7, <1>8, <1>10 DEF TuningTypes, Resolutions
<1>12. PinsTuned'
  <2> SUFFICES ASSUME faults' = 0
               PROVE  /\ \A u \in Timers : timer'[u].used => Tunes(u)'
                      /\ \A n \in Channels : channel'[n].pin # NoPin => Shown(n)'
    BY DEF PinsTuned
  <2>1. SetFrequency(p, f) /\ faults = 0
    BY <1>6, <1>10
  <2>2. /\ \A u \in Timers : timer[u].used => Tunes(u)
        /\ \A n \in Channels : channel[n].pin # NoPin => Shown(n)
    BY <1>1, <2>1 DEF PinsTuned
  <2>3. Tunes(t)'
    BY <1>4, <1>7 DEF Tunes
  <2>4. Shown(c)'
    <3>1. Output(channel[c])' = Output(s)
      BY <1>7 DEF Output, NativeDuty
    <3> QED
      BY <1>2, <1>3, <1>7, <1>8, <2>1, <2>2, <3>1 DEF Shown
  <2>5. \A u \in Timers \ {t} : timer'[u].used => Tunes(u)'
    BY <1>7, <2>2 DEF Tunes
  <2>6. \A n \in Channels \ {c} : channel'[n].pin # NoPin => Shown(n)'
    BY <1>1, <1>7, <1>9, <2>2, OthersTuned
  <2> QED
    BY <2>3, <2>4, <2>5, <2>6
<1> QED
  BY <1>9, <1>11, <1>12 DEF TunedStep

LEMMA FrequencyFailsTuned ==
  ASSUME TunedInv, NEW p \in Pins, NEW f \in Frequencies, FrequencyFails(p, f)
  PROVE  TunedStep(p)
<1>1. PwmInv /\ TuningTypes /\ PinsTuned
  BY DEF TunedInv
<1>2. PICK c \in Channels, t \in Timers :
        /\ c = ChannelOf(p) /\ t = channel[c].timer
        /\ channel[c].pin = p /\ p # NoPin /\ c \in On(t)
  BY <1>1, DrivenIs DEF FrequencyFails, Calls
<1>3. /\ UNCHANGED <<channel, timer, out>> /\ timer[t].references <= 1
      /\ tone' \in {tone, [tone EXCEPT ![t] = f]}
  BY <1>2 DEF FrequencyFails, OnlyPin
<1>4. faults' \in 0 .. MaxFaults /\ faults' # 0
  BY <1>1, FaultCounted DEF TuningTypes, FrequencyFails
<1>5. TuningTypes'
  BY <1>1, <1>3, <1>4 DEF TuningTypes
<1>6. Touches(c, p)
  BY <1>1, <1>2, <1>3, Alone DEF Touches, TuningTypes, PwmInv
<1> QED
  BY <1>4, <1>5, <1>6 DEF TunedStep, PinsTuned

LEMMA DeinitTuned ==
  ASSUME TunedInv, NEW p \in Pins, PwmDeinitPin(p)
  PROVE  TunedStep(p)
<1>1. PwmInv /\ TuningTypes /\ PinsTuned
  BY DEF TunedInv
<1>2. PICK c \in Channels, t \in Timers :
        /\ c = ChannelOf(p) /\ t = channel[c].timer
        /\ channel[c].pin = p /\ p # NoPin /\ c \in On(t)
  BY <1>1, DrivenIs DEF PwmDeinitPin
<1> DEFINE left == IF timer[t].references = 0 THEN 0 ELSE timer[t].references - 1
<1>3. /\ channel' = [channel EXCEPT ![c] = Unconfigured]
      /\ timer' = [timer EXCEPT ![t].references = left, ![t].used = left # 0]
      /\ out' = [out EXCEPT ![c] = Detached]
      /\ UNCHANGED <<tone, faults>>
  BY <1>2 DEF PwmDeinitPin, Faultless
<1> HIDE DEF left
<1>4. /\ \A n \in Channels \ {c} : channel'[n] = channel[n] /\ out'[n] = out[n]
      /\ channel'[c] = Unconfigured /\ out'[c] = Detached
      /\ \A u \in Timers : /\ timer'[u].bits = timer[u].bits
                           /\ timer'[u].frequency = timer[u].frequency
      /\ \A u \in Timers \ {t} : timer'[u].used = timer[u].used
  BY <1>1, <1>3 DEF PwmInv, TimerState
<1>5. Unconfigured.pin = NoPin /\ Unconfigured.bits = 0 /\ Detached.pin = NoPin
  BY DEF Unconfigured, Detached
<1>6. timer[t].used
  BY <1>1, <1>2 DEF PwmInv, TimersCounted
<1>7. Touches(c, p)
  BY <1>2, <1>3, <1>4, <1>5 DEF Touches
<1>8. TuningTypes'
  BY <1>1, <1>3, <1>4, <1>5 DEF TuningTypes, Resolutions
<1>9. PinsTuned'
  <2> SUFFICES ASSUME faults' = 0
               PROVE  /\ \A u \in Timers : timer'[u].used => Tunes(u)'
                      /\ \A n \in Channels : channel'[n].pin # NoPin => Shown(n)'
    BY DEF PinsTuned
  <2>1. /\ \A u \in Timers : timer[u].used => Tunes(u)
        /\ \A n \in Channels : channel[n].pin # NoPin => Shown(n)
    BY <1>1, <1>3 DEF PinsTuned
  <2>2. \A u \in Timers : timer'[u].used => Tunes(u)'
    BY <1>3, <1>4, <1>6, <2>1 DEF Tunes
  <2>3. \A n \in Channels \ {c} : channel'[n].pin # NoPin => Shown(n)'
    BY <1>1, <1>4, <1>7, <2>1, OthersTuned
  <2> QED
    BY <1>4, <1>5, <2>2, <2>3
<1> QED
  BY <1>7, <1>8, <1>9 DEF TunedStep

LEMMA FailureTuned ==
  ASSUME TunedInv, NEW p \in Pins, PolarityFails(p) \/ ReleaseFails(p)
  PROVE  TunedStep(p)
<1>1. PwmInv /\ TuningTypes /\ PinsTuned
  BY DEF TunedInv
<1>2. PICK c \in Channels, t \in Timers :
        /\ c = ChannelOf(p) /\ t = channel[c].timer
        /\ channel[c].pin = p /\ p # NoPin /\ c \in On(t)
  BY <1>1, DrivenIs DEF PolarityFails, ReleaseFails, Calls
<1>3. /\ UNCHANGED <<channel, timer, tone>>
      /\ out' \in {out, [out EXCEPT ![c].level = 0], [out EXCEPT ![c] = Detached],
                   [out EXCEPT ![c] = Output(channel[c])]}
  BY <1>2 DEF PolarityFails, ReleaseFails
<1>4. faults' \in 0 .. MaxFaults /\ faults' # 0
  BY <1>1, FaultCounted DEF TuningTypes, PolarityFails, ReleaseFails
<1>5. /\ Detached.pin = NoPin
      /\ Output(channel[c]).pin = p /\ Output(channel[c]).timer = t
  BY <1>2 DEF Detached, Output
<1>6. /\ \A n \in Channels \ {c} : out'[n] = out[n]
      /\ out'[c].pin \in {p, NoPin}
      /\ out'[c].pin # NoPin => out'[c].timer = t
  <2>1. /\ out \in [Channels -> OutputState] /\ out[c] \in OutputState
        /\ out[c].pin \in {p, NoPin} /\ (out[c].pin # NoPin => out[c].timer = t)
    BY <1>1, <1>2 DEF PwmInv, TuningTypes
  <2>2. ASSUME NEW o \in OutputState
        PROVE  [o EXCEPT !.level = 0].pin = o.pin /\ [o EXCEPT !.level = 0].timer = o.timer
    BY DEF OutputState
  <2>3. CASE out' = [out EXCEPT ![c].level = 0]
    BY <2>1, <2>2, <2>3
  <2>4. CASE out' = [out EXCEPT ![c] = Detached]
    BY <1>5, <2>1, <2>4
  <2>5. CASE out' = [out EXCEPT ![c] = Output(channel[c])]
    BY <1>5, <2>1, <2>5
  <2> QED
    BY <1>3, <2>1, <2>3, <2>4, <2>5
<1>7. Touches(c, p)
  BY <1>2, <1>3, <1>6 DEF Touches
<1>8. TuningTypes'
  BY <1>1, <1>2, <1>3, <1>4, <1>6 DEF TuningTypes
<1> QED
  BY <1>4, <1>7, <1>8 DEF TunedStep, PinsTuned

\* A step that changes nothing.
LEMMA IdleTuned ==
  ASSUME TunedInv, NEW p \in Pins, UNCHANGED <<channel, timer, out, tone>>,
         UNCHANGED faults \/ DriverFails
  PROVE  TunedStep(p)
<1>1. PwmInv /\ TuningTypes /\ PinsTuned
  BY DEF TunedInv
<1>2. faults' \in 0 .. MaxFaults /\ (faults' = 0 => faults = 0)
  BY <1>1, FaultCounted DEF TuningTypes, Faultless
<1>3. TuningTypes'
  BY <1>1, <1>2 DEF TuningTypes
<1>4. PinsTuned'
  BY <1>1, <1>2 DEF PinsTuned, Tunes, Shown, Output, NativeDuty
<1> QED
  BY <1>3, <1>4 DEF TunedStep

LEMMA PinStepTuned ==
  ASSUME TunedInv, NEW p \in Pins, PinStep(p)
  PROVE  TunedStep(p)
<1>0. PwmInv /\ TuningTypes /\ PinsTuned
  BY DEF TunedInv
<1>1. ASSUME NEW f \in Frequencies, NEW c \in Channels, NEW t \in Timers,
             NEW d \in Duties, NEW b \in BOOLEAN, PwmInitPin(p, f, d, b, c, t)
      PROVE  TunedStep(p)
  BY <1>1, InitPinTuned
<1>2. ASSUME NEW f \in Frequencies, NEW c \in Channels, NEW t \in Timers,
             InitTimerFails(p, f, c, t) \/ InitApplyFails(p, f, c, t)
      PROVE  TunedStep(p)
  BY <1>2, InitFailsTuned
<1>3. ASSUME NEW f \in Frequencies, SetFrequency(p, f) \/ FrequencyDutyFails(p, f)
      PROVE  TunedStep(p)
  BY <1>3, FrequencyTuned
<1>4. ASSUME NEW f \in Frequencies, FrequencyFails(p, f)
      PROVE  TunedStep(p)
  BY <1>4, FrequencyFailsTuned
<1>5. ASSUME NEW f \in Frequencies, SameFrequency(p, f) \/ FrequencyRefused(p, f)
      PROVE  TunedStep(p)
  BY <1>5, IdleTuned DEF SameFrequency, FrequencyRefused, Faultless
<1>6. ASSUME NEW d \in Duties, SetDuty(p, d)
      PROVE  TunedStep(p)
  <2>1. PICK c \in Channels : c = ChannelOf(p) /\ channel[c].pin = p
    BY <1>0, <1>6, DrivenIs DEF SetDuty, Calls
  <2> DEFINE s == [channel[c] EXCEPT !.duty = d]
  <2>2. /\ s \in ChannelState /\ s.pin = p /\ s.timer = channel[c].timer
        /\ s.bits = channel[c].bits /\ s.enabled = channel[c].enabled
        /\ s.inverted = channel[c].inverted
    BY <1>0, <2>1, PwmAssumption DEF PwmInv, ChannelState
  <2>3. /\ channel' = [channel EXCEPT ![c] = s] /\ UNCHANGED <<timer, tone, faults>>
        /\ s.enabled => out' = [out EXCEPT ![c] = WithLevel(@, NativeDuty(s))]
        /\ ~s.enabled => out' = out
    BY <1>6, <2>1 DEF SetDuty, Faultless
  <2> HIDE DEF s
  <2>4. Displays(c, s)
    BY <2>2, <2>3 DEF Displays
  <2> QED
    BY <2>1, <2>2, <2>3, <2>4, SettingTuned
<1>7. ASSUME NEW b \in BOOLEAN, SetPolarity(p, b)
      PROVE  TunedStep(p)
  <2>1. PICK c \in Channels : c = ChannelOf(p) /\ channel[c].pin = p
    BY <1>0, <1>7, DrivenIs DEF SetPolarity, Calls
  <2> DEFINE s == [channel[c] EXCEPT !.inverted = b]
  <2>2. /\ s \in ChannelState /\ s.pin = p /\ s.timer = channel[c].timer
        /\ s.bits = channel[c].bits
    BY <1>0, <2>1 DEF PwmInv, ChannelState
  <2>3. /\ channel' = [channel EXCEPT ![c] = s] /\ UNCHANGED <<timer, tone, faults>>
        /\ out' = [out EXCEPT ![c] = Output(s)]
    BY <1>7, <2>1 DEF SetPolarity, Faultless
  <2> HIDE DEF s
  <2>4. Displays(c, s)
    BY <2>3 DEF Displays
  <2> QED
    BY <2>1, <2>2, <2>3, <2>4, SettingTuned
<1>8. ASSUME NEW b \in BOOLEAN, SetEnabled(p, b)
      PROVE  TunedStep(p)
  <2>1. PICK c \in Channels : c = ChannelOf(p) /\ channel[c].pin = p
    BY <1>0, <1>8, DrivenIs DEF SetEnabled, Calls
  <2> DEFINE s == [channel[c] EXCEPT !.enabled = b]
  <2>2. /\ s \in ChannelState /\ s.pin = p /\ s.timer = channel[c].timer
        /\ s.bits = channel[c].bits /\ s.inverted = channel[c].inverted
    BY <1>0, <2>1 DEF PwmInv, ChannelState
  <2>3. /\ channel' = [channel EXCEPT ![c] = s] /\ UNCHANGED <<timer, tone, faults>>
        /\ out' = [out EXCEPT ![c] = WithLevel(@, NativeDuty(s))]
    BY <1>8, <2>1 DEF SetEnabled, Faultless
  <2> HIDE DEF s
  <2>4. Displays(c, s)
    BY <2>2, <2>3 DEF Displays
  <2> QED
    BY <2>1, <2>2, <2>3, <2>4, SettingTuned
<1>9. ASSUME NEW op \in {"duty", "enabled"}, SettingFails(p, op)
      PROVE  TunedStep(p)
  BY <1>9, IdleTuned DEF SettingFails
<1>10. CASE InitAgain(p)
  BY <1>10, IdleTuned DEF InitAgain
<1>11. CASE PolarityFails(p) \/ ReleaseFails(p)
  BY <1>11, FailureTuned
<1>12. CASE PwmDeinitPin(p)
  BY <1>12, DeinitTuned
<1> QED
  BY <1>1, <1>2, <1>3, <1>4, <1>5, <1>6, <1>7, <1>8, <1>9, <1>10, <1>11, <1>12
  DEF PinStep

LEMMA TunedInitially == PwmInit => TunedInv
<1> SUFFICES ASSUME PwmInit PROVE TunedInv
  OBVIOUS
<1>1. PwmInv
  BY PwmInitially
<1>2. /\ \A c \in Channels : channel[c].bits = 0 /\ channel[c].pin = NoPin /\ out[c].pin = NoPin
      /\ \A t \in Timers : timer[t].bits = 0 /\ timer[t].used = FALSE
      /\ tone \in [Timers -> Frequencies \cup {0}] /\ faults = 0
  BY DEF PwmInit, Unconfigured, Detached
<1> QED
  BY <1>1, <1>2, PwmAssumption DEF TunedInv, TuningTypes, PinsTuned, Resolutions

LEMMA TunedAlways == Spec => []TunedInv
<1>1. Init => TunedInv
  BY TunedInitially DEF Init
<1>2. TunedInv /\ [Next]_vars => TunedInv'
  <2> SUFFICES ASSUME TunedInv, [Next]_vars
               PROVE  TunedInv'
    OBVIOUS
  <2>1. [PwmNext]_pwmVars
    BY DEF Next, vars
  <2>2. PwmInv'
    BY <2>1, PwmStep DEF TunedInv
  <2>3. TuningTypes' /\ PinsTuned'
    <3>1. CASE UNCHANGED pwmVars
      BY <3>1 DEF pwmVars, TunedInv, TuningTypes, PinsTuned, Tunes, Shown, Output, NativeDuty
    <3>2. ASSUME NEW p \in Pins, PinStep(p)
          PROVE  TuningTypes' /\ PinsTuned'
      BY <3>2, PinStepTuned DEF TunedStep
    <3> QED
      BY <2>1, <3>1, <3>2 DEF PwmNext
  <2> QED
    BY <2>2, <2>3 DEF TunedInv
<1> QED
  BY <1>1, <1>2, PTL DEF Spec

\* As long as the driver has not failed, each pin of PWM shows the frequency and
\* the duty that were set for it, at the resolution of its timer and never above
\* full scale; and an input of the ADC that is configured can be read.
THEOREM SettingsAreShown == Spec => []SettingsShown
<1>1. ASSUME TunedInv, AdcInv
      PROVE  SettingsShown
  <2>1. PwmInv /\ TuningTypes /\ PinsTuned
    BY <1>1 DEF TunedInv
  <2>2. PwmTypeOK
    BY <2>1, LevelsFit DEF PwmTypeOK, PwmInv, TuningTypes
  <2>3. PinsShowSettings
    <3> SUFFICES ASSUME faults = 0, NEW c \in Channels, channel[c].pin # NoPin
                 PROVE  LET t == channel[c].timer IN
                        /\ out[c] = Output(channel[c])
                        /\ tone[t] = timer[t].frequency
                        /\ channel[c].bits = Bits[tone[t]]
      BY DEF PinsShowSettings
    <3>1. Shown(c)
      BY <2>1 DEF PinsTuned
    <3> DEFINE t == channel[c].timer
    <3>2. t \in Timers /\ c \in On(t)
      BY <2>1 DEF PwmInv, ChannelState, On
    <3>3. Tunes(t)
      BY <2>1, <3>2 DEF PwmInv, TimersCounted, PinsTuned
    <3> QED
      BY <3>1, <3>3 DEF Shown, Tunes
  <2> QED
    BY <1>1, <2>2, <2>3 DEF SettingsShown, AdcInv
<1> QED
  BY <1>1, TunedAlways, AdcAlways, PTL

\* No call on one pin, whether it succeeds, is refused or fails half way, changes
\* the frequency, the duty or the polarity that another pin puts out, although the
\* pins share timers.
THEOREM NeighboursAreUndisturbed == Spec => NeighboursUndisturbed
<1>1. TunedInv /\ [Next]_vars =>
        [\E p \in Pins : \A q \in Pins \ {p} : Waveform(q)' = Waveform(q)]_pwmVars
  <2> SUFFICES ASSUME TunedInv, [Next]_vars, ~UNCHANGED pwmVars
               PROVE  \E p \in Pins : \A q \in Pins \ {p} : Waveform(q)' = Waveform(q)
    OBVIOUS
  <2>1. PICK p \in Pins : PinStep(p)
    BY DEF Next, vars, PwmNext
  <2>2. TunedStep(p) /\ PwmInv /\ TuningTypes
    BY <2>1, PinStepTuned DEF TunedInv
  <2>3. CASE UNCHANGED <<out, tone>>
    BY <2>3 DEF Waveform
  <2>4. ASSUME NEW c \in Channels, Touches(c, p)
        PROVE  \A q \in Pins \ {p} : Waveform(q)' = Waveform(q)
    BY <2>2, <2>4, OthersUndisturbed
  <2> QED
    BY <2>2, <2>3, <2>4 DEF TunedStep
<1> QED
  BY <1>1, TunedAlways, PTL DEF Spec, NeighboursUndisturbed

=============================================================================
