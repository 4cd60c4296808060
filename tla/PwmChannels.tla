----------------------------- MODULE PwmChannels -----------------------------
(***************************************************************************)
(* runtime.mod/native/esp32_pwm.c: pins driven by LEDC channels, which     *)
(* share timers by reference count.                                        *)
(*                                                                         *)
(* One task calls these functions, so that each is a step.  init_pin on a  *)
(* pin that is driven already calls four of the others one after the other *)
(* and gives up at the first refusal: it leaves them in todo, and nothing  *)
(* else runs before they are done.                                         *)
(*                                                                         *)
(* out and tone are the LEDC driver: what each channel puts on which pin,  *)
(* and each timer's frequency.  Any driver call may fail, and then changes *)
(* nothing.  faults counts the operations in which one did.                *)
(***************************************************************************)
EXTENDS Integers, Sequences, FiniteSets

CONSTANTS
  Pins,         \* the pins that can be outputs
  NoPin,
  Frequencies,  \* the frequencies asked for, in hertz
  Bits,         \* ledc_find_suitable_duty_resolution; 0 if there is none
  Duties,       \* the duties asked for, of DutyMaximum
  DutyMaximum,  \* BMX_EMBEDDED_PWM_DUTY_MAXIMUM
  NChannels,    \* LEDC_CHANNEL_MAX
  NTimers,      \* LEDC_TIMER_MAX
  MaxFaults     \* bound on the operations in which the driver fails

ASSUME PwmAssumption ==
  /\ NoPin \notin Pins
  /\ Frequencies \subseteq Nat \ {0}
  /\ Bits \in [Frequencies -> Nat]
  /\ DutyMaximum \in Nat \ {0}
  /\ Duties \subseteq 0 .. DutyMaximum
  /\ NChannels \in Nat \ {0}
  /\ NTimers \in Nat \ {0}
  /\ MaxFaults \in Nat

\* Arithmetic: a timer of any resolution has at least one step.
ASSUME ResolutionAssumption ==
  \A b \in {0} \cup {Bits[f] : f \in Frequencies} : 2 ^ b \in Nat \ {0}

VARIABLES
  channel,  \* bmx_esp32_pwm_channels
  timer,    \* bmx_esp32_pwm_timers
  out,      \* what the driver puts out on each channel
  tone,     \* the frequency each of the driver's timers runs at
  todo,     \* the calls init_pin has still to make
  faults

pwmVars == <<channel, timer, out, tone, todo, faults>>

Channels == 0 .. NChannels - 1
Timers == 0 .. NTimers - 1

ChannelState == [pin : Pins \cup {NoPin}, enabled : BOOLEAN, inverted : BOOLEAN,
                 timer : Timers, bits : Nat, duty : 0 .. DutyMaximum]
TimerState == [used : BOOLEAN, references : Nat, bits : Nat,
               frequency : Frequencies \cup {0}]
OutputState == [pin : Pins \cup {NoPin}, timer : Timers, level : Int,
                inverted : BOOLEAN]

\* The fields of a channel that is not configured are not read.
Unconfigured == [pin |-> NoPin, enabled |-> FALSE, inverted |-> FALSE,
                 timer |-> 0, bits |-> 0, duty |-> 0]
Detached == [pin |-> NoPin, timer |-> 0, level |-> 0, inverted |-> FALSE]

----------------------------------------------------------------------------
(* Helpers. *)

IsLeast(n, S) == n \in S /\ \A m \in S : n <= m

Driven == {p \in Pins : \E c \in Channels : channel[c].pin = p}
ChannelOf(p) == CHOOSE c \in Channels : channel[c].pin = p
FreeChannels == {c \in Channels : channel[c].pin = NoPin}

\* bmx_esp32_pwm_timer_for_frequency: one that runs at f already, or else an
\* unused one; the lowest of these is taken.
TimersFor(f) ==
  LET same == {t \in Timers : timer[t].used /\ timer[t].frequency = f}
  IN IF same # {} THEN same ELSE {t \in Timers : ~timer[t].used}

\* Fault: full scale is one too many.
Fault_FullScale(s) ==
  IF s.enabled
  THEN (s.duty * 2 ^ s.bits + DutyMaximum \div 2) \div DutyMaximum
  ELSE 0

\* bmx_esp32_pwm_native_duty, rounded to the nearest.
NativeDuty(s) ==
  IF s.enabled
  THEN (s.duty * (2 ^ s.bits - 1) + DutyMaximum \div 2) \div DutyMaximum
  ELSE 0

\* What bmx_esp32_pwm_apply_channel asks of the driver.
Output(s) == [pin |-> s.pin, timer |-> s.timer, level |-> NativeDuty(s),
              inverted |-> s.inverted]

\* A duty set on a channel that drives no pin shows nowhere.
WithLevel(o, level) == IF o.pin = NoPin THEN o ELSE [o EXCEPT !.level = level]

\* bmx_esp32_pwm_configure_timer, its effect when it succeeds.
Tuned(t, f) == [timer[t] EXCEPT !.used = TRUE, !.bits = Bits[f], !.frequency = f]

Faultless == UNCHANGED faults
DriverFails == faults < MaxFaults /\ faults' = faults + 1

\* The call is the program's, or the next one of init_pin.
Calls(op, p) ==
  /\ p \in Driven
  /\ todo # <<>> => Head(todo) = <<op, p>>

Succeed == todo' = IF todo = <<>> THEN <<>> ELSE Tail(todo)
Refuse == todo' = <<>>

----------------------------------------------------------------------------
(* bmx_embedded_pwm_init_pin. *)

\* On a pin that is driven: set everything again.  The arguments are chosen
\* where they are used.
InitAgain(p) ==
  /\ todo = <<>>
  /\ p \in Driven
  /\ todo' = <<<<"frequency", p>>, <<"polarity", p>>, <<"duty", p>>,
               <<"enabled", p>>>>
  /\ UNCHANGED <<channel, timer, out, tone, faults>>

\* A new pin gets the channel c and the timer t, if there are any.
Gets(p, f, c, t) ==
  /\ todo = <<>>
  /\ p \notin Driven
  /\ IsLeast(c, FreeChannels) /\ IsLeast(t, TimersFor(f))
  /\ timer[t].used \/ Bits[f] # 0

\* A timer in use is left as it is.
Retuned(t, f) == IF timer[t].used THEN timer[t] ELSE Tuned(t, f)
Retone(t, f) == IF timer[t].used THEN tone ELSE [tone EXCEPT ![t] = f]

PwmInitPin(p, f, d, inverted, c, t) ==
  LET s == [pin |-> p, enabled |-> TRUE, inverted |-> inverted, timer |-> t,
            bits |-> Retuned(t, f).bits, duty |-> d]
  IN /\ Gets(p, f, c, t)
     /\ channel' = [channel EXCEPT ![c] = s]
     /\ timer' = [timer EXCEPT ![t] = [Retuned(t, f) EXCEPT !.references = @ + 1]]
     /\ tone' = Retone(t, f)
     /\ out' = [out EXCEPT ![c] = Output(s)]
     /\ Faultless
     /\ UNCHANGED todo

\* ledc_timer_config fails, or ledc_get_freq after it.
InitTimerFails(p, f, c, t) ==
  /\ Gets(p, f, c, t)
  /\ ~timer[t].used
  /\ tone' \in {tone, [tone EXCEPT ![t] = f]}
  /\ DriverFails
  /\ UNCHANGED <<channel, timer, out, todo>>

\* Fault: a timer configured for the pin is kept.
Fault_KeepTimer(p, f, c, t) ==
  /\ Gets(p, f, c, t)
  /\ timer' = [timer EXCEPT ![t] = Retuned(t, f)]
  /\ tone' = Retone(t, f)
  /\ DriverFails
  /\ UNCHANGED <<channel, out, todo>>

\* The channel cannot be configured: both are given back.
InitApplyFails(p, f, c, t) ==
  /\ Gets(p, f, c, t)
  /\ timer' = [timer EXCEPT ![t] =
       [Retuned(t, f) EXCEPT !.used = timer[t].references # 0]]
  /\ tone' = Retone(t, f)
  /\ DriverFails
  /\ UNCHANGED <<channel, out, todo>>

----------------------------------------------------------------------------
(* bmx_embedded_pwm_deinit_pin. *)

PwmDeinitPin(p) ==
  LET c == ChannelOf(p)
      t == channel[c].timer
      left == IF timer[t].references = 0 THEN 0 ELSE timer[t].references - 1
  IN /\ todo = <<>>
     /\ p \in Driven
     /\ channel' = [channel EXCEPT ![c] = Unconfigured]
     /\ timer' = [timer EXCEPT ![t].references = left, ![t].used = left # 0]
     /\ out' = [out EXCEPT ![c] = Detached]
     /\ Faultless
     /\ UNCHANGED <<tone, todo>>

\* Fault: the channel is given back although the driver still has it.
Fault_ReleaseFails(p) ==
  /\ todo = <<>>
  /\ p \in Driven
  /\ channel' = [channel EXCEPT ![ChannelOf(p)] = Unconfigured]
  /\ DriverFails
  /\ UNCHANGED <<timer, out, tone, todo>>

\* The channel stays configured, but ledc_stop has silenced it, unless that
\* failed as well.
ReleaseFails(p) ==
  LET c == ChannelOf(p) IN
  /\ todo = <<>>
  /\ p \in Driven
  /\ out' \in {out, [out EXCEPT ![c].level = 0]}
  /\ DriverFails
  /\ UNCHANGED <<channel, timer, tone, todo>>

----------------------------------------------------------------------------
(* bmx_embedded_pwm_set_pin_frequency. *)

SameFrequency(p, f) ==
  /\ Calls("frequency", p)
  /\ timer[channel[ChannelOf(p)].timer].frequency = f
  /\ Faultless
  /\ Succeed
  /\ UNCHANGED <<channel, timer, out, tone>>

\* Fault: the timer is set although other pins use it.
Fault_OnlyPin(p, f) == timer[channel[ChannelOf(p)].timer].frequency # f

\* The pin's timer may be set to f: no other pin uses it.
OnlyPin(p, f) ==
  LET t == channel[ChannelOf(p)].timer IN
  /\ timer[t].frequency # f
  /\ timer[t].references <= 1

\* Other pins use the timer, or no resolution suits the frequency.
FrequencyRefused(p, f) ==
  /\ Calls("frequency", p)
  /\ timer[channel[ChannelOf(p)].timer].frequency # f
  /\ ~OnlyPin(p, f) \/ Bits[f] = 0
  /\ Faultless
  /\ Refuse
  /\ UNCHANGED <<channel, timer, out, tone>>

\* Fault: the duty is not set again for the new resolution.
Fault_OldLevel(p, f) ==
  LET c == ChannelOf(p)
      t == channel[c].timer
  IN /\ Calls("frequency", p)
     /\ OnlyPin(p, f) /\ Bits[f] # 0
     /\ timer' = [timer EXCEPT ![t] = Tuned(t, f)]
     /\ tone' = [tone EXCEPT ![t] = f]
     /\ channel' = [channel EXCEPT ![c].bits = Bits[f]]
     /\ Faultless
     /\ Succeed
     /\ UNCHANGED out

SetFrequency(p, f) ==
  LET c == ChannelOf(p)
      t == channel[c].timer
      s == [channel[c] EXCEPT !.bits = Bits[f]]
  IN /\ Calls("frequency", p)
     /\ OnlyPin(p, f) /\ Bits[f] # 0
     /\ timer' = [timer EXCEPT ![t] = Tuned(t, f)]
     /\ tone' = [tone EXCEPT ![t] = f]
     /\ channel' = [channel EXCEPT ![c] = s]
     /\ out' = IF s.enabled
               THEN [out EXCEPT ![c] = WithLevel(@, NativeDuty(s))]
               ELSE out
     /\ Faultless
     /\ Succeed

\* The timer cannot be configured, or its frequency not be read afterwards.
FrequencyFails(p, f) ==
  /\ Calls("frequency", p)
  /\ OnlyPin(p, f) /\ Bits[f] # 0
  /\ tone' \in {tone, [tone EXCEPT ![channel[ChannelOf(p)].timer] = f]}
  /\ DriverFails
  /\ Refuse
  /\ UNCHANGED <<channel, timer, out>>

\* The timer has its new frequency, but the duty of the old one.
FrequencyDutyFails(p, f) ==
  LET c == ChannelOf(p)
      t == channel[c].timer
  IN /\ Calls("frequency", p)
     /\ OnlyPin(p, f) /\ Bits[f] # 0
     /\ channel[c].enabled
     /\ timer' = [timer EXCEPT ![t] = Tuned(t, f)]
     /\ tone' = [tone EXCEPT ![t] = f]
     /\ channel' = [channel EXCEPT ![c].bits = Bits[f]]
     /\ DriverFails
     /\ Refuse
     /\ UNCHANGED out

----------------------------------------------------------------------------
(* bmx_embedded_pwm_set_pin_duty, _polarity and _enabled. *)

SetDuty(p, d) ==
  LET c == ChannelOf(p)
      s == [channel[c] EXCEPT !.duty = d]
  IN /\ Calls("duty", p)
     /\ channel' = [channel EXCEPT ![c] = s]
     /\ out' = IF s.enabled
               THEN [out EXCEPT ![c] = WithLevel(@, NativeDuty(s))]
               ELSE out
     /\ Faultless
     /\ Succeed
     /\ UNCHANGED <<timer, tone>>

SetPolarity(p, inverted) ==
  LET c == ChannelOf(p)
      s == [channel[c] EXCEPT !.inverted = inverted]
  IN /\ Calls("polarity", p)
     /\ channel' = [channel EXCEPT ![c] = s]
     /\ out' = [out EXCEPT ![c] = Output(s)]
     /\ Faultless
     /\ Succeed
     /\ UNCHANGED <<timer, tone>>

SetEnabled(p, enabled) ==
  LET c == ChannelOf(p)
      s == [channel[c] EXCEPT !.enabled = enabled]
  IN /\ Calls("enabled", p)
     /\ todo # <<>> => enabled
     /\ channel' = [channel EXCEPT ![c] = s]
     /\ out' = [out EXCEPT ![c] = WithLevel(@, NativeDuty(s))]
     /\ Faultless
     /\ Succeed
     /\ UNCHANGED <<timer, tone>>

\* A duty, or the enabling or disabling, that the driver refuses is taken back.
SettingFails(p, op) ==
  /\ Calls(op, p)
  /\ op = "duty" => channel[ChannelOf(p)].enabled
  /\ DriverFails
  /\ Refuse
  /\ UNCHANGED <<channel, timer, out, tone>>

\* The channel cannot be released; or it was, and then takes the old polarity
\* again, unless that fails too.
PolarityFails(p) ==
  LET c == ChannelOf(p) IN
  /\ Calls("polarity", p)
  /\ out' \in {out, [out EXCEPT ![c].level = 0], [out EXCEPT ![c] = Detached],
               [out EXCEPT ![c] = Output(channel[c])]}
  /\ DriverFails
  /\ Refuse
  /\ UNCHANGED <<channel, timer, tone>>

----------------------------------------------------------------------------
PwmInit ==
  /\ channel = [c \in Channels |-> Unconfigured]
  /\ timer = [t \in Timers |->
       [used |-> FALSE, references |-> 0, bits |-> 0, frequency |-> 0]]
  /\ out = [c \in Channels |-> Detached]
  /\ tone = [t \in Timers |-> 0]
  /\ todo = <<>>
  /\ faults = 0

PinStep(p) ==
  \/ \E f \in Frequencies :
       \/ \E c \in Channels, t \in Timers :
            \/ \E d \in Duties, b \in BOOLEAN : PwmInitPin(p, f, d, b, c, t)
            \/ InitTimerFails(p, f, c, t) \/ InitApplyFails(p, f, c, t)
       \/ SameFrequency(p, f) \/ FrequencyRefused(p, f) \/ SetFrequency(p, f)
       \/ FrequencyFails(p, f) \/ FrequencyDutyFails(p, f)
  \/ \E d \in Duties : SetDuty(p, d)
  \/ \E b \in BOOLEAN : SetPolarity(p, b) \/ SetEnabled(p, b)
  \/ \E op \in {"duty", "enabled"} : SettingFails(p, op)
  \/ InitAgain(p) \/ PolarityFails(p)
  \/ PwmDeinitPin(p) \/ ReleaseFails(p)

PwmNext == \E p \in Pins : PinStep(p)

PwmSpec == PwmInit /\ [][PwmNext]_pwmVars

----------------------------------------------------------------------------
(* Properties. *)

\* The type invariant.  A level never exceeds the resolution it was computed
\* for: 2^bits would overflow the driver's comparator.
PwmTypeOK ==
  /\ channel \in [Channels -> ChannelState]
  /\ timer \in [Timers -> TimerState]
  /\ out \in [Channels -> OutputState]
  /\ tone \in [Timers -> Frequencies \cup {0}]
  /\ faults \in 0 .. MaxFaults
  /\ \A c \in Channels : NativeDuty(channel[c]) \in 0 .. 2 ^ channel[c].bits - 1

\* The channels that are on a timer.
On(t) == {c \in Channels : channel[c].pin # NoPin /\ channel[c].timer = t}

\* A timer is in use exactly while a channel is on it, and counts those
\* channels: no failure or refusal leaks a timer or frees one that is shared.
TimersCounted ==
  \A t \in Timers :
    /\ timer[t].references = Cardinality(On(t))
    /\ timer[t].used <=> On(t) # {}

\* A pin has one output at most, and none once it was given back, whatever
\* the driver refused.
NoOrphanOutput ==
  \A c \in Channels : out[c].pin # NoPin =>
    /\ channel[c].pin = out[c].pin
    /\ \A d \in Channels : out[d].pin = out[c].pin => d = c

\* Channels own their timers and pins, through every failure half way
\* (bmx_esp32_pwm_init_pin, set_pin_frequency and deinit_pin).
ChannelsOwn == TimersCounted /\ NoOrphanOutput

\* As long as the driver has not failed, each pin shows what was set for it:
\* its level is that of its duty at the resolution its timer now has.
PinsShowSettings ==
  faults = 0 =>
    \A c \in Channels : channel[c].pin # NoPin =>
      LET t == channel[c].timer IN
      /\ out[c] = Output(channel[c])
      /\ tone[t] = timer[t].frequency
      /\ channel[c].bits = Bits[tone[t]]

\* What can be seen on a pin.
Waveform(p) ==
  {<<tone[out[c].timer], out[c].level, out[c].inverted>> :
     c \in {n \in Channels : out[n].pin = p}}

\* An operation on one pin, failing or not, changes the waveform of no other.
NeighboursUndisturbed ==
  [][\E p \in Pins : \A q \in Pins \ {p} : Waveform(q)' = Waveform(q)]_pwmVars

\* hardware.mod/pwm.mod/pwm.bmx:9-10: "pins requesting the same frequency
\* share a timer".
SameFrequencySharesTimer ==
  \A t, u \in Timers :
    timer[t].used /\ timer[u].used /\ timer[t].frequency = timer[u].frequency
      => t = u
=============================================================================
