-------------------------------- MODULE GpioPins --------------------------------
(***************************************************************************)
(* runtime.mod/native/esp32_gpio.c, one pin: what the module remembers of  *)
(* it beside what the pad does, and its interrupt, which may run on the    *)
(* other core between any two steps of the task that sets it up.           *)
(*                                                                         *)
(* A step is a call of the driver, a critical section or an unlocked       *)
(* access.  What calls the driver and then only notes what it has done is  *)
(* a step.  Any call of the driver may fail, and then changes nothing; but *)
(* removing a handler does not.                                            *)
(***************************************************************************)
EXTENDS Naturals, Sequences, SequencesExt

CONSTANTS
  Pulls,    \* the sets of pulls asked for
  IrqMasks  \* the interrupt masks asked for

\* bmx_esp32_gpio_interrupt_type accepts no other masks.
ASSUME GpioAssumption ==
  /\ Pulls \subseteq SUBSET {"up", "down"}
  /\ IrqMasks \subseteq {{"low"}, {"high"}, {"fall"}, {"rise"}, {"fall", "rise"}}

VARIABLES
  gpio,      \* the module: direction and output, pulls
  pad,       \* the driver: the same of the pad
  gpioTorn,  \* the last gpio_init failed half way
  irq,       \* the module: mask, events, token
  pin,       \* the driver: the kind of interrupt, whether it is on, whether
             \* the handler is in place
  task,      \* what the task has still to do in set_irq_enabled or take
  isr,       \* the handler: where it is and what it has read
  posted,    \* a deferred event is queued for the program
  unposted   \* events came in while the pin had no token

padVars == <<gpio, pad, gpioTorn>>
irqVars == <<irq, pin, task, isr, posted, unposted>>
gpioVars == <<padVars, irqVars>>

ResetPad == [direction |-> "in", output |-> 0, pulls |-> {}]
PadState == [direction : {"in", "out", "off"}, output : {0, 1},
             pulls : SUBSET {"up", "down"}]

Bits == UNION IrqMasks
Asleep == [at |-> "idle", events |-> {}, token |-> FALSE]
Kinds == IrqMasks \cup {{}}

----------------------------------------------------------------------------
(* The pad. *)

Idle == task = <<>>

\* Fault: the level that is remembered outlives the pin's reset.
Fault_GpioInitialize ==
  /\ Idle
  /\ gpio' = [ResetPad EXCEPT !.output = gpio.output] /\ pad' = ResetPad
  /\ gpioTorn' = FALSE
  /\ pin' = [pin EXCEPT !.on = FALSE, !.kind = {}]
  /\ UNCHANGED <<irq, task, isr, posted, unposted>>

\* bmx_embedded_gpio_init.  The driver's reset also turns the interrupt off.
GpioInitialize ==
  /\ Idle
  /\ gpio' = ResetPad /\ pad' = ResetPad
  /\ gpioTorn' = FALSE
  /\ pin' = [pin EXCEPT !.on = FALSE, !.kind = {}]
  /\ UNCHANGED <<irq, task, isr, posted, unposted>>

\* The pad is reset, with its pull up, and what comes after that fails.
GpioInitializeFails ==
  /\ Idle
  /\ pad' \in {[pad EXCEPT !.direction = "off", !.pulls = {"up"}],
               [ResetPad EXCEPT !.direction = "off", !.pulls = {"up"}],
               [ResetPad EXCEPT !.direction = "off"]}
  /\ gpioTorn' = TRUE
  /\ pin' = [pin EXCEPT !.on = FALSE, !.kind = {}]
  /\ UNCHANGED <<gpio, irq, task, isr, posted, unposted>>

\* bmx_embedded_gpio_set_direction, put and set_pulls.
SetDirection(d) ==
  /\ Idle
  /\ pad' = [pad EXCEPT !.direction = d]
  /\ gpio' = [gpio EXCEPT !.direction = d]
  /\ UNCHANGED <<gpioTorn, irqVars>>

Put(value) ==
  /\ Idle
  /\ pad' = [pad EXCEPT !.output = value]
  /\ gpio' = [gpio EXCEPT !.output = value]
  /\ UNCHANGED <<gpioTorn, irqVars>>

SetPulls(pulls) ==
  /\ Idle
  /\ pad' = [pad EXCEPT !.pulls = pulls]
  /\ gpio' = [gpio EXCEPT !.pulls = pulls]
  /\ UNCHANGED <<gpioTorn, irqVars>>

----------------------------------------------------------------------------
(* bmx_embedded_gpio_set_irq_enabled. *)

\* What it goes through to enable, and to disable.
Enabling(mask) == <<[op |-> "kind", mask |-> mask], [op |-> "mask", mask |-> mask],
                    [op |-> "handler", mask |-> mask], [op |-> "on", mask |-> mask]>>
Disabling == <<[op |-> "off"], [op |-> "remove"], [op |-> "clear"]>>

EnableIrq(mask) ==
  /\ Idle
  /\ task' = Enabling(mask)
  /\ UNCHANGED <<padVars, irq, pin, isr, posted, unposted>>

DisableIrq ==
  /\ Idle
  /\ task' = Disabling
  /\ UNCHANGED <<padVars, irq, pin, isr, posted, unposted>>

Doing(op) == task # <<>> /\ Head(task).op = op

\* A call of the driver.
DriverStep(op, state) ==
  /\ Doing(op)
  /\ pin' = state
  /\ task' = Tail(task)
  /\ UNCHANGED <<padVars, irq, isr, posted, unposted>>

SetKind == DriverStep("kind", [pin EXCEPT !.kind = Head(task).mask])
AddHandler == DriverStep("handler", [pin EXCEPT !.handler = TRUE, !.on = TRUE])
TurnOn == DriverStep("on", [pin EXCEPT !.on = TRUE])
TurnOff == DriverStep("off", [pin EXCEPT !.on = FALSE])
RemoveHandler == DriverStep("remove", [pin EXCEPT !.handler = FALSE, !.on = FALSE])

\* Fault: a handler that cannot be turned on is removed, and its mask stays.
Fault_DriverFails ==
  /\ Doing("kind") \/ Doing("off") \/ Doing("handler") \/ Doing("on")
  /\ task' = CASE Doing("handler") -> <<[op |-> "clear"]>>
               [] Doing("on") -> <<[op |-> "remove"]>>
               [] OTHER -> <<>>
  /\ UNCHANGED <<padVars, irq, pin, isr, posted, unposted>>

\* A refused call ends it; after the mask was set that is taken back, and the
\* handler too when it was added.
DriverFails ==
  /\ Doing("kind") \/ Doing("off") \/ Doing("handler") \/ Doing("on")
  /\ task' = CASE Doing("handler") -> <<[op |-> "clear"]>>
               [] Doing("on") -> Tail(Disabling)
               [] OTHER -> <<>>
  /\ UNCHANGED <<padVars, irq, pin, isr, posted, unposted>>

\* The two critical sections that write the mask.
SetMask ==
  /\ Doing("mask") \/ Doing("clear")
  /\ irq' = [irq EXCEPT !.mask = IF Doing("mask") THEN Head(task).mask ELSE {}]
  /\ task' = Tail(task)
  /\ UNCHANGED <<padVars, pin, isr, posted, unposted>>

----------------------------------------------------------------------------
(* bmx_esp32_gpio_interrupt. *)

\* The mask is read without the lock; on both edges the level then tells which
\* one it was.
InterruptReads ==
  /\ isr.at = "idle" /\ pin.on /\ pin.handler
  /\ \E events \in IF irq.mask = {"fall", "rise"} THEN {{"fall"}, {"rise"}}
                   ELSE {irq.mask} :
       isr' = [Asleep EXCEPT !.at = "read", !.events = events]
  /\ UNCHANGED <<padVars, irq, pin, task, posted, unposted>>

\* The critical section.
InterruptRecords ==
  /\ isr.at = "read"
  /\ irq' = [irq EXCEPT !.events = @ \cup isr.events]
  /\ isr' = [isr EXCEPT !.at = "recorded", !.token = irq.token]
  /\ unposted' = (unposted \/ ~irq.token)
  /\ UNCHANGED <<padVars, pin, task, posted>>

\* Fault: the event that tells of an interrupt is not posted.
Fault_InterruptPosts ==
  /\ isr.at = "recorded"
  /\ isr' = Asleep
  /\ UNCHANGED <<padVars, irq, pin, task, posted, unposted>>

\* bmx_embedded_event_post_from_isr_ex does nothing without a token.
InterruptPosts ==
  /\ isr.at = "recorded"
  /\ posted' = (posted \/ isr.token)
  /\ isr' = Asleep
  /\ UNCHANGED <<padVars, irq, pin, task, unposted>>

----------------------------------------------------------------------------
(* The program's side of the events. *)

\* bmx_embedded_gpio_set_event_token, with the pin's token or with none.
SetEventToken(token) ==
  /\ Idle
  /\ irq' = [irq EXCEPT !.token = token]
  /\ UNCHANGED <<padVars, pin, task, isr, posted, unposted>>

\* The program takes the deferred event, and then what came in.
TakePosted ==
  /\ Idle /\ posted
  /\ posted' = FALSE
  /\ task' = <<[op |-> "take"]>>
  /\ UNCHANGED <<padVars, irq, pin, isr, unposted>>

\* bmx_embedded_gpio_take_irq_events, which the program may call at any time.
TakeIrqEvents ==
  /\ Idle \/ Doing("take")
  /\ irq' = [irq EXCEPT !.events = {}]
  /\ unposted' = FALSE
  /\ task' = <<>>
  /\ UNCHANGED <<padVars, pin, isr, posted>>

----------------------------------------------------------------------------
GpioInit ==
  /\ gpio = ResetPad /\ pad = ResetPad
  /\ gpioTorn = FALSE
  /\ irq = [mask |-> {}, events |-> {}, token |-> FALSE]
  /\ pin = [kind |-> {}, on |-> FALSE, handler |-> FALSE]
  /\ task = <<>> /\ isr = Asleep
  /\ posted = FALSE /\ unposted = FALSE

GpioNext ==
  \/ GpioInitialize \/ GpioInitializeFails
  \/ \E d \in {"in", "out"} : SetDirection(d)
  \/ \E value \in {0, 1} : Put(value)
  \/ \E pulls \in Pulls : SetPulls(pulls)
  \/ \E mask \in IrqMasks : EnableIrq(mask)
  \/ DisableIrq
  \/ SetKind \/ AddHandler \/ TurnOn \/ TurnOff \/ RemoveHandler
  \/ DriverFails \/ SetMask
  \/ InterruptReads \/ InterruptRecords \/ InterruptPosts
  \/ \E token \in BOOLEAN : SetEventToken(token)
  \/ TakePosted \/ TakeIrqEvents

----------------------------------------------------------------------------
(* Properties. *)

\* The module's tables and the pad are of their types; only a bit of a mask is
\* ever an event.
GpioTypeOK ==
  /\ gpio \in PadState /\ pad \in PadState
  /\ gpioTorn \in BOOLEAN
  /\ irq \in [mask : Kinds, events : SUBSET Bits, token : BOOLEAN]
  /\ pin \in [kind : Kinds, on : BOOLEAN, handler : BOOLEAN]
  /\ isr \in [at : {"idle", "read", "recorded"}, events : SUBSET Bits,
              token : BOOLEAN]
  /\ posted \in BOOLEAN /\ unposted \in BOOLEAN

\* The module remembers what the pad does, unless an init failed half way.
PadRemembered == gpioTorn \/ \A f \in DOMAIN gpio : gpio[f] = pad[f]

\* Once set_irq_enabled has returned, whatever call of the driver failed, a pin
\* with a mask has its handler, and no interrupt but those of the mask: another
\* would be reported as one of them, for the handler goes by the mask.
MaskHasHandler ==
  Idle /\ irq.mask # {} => pin.handler /\ pin.kind \in {irq.mask, {}}

\* Whoever waits for the pin's deferred event learns of every interrupt: while
\* events wait to be taken one is queued, or being posted, or being acted upon
\* (bmx_esp32_gpio_interrupt records them before it posts; take clears all).
InterruptsAnnounced ==
  irq.events # {} =>
    posted \/ unposted \/ isr.at = "recorded" \/ Doing("take")
=============================================================================
