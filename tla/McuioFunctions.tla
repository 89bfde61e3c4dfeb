-------------------------- MODULE McuioFunctions --------------------------
(***************************************************************************)
(* The mcuio task of the Yun with its functions but i2c (module I2c): the  *)
(* dispatch of the host's requests (mcuio/task-mcuio.c), the gpio, pwm,    *)
(* adc, shield, zero and interrupt test functions, and the interrupt       *)
(* controller that tells the host of interrupts.                           *)
(*                                                                         *)
(* The handlers of the event queue run one after the other.  Three things  *)
(* are shared between them: the reply buffer of the functions that have no *)
(* runtime of their own, the one message buffer of the interrupt           *)
(* controller, which is also its reply buffer, and the queue.              *)
(***************************************************************************)
EXTENDS GpioPwm

CONSTANTS
    Scripts,     \* the sequences of requests that the host may make unasked
    Pins,        \* the gpios that change from outside
    MaxChanges,  \* bound: how often a gpio changes from outside
    MaxI2cIrqs,  \* bound: how often the i2c function raises its interrupt
    Outstanding, \* how many requests the host may have under way
    QueueSize    \* how many events the event queue can hold

\* The requests of the host: any access to any register, but that it addresses
\* no output or input beyond those that the tables hold.
Functions == {"gpio", "pwm", "adc", "irq_test", "irqc", "js", "zero"}
Requests ==
    {p \in [f : Functions \cup {"none"}, off : Nat, t : 0 .. 7, fill : BOOLEAN,
            rep : {FALSE}, err : {FALSE}, data : [1 .. 8 -> 0 .. 255]] :
        p.f \in {"pwm", "adc"} => p.off < 64 * 7}

ASSUME FunctionsAssumption ==
    /\ Scripts \subseteq Seq(Requests)
    /\ Pins \subseteq Gpios
    /\ MaxChanges \in Nat /\ MaxI2cIrqs \in Nat
    /\ Outstanding \in Nat \ {0} /\ QueueSize \in Nat \ {0}

VARIABLES
    g, w,        \* the gpios and the pwm outputs
    adc,         \* [en: ADEN, sel: the input that ADMUX selects]
    zero,        \* zero_rw_contents
    irqt,        \* [active, enabled] of the interrupt test function
    to_host,     \* struct mcuio_function_runtime, by runtime
    q,           \* the event queue
    inp,         \* the packets in the input pipe
    alive,       \* the program is not lost in a loop or a null call
    host,        \* [todo: requests to make, told: functions it was told of]
    env,         \* how often the gpios have changed, the i2c function interrupted
    owed,        \* history: gpios with an edge that the host has not read of
    lost         \* history: functions whose message to the host was lost

regs == <<g, w, adc, zero, irqt>>
hist == <<owed, lost>>
vars == <<regs, to_host, q, inp, alive, host, env, hist>>

Packet(f, off, t, fill, data) ==
    [f |-> f, off |-> off, t |-> t, fill |-> fill, rep |-> FALSE, err |-> FALSE, data |-> data]
Zeros == <<0, 0, 0, 0, 0, 0, 0, 0>>
NoPacket == Packet("none", 0, 0, FALSE, Zeros)

\* The numbers of the functions that raise interrupts, and what the gpio
\* function's is: port_data.function is not set.
irq_test == 3
i2c      == 2
NoFunction == 99

\* The read of the interrupt test function's status, which clears it.
StatusRead == Packet("irq_test", 12, 4, FALSE, Zeros)

\* trigger_event
Full(queue) == Len(queue) >= QueueSize
Trigger(queue, e) == IF Full(queue) THEN queue ELSE Append(queue, e)
Irq_(f, active) == <<"irq", f, active>>
Queued(e) == \E k \in DOMAIN q : q[k] = e

\* What zero_rw_contents holds at first.
ZeroByte(a) == 100 + a

Init ==
    /\ g = GpioInit /\ w = PwmInit /\ adc = [en |-> FALSE, sel |-> 0]
    /\ zero = [a \in 0 .. 7 |-> ZeroByte(a)]
    /\ irqt = [active |-> FALSE, enabled |-> FALSE]
    /\ to_host = [r \in {"common", "pwm", "adc", "irqc"} |-> NoPacket]
    /\ q = <<>> /\ inp = <<>> /\ alive = TRUE
    /\ \E script \in Scripts : host = [todo |-> script, told |-> {}]
    /\ env = [changes |-> 0, i2c |-> 0]
    /\ owed = {} /\ lost = {}

-----------------------------------------------------------------------------
(* The functions' ranges                                                   *)

gpio_ranges ==
    << Range_(0, 8, "ro"), Range_(8, 8, "ro"),
       Range_(16, 4 * MCUIO_NGPIO, "ro"), Range_(272, MCUIO_NGPIO, "ro"), Range_(784, MCUIO_NGPIO, "ro"),
       Range_(1296, 512, "modes"), Range_(1808, 512, "evts"),
       Range_(2320, 8, "data"), Range_(2328, 8, "set"), Range_(2336, 8, "clr"), Range_(2344, 8, "status") >>
pwm_ranges == << Range_(0, 8, "ro"), Range_(8, 4, "ro"), Range_(64, 4032, "pwm") >>
adc_ranges == << Range_(0, 8, "ro"), Range_(8, 4, "ro"), Range_(16, 4, "ro"),
                 Range_(20, 4, "adc_gen"), Range_(64, 4032, "adc") >>
irq_test_ranges == << Range_(0, 8, "ro"), Range_(12, 4, "irq_test") >>
irq_controller_msg_ranges == << Range_(0, 8, "ro") >>
js_ranges == << Range_(0, 8, "ro") >>
zero_ranges == << Range_(0, 8, "ro"), Range_(8, 8, "ro"), Range_(16, 8, "rw") >>

Ranges(f) == CASE f = "gpio" -> gpio_ranges [] f = "pwm" -> pwm_ranges
               [] f = "adc" -> adc_ranges [] f = "irq_test" -> irq_test_ranges
               [] f = "irqc" -> irq_controller_msg_ranges
               [] f = "js" -> js_ranges [] f = "zero" -> zero_ranges

\* gpio, zero, js and irq_test share mcuio_func_common_runtime.
Runtime(f) == IF f \in {"pwm", "adc", "irqc"} THEN f ELSE "common"

\* What the memory of constants holds for a read only range, and the ram at
\* the same address.
RoByte(a) == 1000 + a
Flash == [a \in Nat |-> RoByte(a)]
Ram   == [a \in Nat |-> IF Harvard THEN 2000 + a ELSE RoByte(a)]

\* Which accesses a range has an operation for: rd[] and wr[].
HasOp(ops, p) ==
    CASE ops = "ro" -> is_read(p)
      [] ops = "rw" -> TRUE
      [] ops \in {"data", "modes"} -> p.t \div 2 < 4
      [] ops \in {"set", "clr"} -> is_write(p)
      [] ops \in {"evts", "pwm", "adc_gen", "irq_test"} -> p.t \in {4, 5}
      [] ops \in {"status", "adc"} -> p.t = 4

-----------------------------------------------------------------------------
(* mcuio_request_received: every operation answers at once                 *)

At(e) == alive /\ q # <<>> /\ Head(q) = e
Req == Head(inp)
Rest == Tail(q)

\* The request at hand is for a range with these operations, one of which
\* serves it, and p.off - r.start is off.
Serving(ops) ==
    /\ At(<<"data_ready">>) /\ ~Req.rep /\ Req.f # "none"
    /\ LET i == lookup_range(Ranges(Req.f), Req)
       IN  i > 0 /\ Ranges(Req.f)[i].ops = ops
    /\ HasOp(ops, Req)
Off == Req.off - Ranges(Req.f)[lookup_range(Ranges(Req.f), Req)].start

\* The message that waits in the interrupt controller's buffer is lost when
\* something else is put there before it is sent.
Waiting == IF Queued(<<"request">>) /\ to_host["irqc"].f = "host" THEN {to_host["irqc"].off} ELSE {}
Overwritten(r) == IF r = "irqc" THEN Waiting ELSE {}

\* The answer a is in the runtime's buffer and is sent to the host.
Send(r, a) ==
    /\ to_host' = [to_host EXCEPT ![r] = a]
    /\ inp' = Tail(inp)

\* Mutated form: the answer is not taken from the request but from what the
\* buffer held.
AnswerStale(stat, data) ==
    LET a == [set_reply(to_host[Runtime(Req.f)]) EXCEPT !.data = Put(@, data)]
    IN  Send(Runtime(Req.f), IF stat < 0 THEN set_error(a, -stat) ELSE a)

\* __exec_request has put the request in the buffer; the operation returns
\* stat and may have put data there.
Answer(stat, data) ==
    LET a == [set_reply(Req) EXCEPT !.data = Put(@, data)]
    IN  Send(Runtime(Req.f), IF stat < 0 THEN set_error(a, -stat) ELSE a)

\* A request that an operation on the registers of a device serves.
ServeRo ==
    /\ Serving("ro")
    /\ Answer(AccessLen(Req), default_rd(Flash, Ram, Req.off, Req))
    /\ q' = Rest
    /\ lost' = lost \cup Overwritten(Runtime(Req.f))
    /\ UNCHANGED <<regs, alive, host, env, owed>>

ServeZero ==
    /\ Serving("rw")
    /\ IF is_read(Req)
       THEN /\ Answer(AccessLen(Req),
                      default_rd([a \in Nat |-> ZeroByte(a)], [a \in Nat |-> zero[a % 8]],
                                 Off, Req))
            /\ UNCHANGED zero
       ELSE /\ Answer(AccessLen(Req), <<>>)
            /\ zero' = default_wr(zero, Off, Req)
    /\ q' = Rest
    /\ UNCHANGED <<g, w, adc, irqt, alive, host, env, owed, lost>>

\* The gpio ranges but those of set and of the status.  (off and r are bound
\* by \E for TLC to compute them once.)
GpioResult(ops, off) ==
    CASE Req.t \in {6, 7} /\ ops # "evts" -> Done(g, -EPERM)
      [] ops = "data"  -> IF is_read(Req) THEN gpio_data_rd(g, off, Req) ELSE gpio_data_wr(g, off, Req, Req.data)
      [] ops = "clr"   -> IF Req.t = 1 THEN gpio_data_wr(g, off, Req, Req.data) ELSE gpio_clr_wr(g, off, Req)
      [] ops = "modes" -> IF is_read(Req) THEN gpio_modes_rd(g, off, Req) ELSE gpio_modes_wr(g, off, Req)
      [] ops = "evts"  -> IF is_read(Req) THEN gpio_evts_rd(g, off, Req) ELSE gpio_evts_wr(g, off, Req)

ServeGpio ==
    /\ \E ops \in {"data", "clr", "modes", "evts"} :
          /\ Serving(ops)
          /\ \E off \in {Off} : \E r \in {GpioResult(ops, off)} :
                Answer(r.stat, r.data) /\ g' = r.g
    /\ q' = Rest
    /\ UNCHANGED <<w, adc, zero, irqt, alive, host, env, owed, lost>>

\* __gpio_set_wr swaps two arguments: without fill its loop never ends, with
\* fill it returns -EINVAL; gpio_set_wrb writes the data.
ServeGpioSet ==
    /\ Serving("set")
    /\ \/ /\ Req.t = 1
          /\ \E r \in {gpio_data_wr(g, Off, Req, Req.data)} : Answer(r.stat, r.data) /\ g' = r.g
          /\ q' = Rest /\ UNCHANGED alive
       \/ /\ Req.t = 7 \/ (Req.t \in {3, 5} /\ Req.fill)
          /\ Answer(IF Req.t = 7 THEN -EPERM ELSE -EINVAL, <<>>)
          /\ q' = Rest /\ UNCHANGED <<g, alive>>
       \/ /\ Req.t \in {3, 5} /\ ~Req.fill
          /\ alive' = FALSE
          /\ UNCHANGED <<g, q, to_host, inp>>
    /\ UNCHANGED <<w, adc, zero, irqt, host, env, owed, lost>>

\* The interrupt that goes away is of no function (see GpioEvt).
ServeGpioStatus ==
    /\ Serving("status")
    /\ \E lvl \in Levels(g) : \E r \in {gpio_evts_status_rd(g, Off, Req, lvl)} :
          /\ g' = r.g
          /\ Answer(r.stat, r.data)
          /\ q' = IF r.irq THEN Trigger(Rest, Irq_(NoFunction, FALSE)) ELSE Rest
          /\ owed' = (owed \ DataBits(r.data, 8 * Off, EvtCount(Req))) \cup g.events
    /\ UNCHANGED <<w, adc, zero, irqt, alive, host, env, lost>>

ServePwm ==
    /\ Serving("pwm")
    /\ \/ /\ is_read(Req)
          /\ \E v \in {pwm_ctrl_rddw(w, Off, RoByte(Off))} :
                Answer(IF v < 0 THEN v ELSE 0, IF v < 0 THEN <<>> ELSE Dword(v))
          /\ q' = Rest /\ UNCHANGED <<w, g, alive>>
       \/ /\ is_write(Req) /\ ~PwmLost(Off)
          /\ \E r \in {pwm_ctrl_wrdw(w, Off, Value(Req.data), g.DDR)} :
                Answer(r.stat, <<>>) /\ w' = r.w /\ g' = [g EXCEPT !.DDR = r.ddr]
          /\ q' = Rest /\ UNCHANGED alive
       \/ /\ is_write(Req) /\ PwmLost(Off)
          /\ alive' = FALSE
          /\ UNCHANGED <<w, g, q, to_host, inp>>
    /\ UNCHANGED <<adc, zero, irqt, host, env, owed, lost>>

\* adc_gen_ctrl_rddw, adc_gen_ctrl_wrdw and adc_ctrl_rddw, where adc_sample
\* selects the input that adcs[] names.
hw_idx(idx) == <<7, 6, 5, 4, 1, 0>>[idx + 1]
ServeAdc ==
    /\ \/ /\ Serving("adc_gen")
          /\ IF is_read(Req)
             THEN Answer(0, Dword(IF adc.en THEN 1 ELSE 0)) /\ UNCHANGED adc
             ELSE Answer(0, <<>>) /\ adc' = [adc EXCEPT !.en = Value(Req.data) # 0]
       \/ /\ Serving("adc")
          /\ LET reg == Off % 64
             IN  CASE reg \in {0, 4, 8} -> Answer(0, Dword(RoByte(Off))) /\ UNCHANGED adc
                   [] reg = 12 /\ adc.en -> /\ Answer(0, Dword(hw_idx(Off \div 64)))
                                            /\ adc' = [adc EXCEPT !.sel = hw_idx(Off \div 64)]
                   [] reg = 12 /\ ~adc.en -> Answer(-EACCES, <<>>) /\ UNCHANGED adc
                   [] OTHER -> Answer(-EINVAL, <<>>) /\ UNCHANGED adc
    /\ q' = Rest
    /\ UNCHANGED <<g, w, zero, irqt, alive, host, env, owed, lost>>

\* Mutated form: reading the status does not clear it.
StatusRead_Keeps == irqt

\* What reading the status leaves of it.
irq_test_status_rddw == [irqt EXCEPT !.active = FALSE]

\* irq_test_status_rddw clears the interrupt, irq_test_status_wrdw enables it.
ServeIrqTest ==
    /\ Serving("irq_test")
    /\ IF is_read(Req)
       THEN /\ Answer(4, Dword(IF irqt.active THEN 1 ELSE 0))
            /\ irqt' = irq_test_status_rddw
            /\ q' = IF irqt.active THEN Trigger(Rest, Irq_(irq_test, FALSE)) ELSE Rest
            /\ lost' = lost \ {irq_test}
       ELSE /\ Answer(4, <<>>)
            /\ irqt' = [irqt EXCEPT !.enabled = Value(Req.data) # 0]
            /\ q' = Rest /\ UNCHANGED lost
    /\ UNCHANGED <<g, w, adc, zero, alive, host, env, owed>>

\* The range has no operation for the access: -EPERM.
ServeNoOp ==
    /\ At(<<"data_ready">>) /\ ~Req.rep /\ Req.f # "none"
    /\ LET i == lookup_range(Ranges(Req.f), Req)
       IN  i > 0 /\ ~HasOp(Ranges(Req.f)[i].ops, Req)
    /\ Answer(-EPERM, <<>>)
    /\ q' = Rest
    /\ lost' = lost \cup Overwritten(Runtime(Req.f))
    /\ UNCHANGED <<regs, alive, host, env, owed>>

\* No range: the buffer is sent as an error, whatever was in it.
ServeNoRange ==
    /\ At(<<"data_ready">>) /\ ~Req.rep /\ Req.f # "none"
    /\ lookup_range(Ranges(Req.f), Req) = 0
    /\ Send(Runtime(Req.f), set_error(to_host[Runtime(Req.f)], EINVAL))
    /\ q' = Rest
    /\ lost' = lost \cup Overwritten(Runtime(Req.f))
    /\ UNCHANGED <<regs, alive, host, env, owed>>

\* No function: the packet itself is sent back as an error.
ServeNoFunction ==
    /\ At(<<"data_ready">>) /\ ~Req.rep /\ Req.f = "none"
    /\ LET a == set_error(Req, -ENODEV) IN  a.err
    /\ inp' = Tail(inp) /\ q' = Rest
    /\ UNCHANGED <<regs, to_host, alive, host, env, owed, lost>>

\* irq_ctrl_msg_on_reply: the host has answered a message; nothing to do.
ReplyReceived ==
    /\ At(<<"data_ready">>) /\ Req.rep
    /\ inp' = Tail(inp) /\ q' = Rest
    /\ UNCHANGED <<regs, to_host, alive, host, env, hist>>

Serve == \/ ServeRo \/ ServeZero \/ ServeGpio \/ ServeGpioSet \/ ServeGpioStatus
         \/ ServePwm \/ ServeAdc \/ ServeIrqTest
         \/ ServeNoOp \/ ServeNoRange \/ ServeNoFunction \/ ReplyReceived

-----------------------------------------------------------------------------
(* The other events                                                        *)

\* Mutated form: the interrupt is active before it is known to be enabled.
hwtimer_evt_handle_Active(due) == [irqt EXCEPT !.active = @ \/ due]

\* The test function's interrupt.  due: jiffies is a multiple of
\* CONFIG_MCUIO_IRQ_TEST_HW_TICKS.
hwtimer_evt_handle(due) == [irqt EXCEPT !.active = @ \/ (due /\ irqt.enabled)]

\* hw_timer_tick: gpio_sample and hwtimer_evt_handle.
Tick ==
    /\ At(<<"tick">>)
    /\ g' = gpio_sample(g)
    /\ owed' = owed \cup Edges(g)
    /\ LET q1 == IF Edges(g) # {} THEN Trigger(Rest, <<"gpio_evt">>) ELSE Rest
       IN  \E due \in BOOLEAN :
              LET raise == due /\ irqt.enabled /\ ~irqt.active
              IN  /\ irqt' = hwtimer_evt_handle(due)
                  /\ q' = IF raise THEN Trigger(q1, Irq_(irq_test, TRUE)) ELSE q1
                  /\ lost' = IF raise /\ Full(q1) THEN lost \cup {irq_test} ELSE lost
    /\ UNCHANGED <<w, adc, zero, to_host, inp, alive, host, env>>

\* __gpio_evt_handle.  port_data.function is not set: the interrupt is that
\* of no function.
GpioEvt ==
    /\ At(<<"gpio_evt">>)
    /\ \E lvl \in Levels(g) :
          /\ g' = gpio_evt_handle(g, lvl)
          /\ q' = Trigger(Rest, Irq_(NoFunction, g'.s.status # {}))
    /\ UNCHANGED <<w, adc, zero, irqt, to_host, inp, alive, host, env, hist>>

\* mcuio_irq_handle: the message to the host, unless the interrupt is that of
\* no function or not active.
Message(f) == Packet("host", f, 5, FALSE, Put(Zeros, Dword(2 ^ f)))
Irq ==
    /\ alive /\ q # <<>> /\ Head(q)[1] = "irq"
    /\ LET f == Head(q)[2]
       IN  IF f > 31 \/ ~Head(q)[3]
           THEN q' = Rest /\ UNCHANGED <<to_host, lost>>
           ELSE /\ to_host' = [to_host EXCEPT !["irqc"] = Message(f)]
                /\ q' = Trigger(Rest, <<"request">>)
                /\ lost' = lost \cup (Waiting \ {f}) \cup (IF Full(Rest) THEN {f} ELSE {})
    /\ UNCHANGED <<regs, inp, alive, host, env, owed>>

\* mcuio_function_request_handle sends what the buffer holds by now.
FunctionRequest ==
    /\ At(<<"request">>)
    /\ host' = [host EXCEPT !.told = IF to_host["irqc"].f = "host" THEN @ \cup {to_host["irqc"].off} ELSE @]
    /\ q' = Rest
    /\ UNCHANGED <<regs, to_host, inp, alive, env, hist>>

Handle == Serve \/ Tick \/ GpioEvt \/ Irq \/ FunctionRequest

-----------------------------------------------------------------------------
(* The timer, the pins, the i2c function and the host                      *)

Timer ==
    /\ ~Queued(<<"tick">>)
    /\ q' = Trigger(q, <<"tick">>)
    /\ UNCHANGED <<regs, to_host, inp, alive, host, env, hist>>

PinChanges ==
    /\ env.changes < MaxChanges /\ env' = [env EXCEPT !.changes = @ + 1]
    /\ \E x \in Pins : g' = [g EXCEPT !.ext = IF x \in @ THEN @ \ {x} ELSE @ \cup {x}]
    /\ UNCHANGED <<w, adc, zero, irqt, to_host, q, inp, alive, host, hist>>

I2cIrq ==
    /\ env.i2c < MaxI2cIrqs /\ env' = [env EXCEPT !.i2c = @ + 1]
    /\ q' = Trigger(q, Irq_(i2c, TRUE))
    /\ UNCHANGED <<regs, to_host, inp, alive, host, hist>>

Ask(p) ==
    /\ Len(inp) < Outstanding /\ ~Full(q)
    /\ inp' = Append(inp, p) /\ q' = Append(q, <<"data_ready">>)
    /\ UNCHANGED <<regs, to_host, alive, env, hist>>

HostAsks ==
    /\ host.todo # <<>>
    /\ Ask(Head(host.todo))
    /\ host' = [host EXCEPT !.todo = Tail(@)]

\* The host attends to an interrupt: it answers the message or reads the
\* status of the function.
HostAnswers ==
    /\ i2c \in host.told
    /\ Ask(set_reply(Message(i2c)))
    /\ host' = [host EXCEPT !.told = @ \ {i2c}]

HostReadsStatus ==
    /\ irq_test \in host.told
    /\ Ask(StatusRead)
    /\ host' = [host EXCEPT !.told = @ \ {irq_test}]

Next == Handle \/ Timer \/ PinChanges \/ I2cIrq \/ HostAsks \/ HostAnswers \/ HostReadsStatus

Spec == Init /\ [][Next]_vars

\* Main handles the events: WF_vars(Handle), in a form that TLC evaluates
\* quickly.  Handle is enabled while there is an event, and takes the first
\* one.  A host that finds no room for its packet tries again.
Taken == Len(q') < Len(q) \/ SubSeq(q', 1, Len(q)) # q
MainGoesOn == []<>(~alive \/ q = <<>>) \/ []<><<Taken>>_q
FairSpec == Spec /\ MainGoesOn /\ SF_vars(HostReadsStatus)

-----------------------------------------------------------------------------
\* An answer that is no error is that of the host's own request: its header,
\* the contents of the memory that was read and, beyond them, the request's
\* own data, although four functions share one buffer.  An error is never
\* the answer of a read only register that the function has.  (mcuio_rdq is
\* left out where it reads the wrong memory.)
AnswerMatches ==
    At(<<"data_ready">>) /\ ~Req.rep /\ Req.f # "none" /\ inp' # inp /\ Len(inp') < Len(inp) =>
        LET p == Req
            a == to_host'[Runtime(p.f)]
            i == lookup_range(Ranges(p.f), p)
        IN  /\ ~a.err => a.rep /\ <<a.f, a.off, a.t, a.fill>> = <<p.f, p.off, p.t, p.fill>>
            /\ i > 0 /\ Ranges(p.f)[i].ops = "ro" /\ is_read(p) /\ (Harvard => p.t # 6) =>
                  /\ ~a.err
                  /\ \A k \in 1 .. 8 : a.data[k] = IF k <= AccessLen(p) THEN RoByte(p.off + k - 1) ELSE p.data[k]
            /\ i = 0 => a.err

\* Every handling of a request answers it so (data_ready_handle, the functions
\* and their ranges).
AnswersMatch == [][AnswerMatches]_vars

\* Every edge that was sampled on a gpio with edge events is told to the host
\* exactly once, in a read of the status, however many edges, reads and
\* handlers come in between; until then it is in one of the two masks.
EdgesReportedOnce ==
    LET edge == Gpios \ (g.s.high \cup g.s.low)
    IN  (g.events \cup g.s.status) \cap edge = owed \cap edge

\* The host learns of the test function's interrupt: while it is active it is
\* on its way in one of its forms, or the host knows, unless its message was
\* lost: the queue was full, or the controller's one buffer was used again.
InterruptOnItsWay ==
    irqt.active =>
        \/ irq_test \in lost \cup host.told
        \/ Queued(Irq_(irq_test, TRUE))
        \/ Queued(<<"request">>) /\ to_host["irqc"] = Message(irq_test)
        \/ \E k \in DOMAIN inp : inp[k] = StatusRead

\* The host reads the status of every interrupt that is not lost.
InterruptsServed ==
    irqt.active ~> (~irqt.active \/ irq_test \in lost \/ ~alive)

\* An output that has its timer for itself, and the timer's number, has a
\* timer that runs just while it is enabled: check_init_timer and
\* check_deinit_timer agree on its count whatever the others do.
OwnTimerRuns ==
    \A id \in Outputs :
        (\A o \in Outputs : (pwms[o].tim = id) = (o = id)) => (id \in w.stat) = (id \in w.run)
=============================================================================
