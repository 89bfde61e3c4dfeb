------------------------------ MODULE GpioPwm -------------------------------
(***************************************************************************)
(* The gpio function of mcuio (mcuio/mcuio_gpio_func.c), on the gpios of   *)
(* the ATmega32U4 (arch-atmega/arch/gpio.h, arch-atmega/gpio.c).           *)
(*                                                                         *)
(* The state is a record g of sets of gpios:                               *)
(*    PORT, DDR  the registers of the output level and of the direction    *)
(*    ext        the level from outside                                    *)
(*    ports, initialized   what gpio_sample has seen last, if anything     *)
(*    rising, falling, enable, events   the arrays of gpio.c               *)
(*    s          struct mcuio_gpio_port_status                             *)
(* The operations of the ranges give a record of the state they leave (g), *)
(* what they return (stat) and, when they read, the data.                  *)
(***************************************************************************)
EXTENDS McuioPacket

CONSTANT MCUIO_NGPIO            \* gpios 0 .. MCUIO_NGPIO - 1, on one port
ASSUME GpioAssumption == MCUIO_NGPIO \in 1 .. 40

Gpios == 0 .. MCUIO_NGPIO - 1

GpioInit ==
    [PORT |-> {}, DDR |-> {}, ext |-> {}, ports |-> {}, initialized |-> FALSE,
     rising |-> {}, falling |-> {}, enable |-> {}, events |-> {},
     s |-> [status |-> {}, falling |-> {}, rising |-> {}, enable |-> {}, high |-> {}, low |-> {}]]

\* The input register of the gpios: gpio_get.
gpio_get(g) == (g.PORT \cap g.DDR) \cup (g.ext \ g.DDR)

\* Eight gpios from the first one as a byte, and back.
Byte(set, first) ==
    LET bit(k) == IF first + k \in set THEN 2 ^ k ELSE 0
    IN  bit(0) + bit(1) + bit(2) + bit(3) + bit(4) + bit(5) + bit(6) + bit(7)
Bits(byte, first) == {first + j : j \in {k \in 0 .. 7 : (byte \div 2 ^ k) % 2 = 1}}
DataBits(data, first, n) == UNION {Bits(data[k], first + 8 * (k - 1)) : k \in 1 .. n}
StatusBytes(set, n) == [k \in 1 .. n |-> Byte(set, 8 * (k - 1))]

Done(g, stat) == [g |-> g, stat |-> stat, data |-> <<>>]
Read(g, stat, data) == [g |-> g, stat |-> stat, data |-> data]

\* The span of an access of w bytes at an offset of the data registers.
Span(off, w) == off * 8 .. off * 8 + 8 * w - 1

\* gpio_dir_af with the levels that the gpios have: these become outputs,
\* those inputs.
gpio_dir_af(g, outs, ins) ==
    LET some == outs \cup ins
    IN  [g EXCEPT !.PORT = (@ \ some) \cup (gpio_get(g) \cap some), !.DDR = (@ \ ins) \cup outs]

-----------------------------------------------------------------------------
(* Events of the gpios: arch-atmega/gpio.c                                 *)

\* Every tick the gpios are compared with what they were.
gpio_sample(g) ==
    LET s == gpio_get(g)
        up   == {x \in g.enable \cap g.rising  : x \in s /\ x \notin g.ports}
        down == {x \in g.enable \cap g.falling : x \notin s /\ x \in g.ports}
    IN  [g EXCEPT !.ports = s, !.initialized = TRUE,
                  !.events = IF g.initialized THEN @ \cup up \cup down ELSE @]

\* The edges that gpio_sample sees.
Edges(g) == IF g.initialized THEN gpio_sample([g EXCEPT !.events = {}]).events ELSE {}

\* The flags of a gpio's events in a byte.
Flag(byte, flag) == (byte \div flag) % 2 = 1
GPIO_EVT_RISING  == 1
GPIO_EVT_FALLING == 2
GPIO_EVT_HIGH    == 4
GPIO_EVT_LOW     == 8
GPIO_EVT_ENABLE  == 128

\* gpio_request_events, for each gpio of which flags gives the byte: what was
\* set for it is replaced.
Flagged(flags, flag) == {x \in DOMAIN flags : Flag(flags[x], flag)}
gpio_request_events(g, flags) ==
    LET level == Flagged(flags, GPIO_EVT_LOW) \cup Flagged(flags, GPIO_EVT_HIGH)
        replace(set, new) == (set \ DOMAIN flags) \cup new
    IN  [g EXCEPT !.rising  = replace(@, Flagged(flags, GPIO_EVT_RISING) \cup level),
                  !.falling = replace(@, Flagged(flags, GPIO_EVT_FALLING) \cup level),
                  !.enable  = replace(@, Flagged(flags, GPIO_EVT_ENABLE))]

-----------------------------------------------------------------------------
(* The data registers.  An access with fill still makes one turn of the    *)
(* loops over the gpios.                                                   *)

Count(p, n) == IF p.fill THEN Min({MCUIO_NGPIO, 8}) ELSE n

\* __gpio_data_wr: the gpios at once or one after the other.
gpio_data_wr(g, off, p, data) ==
    LET w == data_len(p)
    IN  Done([g EXCEPT !.PORT = (@ \ Span(off, w)) \cup DataBits(data, off * 8, w)],
             Count(p, 8 * w))

\* __gpio_data_rd.  __gpio_get_portw leaves -ENOSYS in four bytes before the
\* gpios are read one by one.
gpio_data_rd(g, off, p) ==
    LET w == data_len(p)
        pins == [k \in 1 .. w |-> Byte(gpio_get(g), off * 8 + 8 * (k - 1))]
    IN  Read(g, Count(p, 8 * w), Put(Put(p.data, <<218, 255, 255, 255>>), pins))

\* gpio_clr_wrw, gpio_clr_wrdw: __gpio_clr_wr.  It sets the bits.
gpio_clr_wr(g, off, p) ==
    LET w == data_len(p)
        status == gpio_data_rd(g, off, p).data
        both(a, b) == Byte(Bits(a, 0) \cup Bits(b, 0), 0)
    IN  gpio_data_wr(g, off, p, [k \in DOMAIN status |-> both(status[k], p.data[k])])

\* __gpio_modes_wr, one byte for each gpio: the first one that is both input
\* and output ends it.
gpio_modes_wr(g, off, p) ==
    LET n == Count(p, data_len(p))
        bad == {k \in 1 .. n : Flag(p.data[k], 1) /\ Flag(p.data[k], 2)}
        last == IF bad = {} THEN n ELSE Min(bad) - 1
        outs == {off + k - 1 : k \in {j \in 1 .. last : Flag(p.data[j], 2)}}
    IN  Done(gpio_dir_af(g, outs, (off .. off + last - 1) \ outs), IF bad = {} THEN n ELSE -EINVAL)

\* __gpio_modes_rd: as many bytes as the access has bits.
gpio_modes_rd(g, off, p) ==
    LET n == IF p.fill THEN Min({MCUIO_NGPIO, 1}) ELSE 8 * data_len(p)
    IN  Read(g, n, Put(p.data, [k \in 1 .. n |-> IF off + k - 1 \in g.DDR THEN 2 ELSE 1]))

-----------------------------------------------------------------------------
(* The registers of the events: dwords                                     *)

EvtCount(p) == IF p.fill THEN Min({MCUIO_NGPIO, 1}) ELSE 4

\* __gpio_evts_rd
gpio_evts_rd(g, off, p) ==
    LET flags(x) == (IF x \in g.s.falling THEN GPIO_EVT_FALLING ELSE 0)
                  + (IF x \in g.s.rising  THEN GPIO_EVT_RISING ELSE 0)
                  + (IF x \in g.s.high    THEN GPIO_EVT_HIGH ELSE 0)
                  + (IF x \in g.s.low     THEN GPIO_EVT_LOW ELSE 0)
                  + (IF x \in g.s.enable  THEN GPIO_EVT_ENABLE ELSE 0)
    IN  Read(g, EvtCount(p), Put(p.data, [k \in 1 .. EvtCount(p) |-> flags(off + k - 1)]))

\* __gpio_evts_wr: the flags of the port are only ever set, those of the
\* machine are replaced; a gpio that the machine has not ends it.
gpio_evts_wr(g, off, p) ==
    LET n == EvtCount(p)
        bad == {x \in off .. off + n - 1 : x > 39}
        tried == off .. (IF bad = {} THEN off + n - 1 ELSE Min(bad))
        flags(set) == [x \in set |-> p.data[x - off + 1]]
        h == [g EXCEPT !.s.falling = @ \cup Flagged(flags(tried), GPIO_EVT_FALLING),
                       !.s.rising  = @ \cup Flagged(flags(tried), GPIO_EVT_RISING),
                       !.s.high    = @ \cup Flagged(flags(tried), GPIO_EVT_HIGH),
                       !.s.low     = @ \cup Flagged(flags(tried), GPIO_EVT_LOW),
                       !.s.enable  = @ \cup Flagged(flags(tried), GPIO_EVT_ENABLE)]
    IN  Done(gpio_request_events(h, flags(tried \ bad)), IF bad = {} THEN n ELSE -EINVAL)

\* __handle_level_gpio_events reads the gpios through a null range: what it
\* gets (lvl) can be anything.
Levels(g) == SUBSET (g.s.high \cup g.s.low)
handle_level_gpio_events(g, lvl) ==
    [g EXCEPT !.s.status = @ \cup (lvl \cap g.s.high) \cup (g.s.low \ lvl)]

\* Mutated form: all of the status is cleared, whatever was read.
gpio_evts_status_rd_ClearsAll(g, off, p, lvl) ==
    LET n == EvtCount(p)
        h == handle_level_gpio_events([g EXCEPT !.s.status = {}], lvl)
    IN  [g |-> h, stat |-> n, data |-> Put(p.data, StatusBytes({x - 8 * off : x \in g.s.status}, n)),
         irq |-> g.s.status # {} /\ h.s.status = {}]

\* __gpio_evts_status_rd: the bytes that are read are cleared.  irq: the
\* interrupt goes away.
gpio_evts_status_rd(g, off, p, lvl) ==
    LET n == EvtCount(p)
        h == handle_level_gpio_events([g EXCEPT !.s.status = @ \ Span(off, n)], lvl)
    IN  [g |-> h, stat |-> n, data |-> Put(p.data, StatusBytes({x - 8 * off : x \in g.s.status}, n)),
         irq |-> g.s.status # {} /\ h.s.status = {}]

\* gpio_evt_handle, but for the event that it triggers.
gpio_evt_handle(g, lvl) ==
    handle_level_gpio_events(
        [g EXCEPT !.s.status = @ \cup (g.events \ (g.s.high \cup g.s.low)), !.events = {}], lvl)

-----------------------------------------------------------------------------
(***************************************************************************)
(* The pwm outputs of the ATmega32U4 (arch-atmega/pwm.c) and the registers *)
(* that the mcuio pwm function makes of them (mcuio/mcuio_pwm_func.c).     *)
(*                                                                         *)
(* The state is a record w: stat (pwm_stat), orig (gpio_orig_dir), t_ref,  *)
(* run (the timers in pwm mode), pol (inverted outputs), period (of each   *)
(* timer: ICR1, ICR3, OCR4C), duty (of each output: OCRnx) and DDR, the    *)
(* gpios that are outputs, which the gpio function shares.                 *)
(***************************************************************************)
\* The table of outputs, D3, D9, D10, D11, D5 and D6 of the Yun: the timer,
\* the width of the registers, the gpio and whether the period can be set.
Outputs == 0 .. 5
Out(tim, w, gpio, p) == [tim |-> tim, width |-> w, gpio |-> gpio, set_period |-> p]
pwms == [id \in Outputs |->
           CASE id = 0 -> Out(0,  8, 16, FALSE)
             [] id = 1 -> Out(1, 16,  5, TRUE)
             [] id = 2 -> Out(1, 16,  6, TRUE)
             [] id = 3 -> Out(1, 16,  7, TRUE)
             [] id = 4 -> Out(3, 16, 14, TRUE)
             [] id = 5 -> Out(4,  8, 23, TRUE)]

PwmInit == [stat |-> {}, orig |-> {}, t_ref |-> [i \in Outputs |-> 0], run |-> {}, pol |-> {},
            period |-> [t \in Outputs |-> 0], duty |-> [id \in Outputs |-> 0]]

\* init_timer0, init_timer1, init_timer3, init_timer4
init_timer(w, t) == [w EXCEPT !.run = @ \cup {t}, !.period[t] = IF t \in {1, 3} THEN 39999 ELSE @]

\* deinit_timer0, deinit_timer1, deinit_timer3, deinit_timer4
deinit_timer(w, t) == [w EXCEPT !.run = @ \ {t}, !.period[t] = IF t \in {1, 3} THEN 0 ELSE @]

\* The references are counted by timer, but whether this output holds one is
\* looked up as if the timer's number were an output's.
check_init_timer(w, id) ==
    LET t == pwms[id].tim
    IN  IF w.t_ref[t] = 0 THEN init_timer([w EXCEPT !.t_ref[t] = 1], t)
        ELSE IF t \notin w.stat THEN [w EXCEPT !.t_ref[t] = (@ + 1) % 256]
        ELSE w

\* Mutated form: the reference is dropped, the timer never stopped.
check_deinit_timer_Never(w, id) ==
    IF id \in w.stat THEN [w EXCEPT !.t_ref[id] = (@ - 1) % 256] ELSE w

\* ... and given back by output.
check_deinit_timer(w, id) ==
    LET v == IF id \in w.stat THEN [w EXCEPT !.t_ref[id] = (@ - 1) % 256] ELSE w
    IN  IF v.t_ref[id] = 0 THEN deinit_timer(v, pwms[id].tim) ELSE v

\* pwm_en; ddr: the directions before it.
pwm_en(w, id, ddr) ==
    [check_init_timer(w, id) EXCEPT
        !.orig = IF pwms[id].gpio \in ddr THEN @ \cup {id} ELSE @ \ {id},
        !.stat = @ \cup {id}]

pwm_dis(w, id) == [check_deinit_timer(w, id) EXCEPT !.stat = @ \ {id}]

\* The directions after them.
EnDir(id, ddr)     == ddr \cup {pwms[id].gpio}
DisDir(w, id, ddr) == IF id \in w.orig THEN ddr ELSE ddr \ {pwms[id].gpio}

set_polarity(w, id, inv) == [w EXCEPT !.pol = IF inv THEN @ \cup {id} ELSE @ \ {id}]

\* The registers hold one less than the multiplier, except those of timer 4.
Less(id, val) == (IF val > 0 /\ id # 5 THEN val - 1 ELSE val) % 2 ^ pwms[id].width
More(id, reg) == IF id = 5 THEN reg ELSE reg + 1

set_period(w, id, val) == [w EXCEPT !.period[pwms[id].tim] = Less(id, val)]
get_period(w, id) == IF id = 0 THEN 256 ELSE More(id, w.period[pwms[id].tim])
set_duty(w, id, val) == [w EXCEPT !.duty[id] = Less(id, val)]
get_duty(w, id) == More(id, w.duty[id])

-----------------------------------------------------------------------------
(* The registers of an output: an offset is 0x40 * output + register       *)

Idx(off) == off \div 64
Reg(off) == off % 64

\* What pwm_ctrl_rddw reads, or -EINVAL; const gives the label, the
\* capabilities and the maximum, which do not change.
pwm_ctrl_rddw(w, off, const) ==
    LET id == Idx(off)
    IN  CASE Reg(off) \in {0, 4, 8} -> const
          [] Reg(off) = 12 -> (IF id \in w.stat THEN 1 ELSE 0) + (IF id \in w.pol THEN 2 ELSE 0)
          [] Reg(off) = 16 -> get_period(w, id)
          [] Reg(off) = 20 -> get_duty(w, id)
          [] OTHER -> -EINVAL

\* pwm_ctrl_wrdw.  Setting the period of an output that has no set_period is
\* a call through a null pointer: the program is lost.
PwmLost(off) == Reg(off) = 16 /\ ~pwms[Idx(off)].set_period

pwm_ctrl_wrdw(w, off, val, ddr) ==
    LET id == Idx(off)
        on == val % 2 = 1
        v  == IF on THEN pwm_en(w, id, ddr) ELSE pwm_dis(w, id)
    IN  CASE Reg(off) = 12 -> [w |-> set_polarity(v, id, (val \div 2) % 2 = 1), stat |-> 0,
                               ddr |-> IF on THEN EnDir(id, ddr) ELSE DisDir(w, id, ddr)]
          [] Reg(off) = 16 -> [w |-> set_period(w, id, val), stat |-> 0, ddr |-> ddr]
          [] Reg(off) = 20 -> [w |-> set_duty(w, id, val), stat |-> 0, ddr |-> ddr]
          [] OTHER -> [w |-> w, stat |-> -EINVAL, ddr |-> ddr]
=============================================================================
