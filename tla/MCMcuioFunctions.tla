------------------------- MODULE MCMcuioFunctions -------------------------
(* A small instance of McuioFunctions for TLC.                             *)
EXTENDS McuioFunctions

Data(b) == Put(Zeros, b)
Rd(f, off, t) == Packet(f, off, t, FALSE, Data(<<9>>))
Wr(f, off, t, b) == Packet(f, off, t, FALSE, Data(b))
Fill(p) == [p EXCEPT !.fill = TRUE]

\* Events on gpios 0 and 1, edges and a level; the test function's interrupts
\* and whatever else the interrupt controller's buffer is used for.
Edges_ == Wr("gpio", 1808, 5, <<131, 0>>)
Level_ == Wr("gpio", 1808, 5, <<130, 132>>)
Status == Rd("gpio", 2344, 4)
Enable == Wr("irq_test", 12, 5, <<1>>)
Interrupts ==
    { <<Edges_, Status, Rd("gpio", 2348, 4)>>, <<Level_, Status, Status>>,
      <<Edges_, Fill(Wr("gpio", 1808, 5, <<128>>)), Fill(Status)>>,
      <<Enable, Rd("irqc", 0, 4), Rd("irqc", 7, 2)>>, <<Enable, Edges_, Wr("irqc", 0, 5, <<1>>)>>,
      <<Enable, StatusRead, Wr("irq_test", 12, 5, <<0>>)>> }

\* Outputs that share a timer, or seem to, switched on and off.
On(id) == Wr("pwm", 64 * id + 76, 5, <<1>>)
Off_(id) == Wr("pwm", 64 * id + 76, 5, <<2>>)
Timers == { <<On(0), On(a), Off_(b), Off_(0)>> : a \in {0, 1, 2}, b \in {0, 1, 2} }

\* The other registers.
Registers ==
    { <<Rd("gpio", 1808, 4), Rd("gpio", 8, 4), Fill(Rd("gpio", 0, 0)), Wr("gpio", 0, 1, <<1>>)>>,
      <<Wr("gpio", 1844, 5, <<1, 1, 1, 1>>), Wr("gpio", 1848, 5, <<1>>), Rd("gpio", 1808, 2)>>,
      <<Wr("gpio", 1296, 3, <<2, 1>>), Wr("gpio", 1296, 3, <<2, 3>>), Fill(Rd("gpio", 1296, 0)), Rd("gpio", 1296, 0)>>,
      <<Wr("gpio", 2320, 1, <<5>>), Rd("gpio", 2320, 2), Rd("gpio", 2320, 6)>>,
      <<Wr("gpio", 2328, 1, <<2>>), Fill(Wr("gpio", 2328, 3, <<1>>)), Wr("gpio", 2328, 7, <<1>>), Wr("gpio", 2328, 3, <<1>>)>>,
      <<Wr("gpio", 2336, 1, <<1>>), Wr("gpio", 2336, 3, <<1, 3>>), Rd("gpio", 2336, 0)>>,
      <<Rd("pwm", 64, 4), Rd("pwm", 76, 4), Rd("pwm", 80, 4), Rd("pwm", 84, 4), Rd("pwm", 88, 4)>>,
      <<Wr("pwm", 144, 5, <<0, 1>>), Wr("pwm", 84, 5, <<0, 1>>), Wr("pwm", 88, 5, <<1>>), Wr("pwm", 80, 5, <<1>>)>>,
      <<Wr("pwm", 404, 5, <<7>>), Rd("pwm", 404, 4), Rd("pwm", 144, 4)>>,
      <<Rd("adc", 76, 4), Wr("adc", 20, 5, <<1>>), Rd("adc", 20, 4), Rd("adc", 64, 4), Rd("adc", 76, 4), Rd("adc", 80, 4)>>,
      <<Wr("zero", 18, 3, <<1, 2>>), Rd("zero", 16, 6), Fill(Wr("zero", 16, 1, <<1, 2, 3, 4>>))>>,
      <<Rd("js", 0, 6), Rd("js", 4, 6), Rd("none", 0, 4)>> }

MCScripts == Interrupts \cup Timers \cup Registers
=============================================================================
