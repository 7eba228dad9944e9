------------------------------ MODULE TwoBoard -------------------------------
(***************************************************************************)
(* The two-board rig: the fixture firmware on both boards                  *)
(* (two_board_fixture.rs) and the host that finds out who is who and runs  *)
(* its suites over the two backchannels (two_board_test_orchestrators).    *)
(*                                                                         *)
(* A command is one byte, and the fixture's receiver holds one: a second   *)
(* one that arrives before the first is polled costs both.  The host may   *)
(* be aborted at any moment, a suite that fails ends it, and the next one  *)
(* finds the boards as they were left, or flashes them.  A line of a       *)
(* board, <<tag, value>>, is lost if the port is not open at the host.     *)
(*                                                                         *)
(* Boards are called by their role; the record in FRAM is left out.        *)
(* Bursts of the code, ten pulses, 24 bytes of pattern, eight I2C          *)
(* transactions, are Burst here.                                           *)
(*                                                                         *)
(* Of time the model keeps what the code relies on: a board that polls has *)
(* answered what it was sent when a sleep of the host ends (Drained), a    *)
(* board told to sleep is asleep 500 ms later, and a read times out when   *)
(* no answer is under way.  A host takes longer to start than a byte takes *)
(* to be read (StartsSlowly).  And it starts when no pattern is being sent:*)
(* what the pattern leaves in an eUSCI_A1 nobody polls is not modelled,    *)
(* what a master leaves in a slave's eUSCI_B0 is (latched).                *)
(***************************************************************************)
EXTENDS Naturals, Sequences

CONSTANT Burst

VARIABLES
    mode, rx, poked,    \* per board: the loop it is in, RXBUF, poked
    b0,                 \* what became of eUSCI_B0
    latched, tainted,   \* what a slave was not polled for, and was taken up with
    left, good, tally,  \* locals of the loops
    edges,              \* EDGES
    wire, out, open,    \* bytes and lines under way; the port is open
    phase, who, found,  \* the host; the board it identifies; those it has
    suite, todo         \* the last suite begun, and what is left of it

loop == <<mode, left, good, tally>>
block == <<b0, latched, tainted>>
board == <<mode, rx, poked, block, left, good, tally, edges>>
line == <<wire, out, open>>
plan == <<suite, todo>>
host == <<phase, who, found, suite, todo>>
vars == <<mode, rx, poked, b0, latched, tainted, left, good, tally, edges, wire, out,
          open, phase, who, found, suite, todo>>

Board == {"parent", "child"}
Peer(b) == IF b = "parent" THEN "child" ELSE "parent"
OnAll(v) == [b \in Board |-> v]

\* Loops that poll the backchannel, and stretches of code that do not.
SubMode == {"slave", "echo", "count"}
Polling == SubMode \cup {"idle"}
Busy == {"testing", "initiating", "pulsing", "measuring"}
Asleep == {"dozing", "armed", "asleep"}

PoweredUp ==
    /\ mode = OnAll("boot") /\ rx = OnAll("none") /\ poked = OnAll(FALSE)
    /\ b0 = OnAll("free") /\ latched = OnAll({}) /\ tainted = OnAll(FALSE)
    /\ left = OnAll(0) /\ good = OnAll(TRUE) /\ tally = OnAll(0) /\ edges = OnAll(0)

Init ==
    /\ PoweredUp
    /\ wire = OnAll(<<>>) /\ out = OnAll(<<>>) /\ open = OnAll(FALSE)
    /\ phase = "stopped" /\ who = "parent" /\ found = {}
    /\ suite = 0 /\ todo = <<>>
-----------------------------------------------------------------------------
\* The board.  A byte arrives; nobody takes it while the firmware boots.
Arrive(b) ==
    /\ wire[b] # <<>>
    /\ wire' = [wire EXCEPT ![b] = Tail(@)]
    /\ rx' = [rx EXCEPT ![b] = CASE mode[b] = "boot" -> "none"
                                 [] mode[b] # "boot" /\ @ = "none" -> Head(wire[b])
                                 [] OTHER -> "overrun"]
    /\ UNCHANGED <<loop, poked, block, edges, out, open, host>>

Say(b, tag, value) ==
    out' = IF open[b] THEN [out EXCEPT ![b] = Append(@, <<tag, value>>)] ELSE out

Becomes(b, m) == mode' = [mode EXCEPT ![b] = m]

Boot(b) ==
    /\ mode[b] = "boot"
    /\ Becomes(b, "idle")
    /\ UNCHANGED <<rx, poked, block, left, good, tally, edges, line, host>>

\* Once a second until the first command; the host reads one before the next.
\* The first comes a second after the boot: not in the 50 ms after a q that was
\* lost in it.
Announce(b) ==
    /\ mode[b] = "idle" /\ ~poked[b]
    /\ rx[b] = "none"
    /\ wire[b] = <<"q">> \/ (wire[b] = <<>> /\ ~(phase = "gap" /\ who = b))
    /\ open[b] /\ out[b] = <<>>
    /\ Say(b, "READY", b)
    /\ UNCHANGED <<board, wire, open, host>>

\* poll_cmd, in the loop of main.
Take(b, c) ==
    /\ mode[b] = "idle" /\ rx[b] = c
    /\ rx' = [rx EXCEPT ![b] = "none"]
    /\ poked' = [poked EXCEPT ![b] = TRUE]
    /\ UNCHANGED <<wire, open, host>>

\* An overrun reads as no command; q means nothing outside a sub-mode, and
\* nothing but q means anything inside one.
Discard(b) ==
    /\ mode[b] \in Polling
    /\ \/ rx[b] = "overrun"
       \/ rx[b] = "q" /\ mode[b] = "idle"
       \/ rx[b] \notin {"none", "q"} /\ mode[b] \in SubMode
    /\ rx' = [rx EXCEPT ![b] = "none"]
    /\ poked' = [poked EXCEPT ![b] = @ \/ rx[b] = "q"]
    /\ UNCHANGED <<loop, block, edges, line, host>>

\* Commands answered on the spot.
Answer == [i |-> "ID", P |-> "PROVISIONED", B |-> "B0", f |-> "PWM", F |-> "PWM",
           x |-> "PWM_OFF", d |-> "DAC", D |-> "DAC", a |-> "ADC"]

Reply(b) ==
    /\ rx[b] \in DOMAIN Answer
    /\ Take(b, rx[b])
    /\ Say(b, Answer[rx[b]], b)
    /\ UNCHANGED <<loop, block, edges>>

\* s.  The block is taken out of b0 first, and put back only if it was free
\* or a slave's.  A slave's is taken up as it is, and what the hardware latched
\* since is read before anything else.
ServeI2c(b) ==
    /\ Take(b, "s")
    /\ IF b0[b] \in {"free", "slave"}
         THEN /\ b0' = [b0 EXCEPT ![b] = "slave"]
              /\ Becomes(b, "slave")
              /\ tally' = [tally EXCEPT ![b] = IF "stop" \in latched[b] THEN 1 ELSE 0]
              /\ latched' = [latched EXCEPT ![b] = @ \ {"stop"}]
              /\ tainted' = [tainted EXCEPT ![b] = latched[b] # {}]
              /\ Say(b, "SLAVE_ON", 0)
         ELSE /\ b0' = [b0 EXCEPT ![b] = "gone"]
              /\ Say(b, "ERR", 0)
              /\ UNCHANGED <<mode, tally, latched, tainted>>
    /\ UNCHANGED <<left, good, edges>>

Burn(b, m, n) ==
    /\ Becomes(b, m)
    /\ left' = [left EXCEPT ![b] = n]
    /\ good' = [good EXCEPT ![b] = TRUE]
    /\ UNCHANGED <<tally, edges, out>>

\* m.  free() resets a slave's block.  unreachable!() panics, and the panic
\* handler loops.
TestI2c(b) ==
    /\ Take(b, "m")
    /\ IF b0[b] = "gone"
         THEN Becomes(b, "panicked") /\ UNCHANGED <<block, left, good, tally, edges, out>>
         ELSE /\ b0' = [b0 EXCEPT ![b] = "master"]
              /\ latched' = [latched EXCEPT ![b] = {}]
              /\ Burn(b, "testing", Burst)
              /\ UNCHANGED tainted

Initiate(b) == Take(b, "t") /\ Burn(b, "initiating", Burst) /\ UNCHANGED block
Pulse(b) ==
    /\ \/ Take(b, "p") /\ Burn(b, "pulsing", Burst)
       \/ Take(b, "1") /\ Burn(b, "pulsing", 1)
    /\ UNCHANGED block
Capture(b) == Take(b, "c") /\ Burn(b, "measuring", 0) /\ UNCHANGED block

ServeEcho(b) ==
    /\ Take(b, "e")
    /\ Becomes(b, "echo")
    /\ tally' = [tally EXCEPT ![b] = 0]
    /\ Say(b, "UARTECHO_ON", 0)
    /\ UNCHANGED <<left, good, block, edges>>

\* (mutation: the tally of the burst before is kept)
CountOn(b) ==
    /\ Take(b, "g")
    /\ Becomes(b, "count")
    /\ Say(b, "GPIO_ARMED", 0)
    /\ UNCHANGED <<left, good, tally, edges, block>>

Count(b) ==
    /\ Take(b, "g")
    /\ Becomes(b, "count")
    /\ edges' = [edges EXCEPT ![b] = 0]
    /\ Say(b, "GPIO_ARMED", 0)
    /\ UNCHANGED <<left, good, tally, block>>

Stats == [slave |-> "SLAVE_STATS", echo |-> "UARTECHO_STATS", count |-> "GPIO_STATS"]

Leave(b) ==
    /\ mode[b] \in SubMode /\ rx[b] = "q"
    /\ rx' = [rx EXCEPT ![b] = "none"]
    /\ Say(b, Stats[mode[b]], IF mode[b] = "count" THEN edges[b] ELSE tally[b])
    /\ tally' = [tally EXCEPT ![b] = 0]
    /\ Becomes(b, "idle")
    /\ UNCHANGED <<poked, block, left, good, edges, wire, open, host>>

\* One transaction of the master test or one byte of the pattern, which the
\* other board serves or does not.
Server == [testing |-> "slave", initiating |-> "echo"]

\* What it comes to: its verdict, how often the server counts it, and what it
\* leaves in the server's block.
Fares(b, ok, n, l) ==
    LET p == Peer(b) IN
      /\ good' = [good EXCEPT ![b] = @ /\ ok]
      /\ tally' = [tally EXCEPT ![p] = @ + n]
      /\ latched' = [latched EXCEPT ![p] = l]

\* q leaves a slave enabled.  Not polled, it still answers to its address: a
\* transaction that asks no more of it ends, its STOP latched; any other is
\* held by SCL until the master gives up, and so is the bus for those after it.
\* Once the slave is polled again the bus may come free, or fail some more.
Exchange(b) ==
    /\ mode[b] \in DOMAIN Server /\ left[b] > 0
    /\ left' = [left EXCEPT ![b] = @ - 1]
    /\ LET p == Peer(b)
           l == latched[p]
           served == mode[p] = Server[mode[b]]
           held == mode[b] = "testing" /\ "held" \in l
           unpolled == mode[b] = "testing" /\ b0[p] = "slave" /\ ~served
       IN  \/ served /\ Fares(b, TRUE, 1, IF held THEN l \ {"held"} ELSE l)
           \/ served /\ held /\ \E n \in {0, 1} : Fares(b, FALSE, n, l)
           \/ unpolled /\ ~held /\ Fares(b, TRUE, 0, l \cup {"stop"})
           \/ unpolled /\ Fares(b, FALSE, 0, l \cup {"held"})
           \/ ~served /\ ~unpolled /\ Fares(b, FALSE, 0, l)
    /\ UNCHANGED <<mode, rx, poked, b0, tainted, edges, line, host>>

\* A pulse is an edge at the other board, which PORT3 counts if it is armed,
\* and which ends the sleep if it has begun.
Edge(b) ==
    /\ mode[b] = "pulsing" /\ left[b] > 0
    /\ left' = [left EXCEPT ![b] = @ - 1]
    /\ LET p == Peer(b) IN
         /\ edges' = IF mode[p] \in {"count", "armed", "asleep"} /\ edges[p] <= Burst
                       THEN [edges EXCEPT ![p] = @ + 1] ELSE edges
         /\ mode' = IF mode[p] = "asleep" THEN [mode EXCEPT ![p] = "woken"] ELSE mode
    /\ UNCHANGED <<rx, poked, block, good, tally, line, host>>

Result == [testing |-> "I2C_TEST_END", initiating |-> "UART_TEST_END",
           pulsing |-> "PULSED", measuring |-> "CAP"]

Finish(b) ==
    /\ mode[b] \in Busy /\ left[b] = 0
    /\ Say(b, Result[mode[b]], good[b])
    /\ good' = [good EXCEPT ![b] = TRUE]
    /\ Becomes(b, "idle")
    /\ UNCHANGED <<rx, poked, block, left, tally, edges, wire, open, host>>

\* w.  The line is out before the interrupt is enabled, which drops an
\* earlier edge; GIE is set all the time, so that an edge before the sleep is
\* counted and does not end it.
Doze(b) ==
    /\ Take(b, "w")
    /\ edges' = [edges EXCEPT ![b] = 0]
    /\ Say(b, "SLEEPING", 0)
    /\ Becomes(b, "dozing")
    /\ UNCHANGED <<left, good, tally, block>>

FallAsleep(b) ==
    /\ \/ mode[b] = "dozing" /\ Becomes(b, "armed")
       \/ mode[b] = "armed" /\ Becomes(b, "asleep")
    /\ UNCHANGED <<rx, poked, block, left, good, tally, edges, line, host>>

Wake(b) ==
    /\ mode[b] = "woken"
    /\ Say(b, "WOKE", edges[b])
    /\ Becomes(b, "idle")
    /\ UNCHANGED <<rx, poked, block, left, good, tally, edges, wire, open, host>>

Executes(b) ==
    \/ Boot(b) \/ Discard(b) \/ Reply(b)
    \/ ServeI2c(b) \/ TestI2c(b) \/ ServeEcho(b) \/ Initiate(b)
    \/ Count(b) \/ Pulse(b) \/ Capture(b) \/ Leave(b)
    \/ Exchange(b) \/ Edge(b) \/ Finish(b)
    \/ Doze(b) \/ FallAsleep(b) \/ Wake(b)
-----------------------------------------------------------------------------
\* The host.
Drained(b) == wire[b] = <<>> /\ (mode[b] \in Polling => rx[b] = "none")

StartsSlowly == \A b \in Board : Drained(b) /\ mode[b] # "initiating"

Start(b) ==
    /\ phase = "stopped"
    /\ StartsSlowly
    /\ phase' = "open" /\ who' = b
    /\ UNCHANGED <<found, plan, line>>

\* run_suites: with --no-flash the boards are taken as they are.
Flash ==
    /\ mode' = OnAll("boot") /\ rx' = OnAll("none") /\ poked' = OnAll(FALSE)
    /\ b0' = OnAll("free") /\ latched' = OnAll({}) /\ tainted' = OnAll(FALSE)
    /\ left' = OnAll(0) /\ good' = OnAll(TRUE) /\ tally' = OnAll(0) /\ edges' = OnAll(0)

RunSuites(b) == Start(b) /\ (Flash \/ UNCHANGED board)

Go(from, to) ==
    /\ phase = from /\ phase' = to
    /\ UNCHANGED <<board, plan>>

Send(b, c) == wire' = [wire EXCEPT ![b] = Append(@, c)]

\* identify: what was announced before the port was cleared does not count.
OpenPort ==
    /\ Go("open", "pop")
    /\ open' = [open EXCEPT ![who] = TRUE]
    /\ out' = [out EXCEPT ![who] = <<>>]
    /\ UNCHANGED <<wire, who, found>>

\* (mutation: a board in a sub-mode is asked at once)
PopNothing == Go("pop", "gap") /\ UNCHANGED <<line, who, found>>

Pop == Go("pop", "gap") /\ Send(who, "q") /\ UNCHANGED <<out, open, who, found>>

Ask ==
    /\ Go("gap", "listen")
    /\ Drained(who)
    /\ Send(who, "i")
    /\ UNCHANGED <<out, open, who, found>>

Identifies(l) == l[1] \in {"ID", "READY"}

\* The port is closed on the way out.
Identified ==
    /\ Go("listen", "reopen")
    /\ out[who] # <<>> /\ Identifies(Head(out[who]))
    /\ out' = [out EXCEPT ![who] = <<>>]
    /\ open' = [open EXCEPT ![who] = FALSE]
    /\ UNCHANGED <<wire, who, found>>

SkipLine ==
    /\ Go("listen", "listen")
    /\ out[who] # <<>> /\ ~Identifies(Head(out[who]))
    /\ out' = [out EXCEPT ![who] = Tail(@)]
    /\ UNCHANGED <<wire, open, who, found>>

Retry ==
    /\ Go("listen", "pop")
    /\ out[who] = <<>> /\ Drained(who)
    /\ UNCHANGED <<line, who, found>>

Reopen ==
    /\ Go("reopen", "settle")
    /\ open' = [open EXCEPT ![who] = TRUE]
    /\ UNCHANGED <<wire, out, who, found>>

\* (mutation: the tail of the last response is not waited for)
SettleNothing ==
    /\ Go("settle", IF found = {} THEN "open" ELSE "suites")
    /\ out' = [out EXCEPT ![who] = <<>>]
    /\ found' = found \cup {who} /\ who' = Peer(who)
    /\ UNCHANGED <<wire, open>>

\* discover: 100 ms for what is still under way, and then the other board.
Settle ==
    /\ Go("settle", IF found = {} THEN "open" ELSE "suites")
    /\ Drained(who)
    /\ out' = [out EXCEPT ![who] = <<>>]
    /\ found' = found \cup {who} /\ who' = Peer(who)
    /\ UNCHANGED <<wire, open>>
-----------------------------------------------------------------------------
SendStep(b, c) == [act |-> "send", on |-> b, what |-> c, value |-> 0]
Expect(b, tag, value) == [act |-> "expect", on |-> b, what |-> tag, value |-> value]
Look(b, tag) == [act |-> "look", on |-> b, what |-> tag, value |-> 0]
Nap(b) == [act |-> "nap", on |-> b, what |-> "none", value |-> 0]
GivenUp == [act |-> "fail", on |-> "parent", what |-> "none", value |-> 0]

CmdExpect(b, c, tag, value) == <<SendStep(b, c), Expect(b, tag, value)>>

BothWays(S(_)) == S("child") \o S("parent")

Identity == CmdExpect("parent", "i", "ID", "parent") \o CmdExpect("child", "i", "ID", "child")

I2cBridge ==
    CmdExpect("parent", "B", "B0", "parent")
    \o CmdExpect("child", "s", "SLAVE_ON", 0)
    \o CmdExpect("parent", "m", "I2C_TEST_END", TRUE)
    \o CmdExpect("child", "q", "SLAVE_STATS", Burst)

\* What is left to do when the gauntlet failed: the child is popped out, its
\* tally whatever it is, and both ends dump their block.  The verdicts are one
\* here, at the end of the burst: after the first that fails, the host drains
\* lines for a second, and the burst is over by then.
PostMortem ==
    <<SendStep("child", "q"), Look("child", "SLAVE_STATS")>>
    \o CmdExpect("parent", "B", "B0", "parent")
    \o CmdExpect("child", "B", "B0", "child")
    \o <<GivenUp>>

UartLink(b) ==
    CmdExpect(b, "e", "UARTECHO_ON", 0)
    \o CmdExpect(Peer(b), "t", "UART_TEST_END", TRUE)
    \o CmdExpect(b, "q", "UARTECHO_STATS", Burst)

GpioEdge(b) ==
    CmdExpect(b, "g", "GPIO_ARMED", 0)
    \o CmdExpect(Peer(b), "p", "PULSED", TRUE)
    \o CmdExpect(b, "q", "GPIO_STATS", Burst)

\* (mutation: the waker does not wait for the sleeper)
Lpm4WakeAtOnce(b) ==
    CmdExpect(b, "w", "SLEEPING", 0)
    \o CmdExpect(Peer(b), "1", "PULSED", TRUE)
    \o <<Expect(b, "WOKE", 1)>>

Lpm4Wake(b) ==
    CmdExpect(b, "w", "SLEEPING", 0)
    \o <<Nap(b)>>
    \o CmdExpect(Peer(b), "1", "PULSED", TRUE)
    \o <<Expect(b, "WOKE", 1)>>

PwmCross(b) ==
    CmdExpect(b, "f", "PWM", b)
    \o CmdExpect(Peer(b), "c", "CAP", TRUE)
    \o CmdExpect(b, "F", "PWM", b)
    \o CmdExpect(Peer(b), "c", "CAP", TRUE)
    \o CmdExpect(b, "x", "PWM_OFF", b)

AdcDac(b) ==
    CmdExpect(b, "a", "ADC", b)
    \o CmdExpect(b, "d", "DAC", b)
    \o CmdExpect(Peer(b), "a", "ADC", Peer(b))
    \o CmdExpect(b, "D", "DAC", b)
    \o CmdExpect(Peer(b), "a", "ADC", Peer(b))
    \o CmdExpect(b, "x", "PWM_OFF", b)

Suites == <<Identity, I2cBridge, BothWays(UartLink), BothWays(GpioEdge),
            BothWays(Lpm4Wake), BothWays(PwmCross), BothWays(AdcDac)>>

\* Those asked for, in their order.
BeginSuite(s) ==
    /\ phase = "suites" /\ todo = <<>>
    /\ suite < s
    /\ suite' = s /\ todo' = Suites[s]
    /\ UNCHANGED <<phase, who, found, board, line>>

Doing(act) ==
    /\ phase = "suites"
    /\ todo # <<>> /\ Head(todo).act = act
    /\ UNCHANGED <<board, who, found, suite>>

SendCommand ==
    /\ Doing("send")
    /\ Send(Head(todo).on, Head(todo).what)
    /\ todo' = Tail(todo)
    /\ UNCHANGED <<phase, out, open>>

Sleep500 ==
    /\ Doing("nap")
    /\ mode[Head(todo).on] = "asleep"
    /\ todo' = Tail(todo)
    /\ UNCHANGED <<phase, line>>

\* Lines with another prefix are passed over; one with another value fails
\* the suite, the gauntlet's when the boards are back.
ReadLine ==
    /\ phase = "suites" /\ todo # <<>> /\ Head(todo).act \in {"expect", "look"}
    /\ LET s == Head(todo)
           l == Head(out[s.on])
           wrong == s.act = "expect" /\ l[2] # s.value
       IN  /\ out[s.on] # <<>>
           /\ out' = [out EXCEPT ![s.on] = Tail(@)]
           /\ \/ l[1] # s.what /\ UNCHANGED <<todo, phase>>
              \/ l[1] = s.what /\ ~wrong /\ todo' = Tail(todo) /\ UNCHANGED phase
              \/ /\ l[1] = s.what /\ wrong /\ s.what = "I2C_TEST_END"
                 /\ todo' = PostMortem /\ UNCHANGED phase
              \/ /\ l[1] = s.what /\ wrong /\ s.what # "I2C_TEST_END"
                 /\ phase' = "failed" /\ UNCHANGED todo
    /\ UNCHANGED <<board, who, found, suite, wire, open>>

GiveUp ==
    /\ Doing("fail")
    /\ phase' = "failed"
    /\ UNCHANGED <<todo, line>>

\* The end, or an abort: the ports are closed.
Stop ==
    /\ phase' = "stopped"
    /\ found' = {} /\ suite' = 0 /\ todo' = <<>>
    /\ open' = OnAll(FALSE) /\ out' = OnAll(<<>>)
    /\ UNCHANGED <<board, wire, who>>

Passed == phase = "suites" /\ todo = <<>> /\ suite > 0 /\ Stop

Failed == phase = "failed" /\ Stop

Abort == phase # "stopped" /\ Stop

HostRuns ==
    \/ OpenPort \/ Pop \/ Ask \/ Identified \/ SkipLine \/ Retry \/ Reopen \/ Settle
    \/ SendCommand \/ Sleep500 \/ ReadLine \/ GiveUp
    \/ \E s \in DOMAIN Suites : BeginSuite(s)
    \/ Passed \/ Failed

Next ==
    \/ HostRuns \/ Abort
    \/ \E b \in Board : RunSuites(b) \/ Arrive(b) \/ Executes(b) \/ Announce(b)

Spec == Init /\ [][Next]_vars
-----------------------------------------------------------------------------
\* provision: the one board attached is flashed, identified, and told who it
\* is as soon as the port is open again.
Provision(b) == Start(b) /\ Flash

Brand ==
    /\ Go("reopen", "brand")
    /\ open' = [open EXCEPT ![who] = TRUE]
    /\ Send(who, "P")
    /\ out' = [out EXCEPT ![who] = <<>>]
    /\ UNCHANGED <<who, found>>

ProvisionNext ==
    \/ OpenPort \/ Pop \/ Ask \/ Identified \/ SkipLine \/ Retry \/ Brand
    \/ \E b \in Board : Provision(b) \/ Arrive(b) \/ Executes(b) \/ Announce(b)

ProvisionSpec == Init /\ [][ProvisionNext]_vars

\* A hand at a terminal, which waits for the answer before it goes on.
Type(b, c) ==
    /\ Drained(b) /\ mode[b] \in Polling
    /\ Send(b, c)
    /\ UNCHANGED <<board, out, open, host>>

Command == {"i", "s", "m", "e", "t", "g", "p", "1", "w", "f", "F", "x", "d", "D", "a",
            "c", "B", "q"}

TerminalNext == \E b \in Board : Arrive(b) \/ Executes(b) \/ \E c \in Command : Type(b, c)

TerminalSpec == Init /\ [][TerminalNext]_vars
-----------------------------------------------------------------------------
TypeOK ==
    /\ mode \in [Board -> Polling \cup Busy \cup Asleep \cup {"boot", "woken", "panicked"}]
    /\ rx \in [Board -> Command \cup {"P", "none", "overrun"}]
    /\ poked \in [Board -> BOOLEAN] /\ good \in [Board -> BOOLEAN]
    /\ b0 \in [Board -> {"free", "master", "slave", "gone"}]
    /\ latched \in [Board -> SUBSET {"stop", "held"}] /\ tainted \in [Board -> BOOLEAN]
    /\ left \in [Board -> 0 .. Burst]
    /\ tally \in [Board -> 0 .. Burst + 1] /\ edges \in [Board -> 0 .. Burst + 1]
    /\ \A b \in Board : Len(wire[b]) <= 2 /\ Len(out[b]) <= 2
    /\ open \in [Board -> BOOLEAN]
    /\ phase \in {"stopped", "open", "pop", "gap", "listen", "reopen", "settle",
                  "suites", "failed", "brand"}
    /\ who \in Board /\ found \subseteq Board
    /\ suite \in 0 .. Len(Suites)

Receives(b, tag) ==
    IF tag \in {Stats[m] : m \in SubMode}
      THEN mode[b] \in SubMode /\ Stats[mode[b]] = tag
      ELSE mode[b] = "idle"

\* A board that is sent a command is in the loop that takes it, with nothing
\* else under way that could spoil it or be taken for its answer.  A board
\* that booted late and has heard nothing yet may still announce itself.
Clean(b, c) ==
    /\ wire[b] = <<>> /\ rx[b] = "none"
    /\ \A k \in DOMAIN out[b] : out[b][k][1] = "READY"
    /\ IF c = "q" THEN mode[b] \in SubMode ELSE mode[b] = "idle"

\* The answer is there, or being worked on, or its command is under way alone.
Coming(b, tag) ==
    \/ \E k \in DOMAIN out[b] : out[b][k][1] = tag
    \/ mode[b] \in Busy /\ Result[mode[b]] = tag
    \/ mode[b] = "woken" /\ tag = "WOKE"
    \/ /\ Receives(b, tag)
       /\ \/ Len(wire[b]) = 1 /\ rx[b] = "none"
          \/ wire[b] = <<>> /\ rx[b] \notin {"none", "overrun"}

\* boards.rs:103-107, 163-165: whatever the host before left behind, the suites
\* lose no command: each finds its board ready for it, and while the host
\* waits for an answer, that answer is coming.
CommandsHeard ==
    phase = "suites" /\ todo # <<>> =>
        LET s == Head(todo) IN
          /\ s.act = "send" => Clean(s.on, s.what)
          /\ s.act \in {"expect", "look"} => Coming(s.on, s.what)

\* suites.rs, boards.rs:100-103: the tallies and verdicts the suites ask for are
\* those the boards report, whatever the host before left behind.  Only the I2C
\* bridge may fail, and only if its slave was taken up with something latched:
\* its gauntlet, or the tally it asserts.
VerdictsHonest ==
    phase = "failed" =>
        /\ tainted["child"]
        /\ Head(todo) \in {GivenUp, Expect("child", "SLAVE_STATS", Burst)}

\* suites.rs:96-98: the tally is asserted exactly, and a gauntlet that passed
\* gives it.
TallyExact == phase = "failed" => Head(todo).what # "SLAVE_STATS"

\* boards.rs:88-91, 100-103: a run of the host comes to its end, unless it finds
\* a board asleep; from any other mode a board is called back.
RunsEnd ==
    (phase = "open" /\ found = {} /\ \A b \in Board : mode[b] \notin Asleep)
        ~> phase = "stopped"

\* boards.rs:103-107: a command is kept apart from the one before, so that the
\* board identified hears who it is.
RoleHeard ==
    phase = "brand" =>
        \/ \E k \in DOMAIN wire[who] : wire[who][k] = "P"
        \/ rx[who] = "P"
        \/ \E k \in DOMAIN out[who] : out[who][k][1] = "PROVISIONED"

\* two_board_fixture.rs:23-24: every board answers every command.
AnswersEveryCommand == \A b \in Board : mode[b] # "panicked"
=============================================================================
