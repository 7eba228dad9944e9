--------------------------- MODULE TwoBoard_proofs ----------------------------
(***************************************************************************)
(* The rig, for bursts of every length: whatever host ran before and       *)
(* wherever it was aborted, no suite loses a command, none waits for an    *)
(* answer that will not come, and none fails, but the I2C bridge when its  *)
(* slave was taken up with something latched.                              *)
(*                                                                         *)
(* RigInv is the inductive invariant.                                      *)
(*                                                                         *)
(* SuiteInv is about the host that runs its suites: it names, for every    *)
(* place in a script, what the two boards are doing then: InScript if what *)
(* is counted is what was sent, Spoiled from where a child's slave is taken*)
(* up with something latched to the end of its session.  A script is made  *)
(* of parts, a question, a measurement, a session in which one board serves*)
(* and the other drives, and a night; Scripts is the set of all that are   *)
(* made so, every suite is one (SuitesRun), and the rest is about scripts. *)
(*                                                                         *)
(* HostInv is about the host that identifies the boards: what it may have  *)
(* sent to the board it asks, what may come back, and that it leaves the   *)
(* other one alone.                                                        *)
(*                                                                         *)
(* BoardInv is about the boards whatever the host does, or did before it   *)
(* was aborted: eUSCI_B0 is not taken out for good, since only the child is*)
(* told to serve and only the parent to drive; a board that does not poll  *)
(* has in RXBUF what identify sends; a tally and what is left of the burst *)
(* exceed it by one at most, the STOP a slave found latched.               *)
(***************************************************************************)
EXTENDS TwoBoard, SequenceTheorems, TLAPS

USE DEF block
-----------------------------------------------------------------------------
\* The script of a suite.
Values == Board \cup {TRUE} \cup Nat
Tags == {Answer[c] : c \in DOMAIN Answer} \cup {Result[m] : m \in Busy}
        \cup {Stats[m] : m \in SubMode}
        \cup {"SLAVE_ON", "UARTECHO_ON", "GPIO_ARMED", "SLEEPING", "WOKE"}
Words == Command \cup Tags \cup {"none"}
Steps == [act : {"send", "expect", "look", "nap", "fail"}, on : Board, what : Words, value : Values]

Then(step, f) == <<step>> \o f

Questions == {"i", "B", "f", "F", "x", "d", "D", "a"}

\* What the suites are made of: a command and its answer,
Asking(b, c, f) == Then(SendStep(b, c), Then(Expect(b, Answer[c], b), f))
Measuring(b, f) == Then(SendStep(b, "c"), Then(Expect(b, "CAP", TRUE), f))

\* a session in which a board serves and the other drives,
Enter == [slave |-> "s", echo |-> "e", count |-> "g"]
On == [slave |-> "SLAVE_ON", echo |-> "UARTECHO_ON", count |-> "GPIO_ARMED"]
Drive == [slave |-> "m", echo |-> "t", count |-> "p"]
Driver == [slave |-> "testing", echo |-> "initiating", count |-> "pulsing"]

Leaving(m, b, f) == Then(SendStep(b, "q"), Then(Expect(b, Stats[m], Burst), f))
Driven(m, b, f) == Then(Expect(Peer(b), Result[Driver[m]], TRUE), Leaving(m, b, f))
Driving(m, b, f) == Then(SendStep(Peer(b), Drive[m]), Driven(m, b, f))
Session(m, b, f) == Then(SendStep(b, Enter[m]), Then(Expect(b, On[m], 0), Driving(m, b, f)))

\* and a sleep that the other board ends.
Woken(b, f) == Then(Expect(b, "WOKE", 1), f)
Waking(b, f) == Then(SendStep(Peer(b), "1"), Then(Expect(Peer(b), "PULSED", TRUE), Woken(b, f)))
Napping(b, f) == Then(Nap(b), Waking(b, f))
Night(b, f) == Then(SendStep(b, "w"), Then(Expect(b, "SLEEPING", 0), Napping(b, f)))

Serves(m, b) == m \in SubMode /\ b \in Board /\ (m = "slave" => b = "child")

\* One part and then the rest.
Part(f, g) ==
    \E b \in Board :
        \/ \E c \in Questions : f = Asking(b, c, g)
        \/ f = Measuring(b, g)
        \/ \E m \in SubMode : Serves(m, b) /\ f = Session(m, b, g)
        \/ f = Night(b, g)

\* What can be run part by part.
Runnable(F) ==
    /\ F \subseteq Seq(Steps)
    /\ \A f \in F : f = <<>> \/ \E g \in F : Part(f, g)

Scripts == UNION {F \in SUBSET Seq(Steps) : Runnable(F)}

\* What is in the set of all steps.
LEMMA StepsAre ==
    ASSUME NEW b \in Board, NEW w \in Words
    PROVE  /\ SendStep(b, w) \in Steps /\ Nap(b) \in Steps
           /\ Look(b, w) \in Steps /\ GivenUp \in Steps
           /\ \A v \in Values : Expect(b, w, v) \in Steps
<1>1. 0 \in Values /\ "none" \in Words
  BY Zenon DEF Values, Words
<1>2. SendStep(b, w) \in Steps
  BY <1>1 DEF Steps, SendStep
<1>3. Nap(b) \in Steps
  BY <1>1 DEF Steps, Nap
<1>4. ASSUME NEW v \in Values  PROVE Expect(b, w, v) \in Steps
  BY DEF Steps, Expect
<1>5. Look(b, w) \in Steps
  BY <1>1 DEF Steps, Look
<1>6. GivenUp \in Steps
  BY <1>1 DEF Steps, GivenUp, Board
<1> QED
  BY <1>2, <1>3, <1>4, <1>5, <1>6

\* A step put before a script: its head, its tail and its type.
LEMMA ThenFacts ==
    ASSUME NEW S, NEW s \in S, NEW f \in Seq(S)
    PROVE  /\ Then(s, f) \in Seq(S) /\ Then(s, f) # <<>>
           /\ Head(Then(s, f)) = s /\ Tail(Then(s, f)) = f
<1>1. Then(s, f) \in Seq(S) /\ Len(Then(s, f)) = Len(f) + 1
  BY DEF Then
<1>2. Then(s, f)[1] = s /\ \A i \in 1 .. Len(f) : Then(s, f)[i + 1] = f[i]
  BY DEF Then
<1>3. Tail(Then(s, f)) \in Seq(S) /\ Len(Tail(Then(s, f))) = Len(f)
  BY <1>1
<1>4. \A i \in 1 .. Len(f) : Tail(Then(s, f))[i] = f[i]
  BY <1>1, <1>2
<1>5. Tail(Then(s, f)) = f
  BY <1>3, <1>4, SeqEqual
<1>6. Then(s, f) # <<>>
  BY <1>1
<1> QED
  BY <1>1, <1>2, <1>5, <1>6

\* There are two boards, and each is the peer of the other.
LEMMA PeerFacts ==
    ASSUME NEW b \in Board
    PROVE  /\ Peer(b) \in Board /\ Peer(b) # b /\ Peer(Peer(b)) = b
           /\ \A x \in Board : x = b \/ x = Peer(b)
BY DEF Board, Peer

\* An expectation, a command or a nap put before a script.
LEMMA ExpectThen ==
    ASSUME NEW b \in Board, NEW w \in Words, NEW v \in Values, NEW f \in Seq(Steps)
    PROVE  /\ Then(Expect(b, w, v), f) \in Seq(Steps) /\ Then(Expect(b, w, v), f) # <<>>
           /\ Head(Then(Expect(b, w, v), f)) = Expect(b, w, v)
           /\ Tail(Then(Expect(b, w, v), f)) = f
BY StepsAre, ThenFacts, Zenon

LEMMA SendThen ==
    ASSUME NEW b \in Board, NEW w \in Words, NEW f \in Seq(Steps)
    PROVE  /\ Then(SendStep(b, w), f) \in Seq(Steps) /\ Then(SendStep(b, w), f) # <<>>
           /\ Head(Then(SendStep(b, w), f)) = SendStep(b, w)
           /\ Tail(Then(SendStep(b, w), f)) = f
BY StepsAre, ThenFacts, Zenon

LEMMA LookThen ==
    ASSUME NEW b \in Board, NEW w \in Words, NEW f \in Seq(Steps)
    PROVE  /\ Then(Look(b, w), f) \in Seq(Steps) /\ Then(Look(b, w), f) # <<>>
           /\ Head(Then(Look(b, w), f)) = Look(b, w)
           /\ Tail(Then(Look(b, w), f)) = f
BY StepsAre, ThenFacts, Zenon

\* CmdExpect is a command and then what is expected.
LEMMA CmdThen ==
    ASSUME NEW b \in Board, NEW c \in Words, NEW t \in Words, NEW v \in Values,
           NEW f \in Seq(Steps)
    PROVE  /\ Then(SendStep(b, c), Then(Expect(b, t, v), f)) \in Seq(Steps)
           /\ Then(SendStep(b, c), Then(Expect(b, t, v), f)) # <<>>
<1>1. Then(Expect(b, t, v), f) \in Seq(Steps)
  BY ExpectThen
<1> QED
  BY <1>1, SendThen

LEMMA NapThen ==
    ASSUME NEW b \in Board, NEW f \in Seq(Steps)
    PROVE  /\ Then(Nap(b), f) \in Seq(Steps) /\ Then(Nap(b), f) # <<>>
           /\ Head(Then(Nap(b), f)) = Nap(b)
           /\ Tail(Then(Nap(b), f)) = f
<1>1. "none" \in Words
  BY Zenon DEF Words
<1> QED
  BY <1>1, StepsAre, ThenFacts, Zenon

\* The commands and tags of the suites.
LEMMA WordsAre ==
    /\ \A c \in Questions : c \in Words /\ Answer[c] \in Words
    /\ \A m \in SubMode : /\ Enter[m] \in Words /\ On[m] \in Words /\ Drive[m] \in Words
                          /\ Result[Driver[m]] \in Words /\ Stats[m] \in Words
    /\ {"c", "CAP", "q", "w", "1", "SLEEPING", "PULSED", "WOKE"} \subseteq Words
<1>1. ASSUME NEW c \in Questions  PROVE c \in Words /\ Answer[c] \in Words
  <2>1. c \in Command /\ c \in DOMAIN Answer
    BY DEF Questions, Answer, Command
  <2> QED
    BY <2>1, Zenon DEF Words, Tags
<1>2. ASSUME NEW m \in SubMode  
      PROVE  /\ Enter[m] \in Words /\ On[m] \in Words /\ Drive[m] \in Words
             /\ Result[Driver[m]] \in Words /\ Stats[m] \in Words
  <2>1. Enter[m] \in Command /\ Drive[m] \in Command /\ Driver[m] \in Busy
        /\ On[m] \in {"SLAVE_ON", "UARTECHO_ON", "GPIO_ARMED", "SLEEPING", "WOKE"}
    BY DEF SubMode, Enter, Drive, Driver, On, Command, Busy
  <2> QED
    BY <2>1, Zenon DEF Words, Tags
<1>3. {"c", "q", "w", "1"} \subseteq Command
  BY DEF Command
<1>4. "CAP" = Result["measuring"] /\ "PULSED" = Result["pulsing"]
      /\ {"measuring", "pulsing"} \subseteq Busy
  BY DEF Result, Busy
<1>5. "CAP" \in Tags /\ "PULSED" \in Tags /\ "SLEEPING" \in Tags /\ "WOKE" \in Tags
  BY <1>4, Zenon DEF Tags
<1> QED
  BY <1>1, <1>2, <1>3, <1>5 DEF Words

\* The values of the suites.
LEMMA ValuesAre ==
    /\ \A b \in Board : b \in Values
    /\ TRUE \in Values
    /\ \A n \in Nat : n \in Values
BY Zenon DEF Values

\* A part before a script is a script of steps.
LEMMA PartSteps ==
    ASSUME Burst \in Nat, NEW g \in Seq(Steps), NEW f, Part(f, g)
    PROVE  f \in Seq(Steps) /\ f # <<>>
<1>1. PICK b \in Board : \/ \E c \in Questions : f = Asking(b, c, g)
                         \/ f = Measuring(b, g)
                         \/ \E m \in SubMode : f = Session(m, b, g)
                         \/ f = Night(b, g)
  BY DEF Part
<1>2. 0 \in Values /\ 1 \in Values /\ Burst \in Values /\ TRUE \in Values /\ b \in Values
  BY ValuesAre
<1>3. Peer(b) \in Board
  BY PeerFacts
<1>4. ASSUME NEW c \in Questions, f = Asking(b, c, g)  PROVE f \in Seq(Steps) /\ f # <<>>
  BY <1>2, <1>4, WordsAre, CmdThen, Zenon DEF Asking
<1>5. CASE f = Measuring(b, g)
  BY <1>2, <1>5, WordsAre, CmdThen, Zenon DEF Measuring
<1>6. ASSUME NEW m \in SubMode, f = Session(m, b, g)  PROVE f \in Seq(Steps) /\ f # <<>>
  <2>1. Leaving(m, b, g) \in Seq(Steps)
    BY <1>2, WordsAre, ExpectThen, SendThen, Zenon DEF Leaving
  <2>2. Driven(m, b, g) \in Seq(Steps)
    BY <2>1, <1>2, <1>3, WordsAre, ExpectThen, Zenon DEF Driven
  <2>3. Driving(m, b, g) \in Seq(Steps)
    BY <2>2, <1>3, WordsAre, SendThen, Zenon DEF Driving
  <2> QED
    BY <2>3, <1>2, <1>6, WordsAre, CmdThen, Zenon DEF Session
<1>7. CASE f = Night(b, g)
  <2>1. Woken(b, g) \in Seq(Steps)
    BY <1>2, WordsAre, ExpectThen, Zenon DEF Woken
  <2>2. Waking(b, g) \in Seq(Steps)
    BY <2>1, <1>2, <1>3, WordsAre, ExpectThen, SendThen, Zenon DEF Waking
  <2>3. Napping(b, g) \in Seq(Steps)
    BY <2>2, NapThen, Zenon DEF Napping
  <2> QED
    BY <2>3, <1>2, <1>7, WordsAre, CmdThen, Zenon DEF Night
<1> QED
  BY <1>1, <1>4, <1>5, <1>6, <1>7

\* A script is empty, or a part before a script,
LEMMA ScriptsUnfold ==
    \A f \in Scripts : f \in Seq(Steps) /\ (f = <<>> \/ \E g \in Scripts : Part(f, g))
BY DEF Scripts, Runnable

LEMMA ScriptsEmpty == <<>> \in Scripts
<1>1. Runnable({<<>>})
  BY DEF Runnable
<1> QED
  BY <1>1 DEF Scripts, Runnable

\* and whatever is made in that way is one: Scripts is the largest such set.
LEMMA ScriptsFold ==
    ASSUME Burst \in Nat, NEW g \in Scripts, NEW f, Part(f, g)
    PROVE  f \in Scripts
<1>1. PICK F \in SUBSET Seq(Steps) : Runnable(F) /\ g \in F
  BY DEF Scripts
<1>2. f \in Seq(Steps)
  BY PartSteps, ScriptsUnfold
<1>3. Runnable(F \cup {f})
  BY <1>1, <1>2 DEF Runnable
<1> QED
  BY <1>1, <1>2, <1>3 DEF Scripts

\* Concatenation of steps.
LEMMA StepsConcat ==
    ASSUME NEW p \in Seq(Steps), NEW q \in Seq(Steps), NEW r \in Seq(Steps)
    PROVE  p \o q \in Seq(Steps) /\ (p \o q) \o r = p \o (q \o r)
BY ConcatAssociative

\* A piece of a script that can be put before any other.
Fits(p) == p \in Seq(Steps) /\ \A g \in Scripts : p \o g \in Scripts

\* What fits before any script fits again before what fits.
LEMMA FitsConcat ==
    ASSUME NEW p, NEW q, Fits(p), Fits(q)
    PROVE  Fits(p \o q)
<1>1. p \o q \in Seq(Steps)
  BY DEF Fits
<1>2. ASSUME NEW g \in Scripts  PROVE (p \o q) \o g \in Scripts
  <2>1. (p \o q) \o g = p \o (q \o g)
    BY ScriptsUnfold, ConcatAssociative DEF Fits
  <2> QED
    BY <2>1 DEF Fits
<1> QED
  BY <1>1, <1>2 DEF Fits

\* What fits before any script is one.
LEMMA FitsScript ==
    ASSUME NEW p, Fits(p)
    PROVE  p \in Scripts
<1>1. p \o <<>> = p
  BY ConcatEmptySeq DEF Fits
<1> QED
  BY <1>1, ScriptsEmpty DEF Fits

\* Two steps, before a script,
LEMMA PairThen ==
    ASSUME NEW s \in Steps, NEW e \in Steps, NEW f \in Seq(Steps)
    PROVE  <<s, e>> \in Seq(Steps) /\ <<s, e>> \o f = Then(s, Then(e, f))
<1>1. <<s, e>> = <<s>> \o <<e>> /\ <<s>> \in Seq(Steps) /\ <<e>> \in Seq(Steps)
  <2>1. <<s>> \in Seq(Steps) /\ <<e>> \in Seq(Steps) /\ <<s, e>> \in Seq(Steps)
    OBVIOUS
  <2>2. Len(<<s, e>>) = 2 /\ Len(<<s>> \o <<e>>) = 2
    OBVIOUS
  <2>3. <<s, e>>[1] = (<<s>> \o <<e>>)[1] /\ <<s, e>>[2] = (<<s>> \o <<e>>)[2]
    OBVIOUS
  <2>4. <<s>> \o <<e>> \in Seq(Steps)
    BY <2>1
  <2>5. \A i \in 1 .. 2 : i = 1 \/ i = 2
    OBVIOUS
  <2> QED
    BY <2>1, <2>2, <2>3, <2>4, <2>5, SeqEqual
<1>2. (<<s>> \o <<e>>) \o f = <<s>> \o (<<e>> \o f)
  BY <1>1, ConcatAssociative
<1>3. <<s, e>> \in Seq(Steps)
  OBVIOUS
<1> QED
  BY <1>1, <1>2, <1>3 DEF Then

\* such as a command and its expectation.
LEMMA CmdExpectThen ==
    ASSUME NEW b \in Board, NEW c \in Words, NEW t \in Words, NEW v \in Values,
           NEW f \in Seq(Steps)
    PROVE  /\ CmdExpect(b, c, t, v) \in Seq(Steps)
           /\ CmdExpect(b, c, t, v) \o f = Then(SendStep(b, c), Then(Expect(b, t, v), f))
<1>1. SendStep(b, c) \in Steps /\ Expect(b, t, v) \in Steps
  BY StepsAre
<1> QED
  BY <1>1, PairThen, Zenon DEF CmdExpect

\* A question or a measurement of the suites fits,
LEMMA FitsCommand ==
    ASSUME Burst \in Nat, NEW b \in Board
    PROVE  /\ \A c \in Questions : Fits(CmdExpect(b, c, Answer[c], b))
           /\ Fits(CmdExpect(b, "c", "CAP", TRUE))
<1>1. ASSUME NEW c \in Questions  PROVE Fits(CmdExpect(b, c, Answer[c], b))
  <2>1. c \in Words /\ Answer[c] \in Words /\ b \in Values
    BY WordsAre, ValuesAre
  <2>2. ASSUME NEW g \in Scripts  PROVE CmdExpect(b, c, Answer[c], b) \o g \in Scripts
    <3>1. CmdExpect(b, c, Answer[c], b) \o g = Asking(b, c, g)
      BY <2>1, CmdExpectThen, ScriptsUnfold, Zenon DEF Asking
    <3>2. Part(Asking(b, c, g), g)
      BY DEF Part
    <3> QED
      BY <3>1, <3>2, ScriptsFold
  <2> QED
    BY <2>1, <2>2, CmdExpectThen, ScriptsEmpty, ScriptsUnfold, Zenon DEF Fits
<1>2. Fits(CmdExpect(b, "c", "CAP", TRUE))
  <2>1. "c" \in Words /\ "CAP" \in Words /\ TRUE \in Values
    BY WordsAre, ValuesAre
  <2>2. ASSUME NEW g \in Scripts  PROVE CmdExpect(b, "c", "CAP", TRUE) \o g \in Scripts
    <3>1. CmdExpect(b, "c", "CAP", TRUE) \o g = Measuring(b, g)
      BY <2>1, CmdExpectThen, ScriptsUnfold, Zenon DEF Measuring
    <3>2. Part(Measuring(b, g), g)
      BY DEF Part
    <3> QED
      BY <3>1, <3>2, ScriptsFold
  <2> QED
    BY <2>1, <2>2, CmdExpectThen, ScriptsEmpty, ScriptsUnfold, Zenon DEF Fits
<1> QED
  BY <1>1, <1>2

SessionSteps(m, b) ==
    CmdExpect(b, Enter[m], On[m], 0)
    \o CmdExpect(Peer(b), Drive[m], Result[Driver[m]], TRUE)
    \o CmdExpect(b, "q", Stats[m], Burst)

\* three of them at a time, which is how a session is written,
LEMMA FitsThree ==
    ASSUME NEW p \in Seq(Steps), NEW q \in Seq(Steps), NEW r \in Seq(Steps),
           \A g \in Scripts : p \o (q \o (r \o g)) \in Scripts
    PROVE  Fits(p \o q \o r)
<1>1. p \o q \in Seq(Steps) /\ p \o q \o r \in Seq(Steps)
  BY StepsConcat
<1>2. ASSUME NEW g \in Scripts  PROVE (p \o q \o r) \o g \in Scripts
  <2>1. g \in Seq(Steps)
    BY ScriptsUnfold
  <2>2. r \o g \in Seq(Steps)
    BY <2>1
  <2>3. (p \o q \o r) \o g = (p \o q) \o (r \o g)
    BY <1>1, <2>1, StepsConcat
  <2>4. (p \o q) \o (r \o g) = p \o (q \o (r \o g))
    <3> DEFINE z == r \o g
    <3> HIDE DEF z
    <3>1. z \in Seq(Steps)
      BY <2>2 DEF z
    <3>2. (p \o q) \o z = p \o (q \o z)
      BY <3>1, StepsConcat
    <3> QED
      BY <3>2 DEF z
  <2> QED
    BY <2>3, <2>4
<1> QED
  BY <1>1, <1>2 DEF Fits

\* a session fits,
LEMMA FitsSession ==
    ASSUME Burst \in Nat, NEW b \in Board, NEW m \in SubMode, Serves(m, b)
    PROVE  Fits(SessionSteps(m, b))
<1>1. Peer(b) \in Board
  BY PeerFacts
<1>2. Enter[m] \in Words /\ On[m] \in Words /\ 0 \in Values
  BY WordsAre, ValuesAre
<1>3. Drive[m] \in Words /\ Result[Driver[m]] \in Words /\ TRUE \in Values
  BY WordsAre, ValuesAre
<1>4. "q" \in Words /\ Stats[m] \in Words /\ Burst \in Values
  BY WordsAre, ValuesAre
<1>5. ASSUME NEW f \in Seq(Steps)
      PROVE  /\ CmdExpect(b, "q", Stats[m], Burst) \in Seq(Steps)
             /\ CmdExpect(b, "q", Stats[m], Burst) \o f = Leaving(m, b, f)
             /\ Leaving(m, b, f) \in Seq(Steps)
  <2>1. /\ CmdExpect(b, "q", Stats[m], Burst) \in Seq(Steps)
        /\ CmdExpect(b, "q", Stats[m], Burst) \o f
             = Then(SendStep(b, "q"), Then(Expect(b, Stats[m], Burst), f))
    BY <1>4, CmdExpectThen, Zenon
  <2>2. Then(SendStep(b, "q"), Then(Expect(b, Stats[m], Burst), f)) \in Seq(Steps)
    BY <1>4, CmdThen, Zenon
  <2> QED
    BY <2>1, <2>2, Zenon DEF Leaving
<1>6. ASSUME NEW f \in Seq(Steps)
      PROVE  /\ CmdExpect(Peer(b), Drive[m], Result[Driver[m]], TRUE) \in Seq(Steps)
             /\ CmdExpect(Peer(b), Drive[m], Result[Driver[m]], TRUE) \o Leaving(m, b, f)
                  = Driving(m, b, f)
             /\ Driving(m, b, f) \in Seq(Steps)
  <2>1. Leaving(m, b, f) \in Seq(Steps)
    BY <1>5
  <2> QED
    <3> DEFINE g == Leaving(m, b, f)
               t == Result[Driver[m]]
               p == Peer(b)
               d == Drive[m]
               v == TRUE
    <3>1. g \in Seq(Steps) /\ t \in Words /\ p \in Board /\ d \in Words /\ v \in Values
      BY <1>1, <1>3, <2>1
    <3> HIDE DEF g, t, p, d, v
    <3>2. /\ CmdExpect(p, d, t, v) \in Seq(Steps)
          /\ CmdExpect(p, d, t, v) \o g
               = Then(SendStep(p, d), Then(Expect(p, t, v), g))
      BY <3>1, CmdExpectThen, ZenonT(60)
    <3>3. Then(SendStep(p, d), Then(Expect(p, t, v), g)) \in Seq(Steps)
      BY <3>1, CmdThen, Zenon
    <3> QED
      BY <3>2, <3>3, Zenon DEF Driving, Driven, g, t, p, d, v
<1>7. ASSUME NEW f \in Seq(Steps)
      PROVE  /\ CmdExpect(b, Enter[m], On[m], 0) \in Seq(Steps)
             /\ CmdExpect(b, Enter[m], On[m], 0) \o Driving(m, b, f) = Session(m, b, f)
  <2>1. Driving(m, b, f) \in Seq(Steps)
    BY <1>6
  <2> QED
    BY <1>2, <2>1, CmdExpectThen DEF Session
<1>8. ASSUME NEW g \in Scripts
      PROVE  CmdExpect(b, Enter[m], On[m], 0)
               \o (CmdExpect(Peer(b), Drive[m], Result[Driver[m]], TRUE)
                     \o (CmdExpect(b, "q", Stats[m], Burst) \o g)) \in Scripts
  <2>1. g \in Seq(Steps)
    BY ScriptsUnfold
  <2>2. Part(Session(m, b, g), g)
    BY DEF Part
  <2>3. Session(m, b, g) \in Scripts
    BY <2>2, ScriptsFold
  <2> QED
    BY <2>1, <2>3, <1>5, <1>6, <1>7
<1>9. <<>> \in Seq(Steps)
  OBVIOUS
<1>10. /\ CmdExpect(b, Enter[m], On[m], 0) \in Seq(Steps)
       /\ CmdExpect(Peer(b), Drive[m], Result[Driver[m]], TRUE) \in Seq(Steps)
       /\ CmdExpect(b, "q", Stats[m], Burst) \in Seq(Steps)
  BY <1>5, <1>6, <1>7, <1>9
<1> QED
  BY <1>8, <1>10, FitsThree DEF SessionSteps

\* and a night.
LEMMA FitsNight ==
    ASSUME Burst \in Nat, NEW b \in Board
    PROVE  Fits(Lpm4Wake(b))
<1>1. Peer(b) \in Board
  BY PeerFacts
<1>2. /\ "w" \in Words /\ "SLEEPING" \in Words /\ "1" \in Words /\ "PULSED" \in Words
      /\ "WOKE" \in Words /\ 0 \in Values /\ 1 \in Values /\ TRUE \in Values
  BY WordsAre, ValuesAre
<1>3. Expect(b, "WOKE", 1) \in Steps /\ Nap(b) \in Steps
  BY <1>2, StepsAre
<1>4. <<Expect(b, "WOKE", 1)>> \in Seq(Steps) /\ <<Nap(b)>> \in Seq(Steps)
  <2> HIDE DEF Expect, Nap
  <2> QED
    BY <1>3
<1>5. ASSUME NEW f \in Seq(Steps)
      PROVE  <<Expect(b, "WOKE", 1)>> \o f = Woken(b, f) /\ Woken(b, f) \in Seq(Steps)
  <2>1. Woken(b, f) \in Seq(Steps)
    BY <1>2, ExpectThen DEF Woken
  <2> QED
    BY <2>1 DEF Woken, Then
<1>6. ASSUME NEW f \in Seq(Steps)
      PROVE  /\ CmdExpect(Peer(b), "1", "PULSED", TRUE) \in Seq(Steps)
             /\ CmdExpect(Peer(b), "1", "PULSED", TRUE) \o Woken(b, f) = Waking(b, f)
             /\ Waking(b, f) \in Seq(Steps)
  <2>1. Woken(b, f) \in Seq(Steps)
    BY <1>5
  <2> QED
    <3> DEFINE g == Woken(b, f)
    <3> HIDE DEF g
    <3>1. g \in Seq(Steps) /\ "1" \in Words /\ "PULSED" \in Words /\ TRUE \in Values
      BY <2>1, <1>2 DEF g
    <3>2. /\ CmdExpect(Peer(b), "1", "PULSED", TRUE) \in Seq(Steps)
          /\ CmdExpect(Peer(b), "1", "PULSED", TRUE) \o g
               = Then(SendStep(Peer(b), "1"), Then(Expect(Peer(b), "PULSED", TRUE), g))
      BY <1>1, <3>1, CmdExpectThen, Zenon
    <3>3. Then(SendStep(Peer(b), "1"), Then(Expect(Peer(b), "PULSED", TRUE), g)) \in Seq(Steps)
      BY <1>1, <1>2, <3>1, CmdThen, Zenon
    <3> QED
      BY <3>2, <3>3, Zenon DEF Waking, g
<1>7. ASSUME NEW f \in Seq(Steps)
      PROVE  <<Nap(b)>> \o Waking(b, f) = Napping(b, f) /\ Napping(b, f) \in Seq(Steps)
  <2>1. Napping(b, f) \in Seq(Steps)
    BY <1>6, NapThen DEF Napping
  <2> QED
    BY <2>1 DEF Napping, Then
<1>8. ASSUME NEW f \in Seq(Steps)
      PROVE  /\ CmdExpect(b, "w", "SLEEPING", 0) \in Seq(Steps)
             /\ CmdExpect(b, "w", "SLEEPING", 0) \o Napping(b, f) = Night(b, f)
  <2>1. Napping(b, f) \in Seq(Steps)
    BY <1>7
  <2> QED
    <3> DEFINE g == Napping(b, f)
    <3> HIDE DEF g
    <3>1. g \in Seq(Steps) /\ "w" \in Words /\ "SLEEPING" \in Words /\ 0 \in Values
      BY <2>1, <1>2 DEF g
    <3>2. /\ CmdExpect(b, "w", "SLEEPING", 0) \in Seq(Steps)
          /\ CmdExpect(b, "w", "SLEEPING", 0) \o g
               = Then(SendStep(b, "w"), Then(Expect(b, "SLEEPING", 0), g))
      BY <3>1, CmdExpectThen, Zenon
    <3> QED
      BY <3>2, Zenon DEF Night, g
<1>9. <<>> \in Seq(Steps)
  OBVIOUS
<1>10. /\ CmdExpect(b, "w", "SLEEPING", 0) \in Seq(Steps)
       /\ CmdExpect(Peer(b), "1", "PULSED", TRUE) \in Seq(Steps)
  BY <1>6, <1>8, <1>9
<1> DEFINE p == CmdExpect(b, "w", "SLEEPING", 0)
           q == <<Nap(b)>>
           r == CmdExpect(Peer(b), "1", "PULSED", TRUE)
           s == <<Expect(b, "WOKE", 1)>>
<1>11. ASSUME NEW g \in Scripts  PROVE (p \o q) \o (r \o (s \o g)) \in Scripts
  <2>1. g \in Seq(Steps)
    BY ScriptsUnfold
  <2>2. Part(Night(b, g), g)
    BY DEF Part
  <2>3. p \o (q \o (r \o (s \o g))) \in Scripts
    <3>1. Night(b, g) \in Scripts
      BY <2>2, ScriptsFold
    <3>2. s \o g = Woken(b, g)
      BY <1>5, <2>1
    <3>3. r \o Woken(b, g) = Waking(b, g)
      BY <1>6, <2>1
    <3>4. q \o Waking(b, g) = Napping(b, g)
      BY <1>7, <2>1
    <3>5. p \o Napping(b, g) = Night(b, g)
      BY <1>8, <2>1
    <3> HIDE DEF p, q, r, s
    <3> QED
      BY <3>1, <3>2, <3>3, <3>4, <3>5
  <2>4. r \o (s \o g) \in Seq(Steps)
    BY <2>1, <1>5, <1>6
  <2>5. (p \o q) \o (r \o (s \o g)) = p \o (q \o (r \o (s \o g)))
    <3> DEFINE z == r \o (s \o g)
    <3> HIDE DEF p, q, z
    <3>1. p \in Seq(Steps) /\ q \in Seq(Steps) /\ z \in Seq(Steps)
      BY <1>4, <1>10, <2>4 DEF p, q, z
    <3>2. (p \o q) \o z = p \o (q \o z)
      BY <3>1, StepsConcat
    <3> QED
      BY <3>2 DEF z
  <2> QED
    BY <2>3, <2>5
<1>12. p \o q \in Seq(Steps)
  <2> HIDE DEF Nap, Expect
  <2> QED
    BY <1>4, <1>10, StepsConcat
<1>13. Fits((p \o q) \o r \o s)
  <2> DEFINE pq == p \o q
  <2>1. pq \in Seq(Steps) /\ r \in Seq(Steps) /\ s \in Seq(Steps)
    BY <1>4, <1>10, <1>12
  <2>2. \A g \in Scripts : pq \o (r \o (s \o g)) \in Scripts
    BY <1>11
  <2> HIDE DEF pq, r, s
  <2>3. Fits(pq \o r \o s)
    BY <2>1, <2>2, FitsThree
  <2> QED
    BY <2>3 DEF pq
<1> QED
  BY <1>13 DEF Lpm4Wake

\* Every suite of suites.rs is a script: what follows is about scripts, whatever
\* suites there are.
THEOREM SuitesRun ==
    ASSUME Burst \in Nat
    PROVE  \A s \in DOMAIN Suites : Suites[s] \in Scripts
<1>1. "parent" \in Board /\ "child" \in Board
      /\ Peer("parent") = "child" /\ Peer("child") = "parent"
  BY DEF Board, Peer
<1>2. {"i", "B", "f", "F", "x", "d", "D", "a"} \subseteq Questions
  BY DEF Questions
<1>3. ASSUME NEW b \in Board, NEW c \in Questions  PROVE Fits(CmdExpect(b, c, Answer[c], b))
  BY <1>3, FitsCommand
<1>4. ASSUME NEW b \in Board
      PROVE  /\ Fits(CmdExpect(b, "i", "ID", b)) /\ Fits(CmdExpect(b, "B", "B0", b))
             /\ Fits(CmdExpect(b, "f", "PWM", b)) /\ Fits(CmdExpect(b, "F", "PWM", b))
             /\ Fits(CmdExpect(b, "x", "PWM_OFF", b)) /\ Fits(CmdExpect(b, "d", "DAC", b))
             /\ Fits(CmdExpect(b, "D", "DAC", b)) /\ Fits(CmdExpect(b, "a", "ADC", b))
             /\ Fits(CmdExpect(b, "c", "CAP", TRUE))
  <2>1. /\ Answer["i"] = "ID" /\ Answer["B"] = "B0" /\ Answer["f"] = "PWM"
        /\ Answer["F"] = "PWM" /\ Answer["x"] = "PWM_OFF" /\ Answer["d"] = "DAC"
        /\ Answer["D"] = "DAC" /\ Answer["a"] = "ADC"
    BY DEF Answer
  <2>2. /\ Fits(CmdExpect(b, "i", "ID", b)) /\ Fits(CmdExpect(b, "B", "B0", b))
        /\ Fits(CmdExpect(b, "f", "PWM", b)) /\ Fits(CmdExpect(b, "F", "PWM", b))
    BY <2>1, <1>2, <1>3, SMT
  <2>3. /\ Fits(CmdExpect(b, "x", "PWM_OFF", b)) /\ Fits(CmdExpect(b, "d", "DAC", b))
        /\ Fits(CmdExpect(b, "D", "DAC", b)) /\ Fits(CmdExpect(b, "a", "ADC", b))
    BY <2>1, <1>2, <1>3, SMT
  <2> QED
    BY <2>2, <2>3, FitsCommand
<1>5. ASSUME NEW b \in Board  PROVE Fits(UartLink(b)) /\ Fits(GpioEdge(b))
  <2>1. Serves("echo", b) /\ Serves("count", b) /\ {"echo", "count"} \subseteq SubMode
    BY DEF Serves, SubMode
  <2>2. UartLink(b) = SessionSteps("echo", b) /\ GpioEdge(b) = SessionSteps("count", b)
    BY DEF UartLink, GpioEdge, SessionSteps, Enter, On, Drive, Driver, Result, Stats
  <2> QED
    BY <2>1, <2>2, FitsSession
<1>6. Fits(Identity)
  BY <1>1, <1>4, FitsConcat DEF Identity
<1>7. Fits(I2cBridge)
  <2>1. Serves("slave", "child") /\ "slave" \in SubMode
    BY <1>1 DEF Serves, SubMode
  <2>2. Fits(SessionSteps("slave", "child"))
    BY <2>1, <1>1, FitsSession
  <2>3. Fits(CmdExpect("parent", "B", "B0", "parent"))
    BY <1>1, <1>4
  <2>4. Fits(CmdExpect("parent", "B", "B0", "parent") \o SessionSteps("slave", "child"))
    BY <2>2, <2>3, FitsConcat
  <2>5. /\ Enter["slave"] = "s" /\ On["slave"] = "SLAVE_ON" /\ Drive["slave"] = "m"
        /\ Result[Driver["slave"]] = "I2C_TEST_END" /\ Stats["slave"] = "SLAVE_STATS"
    BY DEF Enter, On, Drive, Result, Driver, Stats
  <2> DEFINE p == CmdExpect("parent", "B", "B0", "parent")
             q == CmdExpect("child", "s", "SLAVE_ON", 0)
             r == CmdExpect("parent", "m", "I2C_TEST_END", TRUE)
             t == CmdExpect("child", "q", "SLAVE_STATS", Burst)
  <2>6. SessionSteps("slave", "child") = q \o r \o t
    BY <2>5, <1>1 DEF SessionSteps
  <2>7. p \in Seq(Steps) /\ q \in Seq(Steps) /\ r \in Seq(Steps) /\ t \in Seq(Steps)
    <3>1. {"q", "s", "m"} \subseteq Words /\ {"SLAVE_ON", "SLAVE_STATS", "I2C_TEST_END"} \subseteq Words
      <4>1. "slave" \in SubMode /\ "q" \in Words
        BY <2>1, WordsAre
      <4> QED
        BY <4>1, <2>5, WordsAre
    <3>2. 0 \in Values /\ TRUE \in Values /\ Burst \in Values /\ <<>> \in Seq(Steps)
      <4>1. <<>> \in Seq(Steps)
        OBVIOUS
      <4> QED
        BY <4>1, ValuesAre
    <3>3. q \in Seq(Steps)
      BY <1>1, <3>1, <3>2, CmdExpectThen
    <3>4. r \in Seq(Steps)
      BY <1>1, <3>1, <3>2, CmdExpectThen
    <3>5. t \in Seq(Steps)
      BY <1>1, <3>1, <3>2, CmdExpectThen
    <3> QED
      BY <2>3, <3>3, <3>4, <3>5 DEF Fits
  <2>8. ((p \o q) \o r) \o t = p \o ((q \o r) \o t)
    <3> HIDE DEF p, q, r, t
    <3>1. (p \o q) \o r = p \o (q \o r) /\ q \o r \in Seq(Steps)
      BY <2>7, StepsConcat
    <3> DEFINE z == q \o r
    <3>2. z \in Seq(Steps)
      BY <3>1
    <3> HIDE DEF z
    <3>3. p \in Seq(Steps) /\ t \in Seq(Steps)
      BY <2>7
    <3>4. (p \o z) \o t = p \o (z \o t)
      BY <3>2, <3>3, ConcatAssociative
    <3> QED
      BY <3>1, <3>4 DEF z
  <2> QED
    BY <2>4, <2>6, <2>8 DEF I2cBridge
<1>8. Fits(BothWays(UartLink)) /\ Fits(BothWays(GpioEdge)) /\ Fits(BothWays(Lpm4Wake))
  BY <1>1, <1>5, FitsNight, FitsConcat DEF BothWays
<1>9. ASSUME NEW b \in Board  PROVE Fits(PwmCross(b))
  <2>1. Peer(b) \in Board
    BY PeerFacts
  <2>2. Fits(CmdExpect(b, "f", "PWM", b) \o CmdExpect(Peer(b), "c", "CAP", TRUE))
    BY <2>1, <1>4, FitsConcat
  <2>3. Fits(CmdExpect(b, "f", "PWM", b) \o CmdExpect(Peer(b), "c", "CAP", TRUE)
               \o CmdExpect(b, "F", "PWM", b))
    BY <2>2, <1>4, FitsConcat
  <2>4. Fits(CmdExpect(b, "f", "PWM", b) \o CmdExpect(Peer(b), "c", "CAP", TRUE)
               \o CmdExpect(b, "F", "PWM", b) \o CmdExpect(Peer(b), "c", "CAP", TRUE))
    BY <2>1, <2>3, <1>4, FitsConcat
  <2> QED
    BY <2>4, <1>4, FitsConcat DEF PwmCross
<1>10. ASSUME NEW b \in Board  PROVE Fits(AdcDac(b))
  <2>1. Peer(b) \in Board
    BY PeerFacts
  <2>2. Fits(CmdExpect(b, "a", "ADC", b) \o CmdExpect(b, "d", "DAC", b))
    BY <1>4, FitsConcat
  <2>3. Fits(CmdExpect(b, "a", "ADC", b) \o CmdExpect(b, "d", "DAC", b)
               \o CmdExpect(Peer(b), "a", "ADC", Peer(b)))
    BY <2>1, <2>2, <1>4, FitsConcat
  <2>4. Fits(CmdExpect(b, "a", "ADC", b) \o CmdExpect(b, "d", "DAC", b)
               \o CmdExpect(Peer(b), "a", "ADC", Peer(b)) \o CmdExpect(b, "D", "DAC", b))
    BY <2>3, <1>4, FitsConcat
  <2>5. Fits(CmdExpect(b, "a", "ADC", b) \o CmdExpect(b, "d", "DAC", b)
               \o CmdExpect(Peer(b), "a", "ADC", Peer(b)) \o CmdExpect(b, "D", "DAC", b)
               \o CmdExpect(Peer(b), "a", "ADC", Peer(b)))
    BY <2>1, <2>4, <1>4, FitsConcat
  <2> QED
    BY <2>5, <1>4, FitsConcat DEF AdcDac
<1>11. Fits(BothWays(PwmCross)) /\ Fits(BothWays(AdcDac))
  BY <1>1, <1>9, <1>10, FitsConcat DEF BothWays
<1>12. ASSUME NEW s \in DOMAIN Suites  PROVE Fits(Suites[s])
  <2>1. \/ Suites[s] = Identity \/ Suites[s] = I2cBridge
        \/ Suites[s] = BothWays(UartLink) \/ Suites[s] = BothWays(GpioEdge)
        \/ Suites[s] = BothWays(Lpm4Wake) \/ Suites[s] = BothWays(PwmCross)
        \/ Suites[s] = BothWays(AdcDac)
    BY DEF Suites
  <2> QED
    BY <2>1, <1>6, <1>7, <1>8, <1>11
<1> QED
  BY <1>12, FitsScript
\* The gauntlet that failed: the child is called out, and both are asked.
Dump == Asking("parent", "B", Asking("child", "B", <<GivenUp>>))
Looking == Then(Look("child", "SLAVE_STATS"), Dump)

LEMMA DumpSeqs ==
    /\ {"parent", "child"} \subseteq Board /\ "B" \in Questions /\ "q" \in Words
    /\ "SLAVE_STATS" \in Words /\ "B0" \in Words /\ "B" \in Words
    /\ <<GivenUp>> \in Seq(Steps) /\ Asking("child", "B", <<GivenUp>>) \in Seq(Steps)
    /\ Then(Expect("child", "B0", "child"), <<GivenUp>>) \in Seq(Steps)
    /\ Then(Expect("parent", "B0", "parent"), Asking("child", "B", <<GivenUp>>)) \in Seq(Steps)
    /\ Dump \in Seq(Steps) /\ Looking \in Seq(Steps)
<1>1. {"parent", "child"} \subseteq Board /\ "B" \in Questions /\ Answer["B"] = "B0"
      /\ Stats["slave"] = "SLAVE_STATS" /\ "slave" \in SubMode
  BY DEF Board, Questions, Answer, Stats, SubMode
<1>2. "SLAVE_STATS" \in Words /\ "B0" \in Words /\ "B" \in Words /\ "q" \in Words
  <2>1. \A w : w = Stats["slave"] => w \in Words
    BY <1>1, WordsAre
  <2>2. \A w : w = Answer["B"] => w \in Words
    BY <1>1, WordsAre
  <2> QED
    BY <1>1, <2>1, <2>2, WordsAre
<1>3. "parent" \in Values /\ "child" \in Values
  BY <1>1, ValuesAre
<1>4. <<GivenUp>> \in Seq(Steps)
  <2>1. GivenUp \in Steps
    BY <1>1, <1>2, StepsAre
  <2> QED
    BY <2>1
<1>5. Then(Expect("child", "B0", "child"), <<GivenUp>>) \in Seq(Steps)
  BY <1>1, <1>2, <1>3, <1>4, ExpectThen, Zenon
<1>6. Asking("child", "B", <<GivenUp>>) \in Seq(Steps)
  BY <1>1, <1>2, <1>5, SendThen, Zenon DEF Asking
<1>7. Then(Expect("parent", "B0", "parent"), Asking("child", "B", <<GivenUp>>)) \in Seq(Steps)
  BY <1>1, <1>2, <1>3, <1>6, ExpectThen, Zenon
<1>8. Dump \in Seq(Steps)
  BY <1>1, <1>2, <1>7, SendThen, Zenon DEF Dump, Asking
<1>9. Looking \in Seq(Steps)
  BY <1>1, <1>2, <1>8, LookThen, Zenon DEF Looking
<1> QED
  BY <1>1, <1>2, <1>4, <1>5, <1>6, <1>7, <1>8, <1>9

LEMMA AskThen ==
    ASSUME NEW b \in Board, NEW c \in Questions, NEW f \in Seq(Steps)
    PROVE  /\ CmdExpect(b, c, Answer[c], b) \in Seq(Steps)
           /\ CmdExpect(b, c, Answer[c], b) \o f = Asking(b, c, f)
<1>1. c \in Words /\ Answer[c] \in Words /\ b \in Values
  BY WordsAre, ValuesAre
<1> QED
  BY <1>1, CmdExpectThen, Zenon DEF Asking

LEMMA PostMortemIs == PostMortem = Then(SendStep("child", "q"), Looking)
<1> DEFINE s == SendStep("child", "q")
           l == Look("child", "SLAVE_STATS")
           h == <<s, l>>
           p == CmdExpect("parent", "B", "B0", "parent")
           c == CmdExpect("child", "B", "B0", "child")
           g == <<GivenUp>>
           cg == Asking("child", "B", g)
<1>1. s \in Steps /\ l \in Steps
  BY DumpSeqs, StepsAre, Zenon
<1>2. Answer["B"] = "B0"
  BY DEF Answer
<1>3. /\ c \in Seq(Steps) /\ c \o g = cg /\ g \in Seq(Steps) /\ cg \in Seq(Steps)
      /\ p \in Seq(Steps) /\ p \o cg = Dump
  <2>1. \A b \in Board, f \in Seq(Steps) :
            /\ CmdExpect(b, "B", "B0", b) \in Seq(Steps)
            /\ CmdExpect(b, "B", "B0", b) \o f = Asking(b, "B", f)
    BY <1>2, DumpSeqs, AskThen
  <2> QED
    BY <2>1, DumpSeqs, Zenon DEF Dump
<1>4. PostMortem = h \o p \o c \o g
  BY DEF PostMortem
<1>5. h \o Dump = Then(s, Looking) /\ h \in Seq(Steps)
  BY <1>1, DumpSeqs, PairThen, Zenon DEF Looking
<1> HIDE DEF s, l, h, p, c, g, cg
<1>6. h \o p \in Seq(Steps)
  BY <1>3, <1>5, StepsConcat
<1>7. ((h \o p) \o c) \o g = (h \o p) \o (c \o g)
  BY <1>3, <1>6, StepsConcat
<1>8. (h \o p) \o cg = h \o (p \o cg)
  BY <1>3, <1>5, StepsConcat
<1> QED
  BY <1>3, <1>4, <1>5, <1>7, <1>8, Zenon DEF s
-----------------------------------------------------------------------------
Moves(b) == Arrive(b) \/ Executes(b) \/ Announce(b)

TypesInv ==
    /\ mode \in [Board -> Polling \cup Busy \cup Asleep \cup {"boot", "woken"}]
    /\ rx \in [Board -> Command \cup {"P", "none", "overrun"}]
    /\ poked \in [Board -> BOOLEAN] /\ good \in [Board -> BOOLEAN]
    /\ b0 \in [Board -> {"free", "master", "slave", "gone"}]
    /\ latched \in [Board -> SUBSET {"stop", "held"}] /\ tainted \in [Board -> BOOLEAN]
    /\ left \in [Board -> 0 .. Burst]
    /\ tally \in [Board -> 0 .. Burst + 1] /\ edges \in [Board -> 0 .. Burst + 1]
    /\ DOMAIN wire = Board /\ DOMAIN out = Board
    /\ open \in [Board -> BOOLEAN]
    /\ who \in Board /\ found \subseteq Board
    /\ suite \in 0 .. Len(Suites)

Listed == {"i", "e", "t", "g", "p", "1", "w", "f", "F", "x", "d", "D", "a", "c", "B", "q"}
Commands(b) == Listed \cup (IF b = "parent" THEN {"m"} ELSE {"s"})

Away == Busy \cup Asleep \cup {"woken"}

Pending(b, c) == rx[b] = c \/ wire[b] = <<c>>

\* A board away from its loop finds in RXBUF what identify sent, or an overrun.
BoardOK(b) ==
    /\ rx[b] \in Commands(b) \cup {"none", "overrun"}
    /\ wire[b] = <<>> \/ \E c \in Commands(b) : wire[b] = <<c>>
    /\ b0[b] \in (IF b = "parent" THEN {"free", "master"} ELSE {"free", "slave"})
    /\ mode[b] \in Away => /\ rx[b] \in {"none", "q", "overrun"}
                           /\ wire[b] \in {<<>>, <<"q">>, <<"i">>}
                           /\ wire[b] = <<"i">> => rx[b] # "none"
    /\ rx[b] \notin {"none", "q", "i", "overrun"} => wire[b] = <<>>
    /\ mode[b] = "boot" => rx[b] = "none"
    /\ mode[b] \notin {"boot", "idle"} => poked[b]

ServedOK(b) ==
    \A m \in DOMAIN Server :
        mode[Peer(b)] = Server[m] =>
            /\ mode[b] = m => tally[Peer(b)] + left[b] <= Burst + 1
            /\ Pending(b, Drive[Server[m]]) => tally[Peer(b)] <= 1

\* What a slave was taken up with is all that is latched while it serves.
CleanOK(b) == mode[b] = "slave" /\ ~tainted[b] => latched[b] = {}

BoardInv == \A b \in Board : BoardOK(b) /\ ServedOK(b) /\ CleanOK(b)

\* Types, for a step of a board.
LEMMA ArriveTypes ==
    ASSUME TypesInv, BoardInv, NEW b \in Board, Arrive(b)
    PROVE  TypesInv'
<1>1. PICK c \in Commands(b) : wire[b] = <<c>>
  BY DEF Arrive, BoardInv, BoardOK
<1>2. Head(wire[b]) = c /\ c \in Command
  BY <1>1 DEF Commands, Listed, Command
<1>3. rx' \in [Board -> Command \cup {"P", "none", "overrun"}]
  BY <1>2 DEF Arrive, TypesInv
<1>4. DOMAIN wire' = Board
  BY DEF Arrive, TypesInv
<1> QED
  BY <1>3, <1>4 DEF TypesInv, Arrive, loop, host

\* A line keeps the boards that have lines.
LEMMA SayDomain ==
    ASSUME TypesInv, NEW b, NEW t, NEW v, Say(b, t, v)
    PROVE  DOMAIN out' = Board
BY DEF Say, TypesInv

\* What a transaction comes to: only a board that serves it counts it, and none
\* fails on a board that serves with nothing latched.
LEMMA ExchangeFares ==
    ASSUME TypesInv, NEW b \in Board, Exchange(b)
    PROVE  \E ok \in BOOLEAN, n \in {0, 1} : \E l \in SUBSET {"stop", "held"} :
             /\ Fares(b, ok, n, l)
             /\ n = 1 => mode[Peer(b)] = Server[mode[b]]
             /\ mode[b] = "testing" \/ l = latched[Peer(b)]
             /\ mode[Peer(b)] = Server[mode[b]] /\ (mode[b] = "testing" => latched[Peer(b)] = {})
                  => ok /\ n = 1 /\ l = latched[Peer(b)]
<1> DEFINE p == Peer(b)
           l == latched[p]
           served == mode[p] = Server[mode[b]]
           held == mode[b] = "testing" /\ "held" \in l
           unpolled == mode[b] = "testing" /\ b0[p] = "slave" /\ ~served
           L == SUBSET {"stop", "held"}
<1>1. /\ l \in L /\ l \ {"held"} \in L /\ l \cup {"stop"} \in L /\ l \cup {"held"} \in L
      /\ held => mode[b] = "testing" /\ l # {}
      /\ unpolled => mode[b] = "testing" /\ ~served
  BY PeerFacts DEF TypesInv
<1>2. \/ served /\ Fares(b, TRUE, 1, IF held THEN l \ {"held"} ELSE l)
      \/ served /\ held /\ \E n \in {0, 1} : Fares(b, FALSE, n, l)
      \/ unpolled /\ ~held /\ Fares(b, TRUE, 0, l \cup {"stop"})
      \/ unpolled /\ Fares(b, FALSE, 0, l \cup {"held"})
      \/ ~served /\ ~unpolled /\ Fares(b, FALSE, 0, l)
  BY DEF Exchange
<1> DEFINE Fits1(ok, n, q) ==
             /\ n = 1 => served
             /\ mode[b] = "testing" \/ q = l
             /\ served /\ (mode[b] = "testing" => l = {}) => ok /\ n = 1 /\ q = l
           Goal == \E ok \in BOOLEAN, n \in {0, 1} : \E q \in L : Fares(b, ok, n, q) /\ Fits1(ok, n, q)
<1>3. SUFFICES Goal
  BY Zenon
<1> HIDE DEF L, l, served, held, unpolled
<1>4. ASSUME NEW ok \in BOOLEAN, NEW n \in {0, 1}, NEW q \in L, Fares(b, ok, n, q), Fits1(ok, n, q)
      PROVE  Goal
  BY <1>4, Zenon
<1> HIDE DEF Goal
<1>5. CASE served /\ Fares(b, TRUE, 1, IF held THEN l \ {"held"} ELSE l)
  <2>1. CASE held
    BY <1>1, <1>4, <1>5, <2>1
  <2>2. CASE ~held
    BY <1>1, <1>4, <1>5, <2>2
  <2> QED
    BY <2>1, <2>2
<1>6. CASE unpolled /\ Fares(b, TRUE, 0, l \cup {"stop"})
  <2>1. Fits1(TRUE, 0, l \cup {"stop"}) /\ TRUE \in BOOLEAN /\ 0 \in {0, 1} /\ l \cup {"stop"} \in L
    BY <1>1, <1>6
  <2> QED
    BY <1>4, <1>6, <2>1, Zenon
<1>7. CASE unpolled /\ Fares(b, FALSE, 0, l \cup {"held"})
  <2>1. Fits1(FALSE, 0, l \cup {"held"}) /\ FALSE \in BOOLEAN /\ 0 \in {0, 1} /\ l \cup {"held"} \in L
    BY <1>1, <1>7
  <2> QED
    BY <1>4, <1>7, <2>1, Zenon
<1>8. CASE ~served /\ Fares(b, FALSE, 0, l)
  <2>1. Fits1(FALSE, 0, l) /\ FALSE \in BOOLEAN /\ 0 \in {0, 1} /\ l \in L
    BY <1>1, <1>8
  <2> QED
    BY <1>4, <1>8, <2>1, Zenon
<1>9. CASE served /\ held /\ \E n \in {0, 1} : Fares(b, FALSE, n, l)
  <2>1. PICK n \in {0, 1} : Fares(b, FALSE, n, l)
    BY <1>9
  <2> QED
    BY <1>1, <1>4, <1>9, <2>1
<1> QED
  BY <1>2, <1>5, <1>6, <1>7, <1>8, <1>9

\* Each action of the firmware keeps them, since b0 is never gone when m comes.
LEMMA ExecutesTypes ==
    ASSUME Burst \in Nat \ {0}, TypesInv, BoardInv, NEW b \in Board, Executes(b)
    PROVE  TypesInv'
<1> USE DEF Take, Becomes
<1>1. CASE Boot(b)
  BY <1>1 DEF Boot, TypesInv, Polling, line, host
<1>2. CASE Discard(b)
  BY <1>2 DEF Discard, TypesInv, loop, line, host
<1>3. CASE Reply(b)
  BY <1>3, SayDomain DEF Reply, TypesInv, loop, line, host
<1>4. CASE ServeI2c(b)
  <2>1. DOMAIN out' = Board
    BY <1>4, SayDomain DEF ServeI2c
  <2> QED
    <3>1. CASE b0[b] \in {"free", "slave"}
      <4>1. /\ b0' = [b0 EXCEPT ![b] = "slave"] /\ mode' = [mode EXCEPT ![b] = "slave"]
            /\ tally' = [tally EXCEPT ![b] = IF "stop" \in latched[b] THEN 1 ELSE 0]
            /\ latched' = [latched EXCEPT ![b] = @ \ {"stop"}]
            /\ tainted' = [tainted EXCEPT ![b] = latched[b] # {}]
            /\ rx' = [rx EXCEPT ![b] = "none"] /\ poked' = [poked EXCEPT ![b] = TRUE]
            /\ UNCHANGED <<left, good, edges, wire, open, host>>
        BY <1>4, <3>1 DEF ServeI2c
      <4>2. tally' \in [Board -> 0 .. Burst + 1]
        <5>1. 0 \in 0 .. Burst + 1 /\ 1 \in 0 .. Burst + 1
          OBVIOUS
        <5> QED
          BY <4>1, <5>1 DEF TypesInv
      <4>3. latched' \in [Board -> SUBSET {"stop", "held"}] /\ tainted' \in [Board -> BOOLEAN]
        BY <4>1 DEF TypesInv
      <4> QED
        BY <2>1, <4>1, <4>2, <4>3 DEF TypesInv, SubMode, Polling, host
    <3>2. CASE b0[b] \notin {"free", "slave"}
      BY <1>4, <2>1, <3>2 DEF ServeI2c, TypesInv, host
    <3> QED
      BY <3>1, <3>2
<1>5. CASE TestI2c(b)
  <2>1. b0[b] # "gone"
    BY DEF BoardInv, BoardOK
  <2> QED
    <3>1. /\ b0' = [b0 EXCEPT ![b] = "master"] /\ Burn(b, "testing", Burst) /\ Take(b, "m")
          /\ latched' = [latched EXCEPT ![b] = {}] /\ UNCHANGED tainted
      BY <1>5, <2>1 DEF TestI2c
    <3> QED
      BY <3>1 DEF Burn, TypesInv, Busy, host
<1>6. CASE ServeEcho(b)
  <2>1. DOMAIN out' = Board
    BY <1>6, SayDomain DEF ServeEcho
  <2> QED
    BY <1>6, <2>1 DEF ServeEcho, TypesInv, SubMode, Polling, host
<1>7. CASE Initiate(b)
  BY <1>7 DEF Initiate, Burn, TypesInv, Busy, host
<1>8. CASE Count(b)
  <2>1. DOMAIN out' = Board
    BY <1>8, SayDomain DEF Count
  <2> QED
    BY <1>8, <2>1 DEF Count, TypesInv, SubMode, Polling, host
<1>9. CASE Pulse(b)
  <2>1. PICK n \in {1, Burst}, c \in {"p", "1"} :
            Take(b, c) /\ Burn(b, "pulsing", n) /\ UNCHANGED block
    BY <1>9 DEF Pulse
  <2> QED
    BY <2>1 DEF Burn, TypesInv, Busy, host
<1>10. CASE Capture(b)
  BY <1>10 DEF Capture, Burn, TypesInv, Busy, host
<1>11. CASE Leave(b)
  <2>1. DOMAIN out' = Board
    BY <1>11, SayDomain DEF Leave
  <2> QED
    BY <1>11, <2>1 DEF Leave, TypesInv, Polling, host
<1>12. CASE Exchange(b)
  <2>1. Peer(b) \in Board /\ Peer(Peer(b)) = b /\ Peer(b) # b
    BY PeerFacts
  <2>2. mode[Peer(b)] = Server[mode[b]] => tally[Peer(b)] + left[b] <= Burst + 1
    BY <1>12, <2>1 DEF BoardInv, ServedOK, Exchange
  <2>3. left[b] \in 0 .. Burst /\ left[b] > 0 /\ tally[Peer(b)] \in 0 .. Burst + 1
    BY <1>12, <2>1 DEF TypesInv, Exchange
  <2>4. PICK ok \in BOOLEAN, n \in {0, 1} : \E l \in SUBSET {"stop", "held"} :
            Fares(b, ok, n, l) /\ (n = 1 => mode[Peer(b)] = Server[mode[b]])
    BY <1>12, <2>1, ExchangeFares
  <2>5. PICK l \in SUBSET {"stop", "held"} : Fares(b, ok, n, l)
    BY <2>4
  <2>6. tally' \in [Board -> 0 .. Burst + 1]
    <3>1. tally[Peer(b)] + n \in 0 .. Burst + 1
      BY <2>2, <2>3, <2>4
    <3>2. tally' = [tally EXCEPT ![Peer(b)] = tally[Peer(b)] + n]
      BY <2>5 DEF Fares
    <3> QED
      BY <3>1, <3>2 DEF TypesInv
  <2>7. left' \in [Board -> 0 .. Burst]
    <3>1. left[b] - 1 \in 0 .. Burst
      BY <2>3
    <3> QED
      BY <1>12, <3>1 DEF Exchange, TypesInv
  <2>8. good' \in [Board -> BOOLEAN] /\ latched' \in [Board -> SUBSET {"stop", "held"}]
    BY <2>5 DEF Fares, TypesInv
  <2> QED
    BY <1>12, <2>6, <2>7, <2>8 DEF Exchange, TypesInv, line, host
<1>13. CASE Edge(b)
  <2>1. left' \in [Board -> 0 .. Burst]
    <3>1. left[b] \in 0 .. Burst /\ left[b] > 0
      BY <1>13 DEF Edge, TypesInv
    <3>2. left[b] - 1 \in 0 .. Burst
      BY <3>1
    <3> QED
      BY <1>13, <3>2 DEF Edge, TypesInv
  <2>2. edges' \in [Board -> 0 .. Burst + 1]
    <3>1. edges' = edges \/ (edges[Peer(b)] <= Burst
                               /\ edges' = [edges EXCEPT ![Peer(b)] = @ + 1])
      BY <1>13 DEF Edge
    <3> QED
      <4>1. Peer(b) \in Board
        BY PeerFacts
      <4>2. edges[Peer(b)] \in 0 .. Burst + 1
        BY <4>1 DEF TypesInv
      <4>3. edges[Peer(b)] <= Burst => edges[Peer(b)] + 1 \in 0 .. Burst + 1
        BY <4>2
      <4>4. edges \in [Board -> 0 .. Burst + 1]
        BY DEF TypesInv
      <4> QED
        BY <3>1, <4>1, <4>3, <4>4
  <2>3. mode' \in [Board -> Polling \cup Busy \cup Asleep \cup {"boot", "woken"}]
    BY <1>13 DEF Edge, TypesInv
  <2> QED
    BY <1>13, <2>1, <2>2, <2>3 DEF Edge, TypesInv, line, host
<1>14. CASE Finish(b)
  <2>1. DOMAIN out' = Board
    BY <1>14, SayDomain DEF Finish
  <2> QED
    BY <1>14, <2>1 DEF Finish, TypesInv, Polling, host
<1>15. CASE Doze(b)
  <2>1. DOMAIN out' = Board
    BY <1>15, SayDomain DEF Doze
  <2> QED
    BY <1>15, <2>1 DEF Doze, TypesInv, Asleep, host
<1>16. CASE FallAsleep(b)
  <2>1. PICK m \in Asleep : mode' = [mode EXCEPT ![b] = m]
    BY <1>16 DEF FallAsleep, Becomes, Asleep
  <2>2. mode' \in [Board -> Polling \cup Busy \cup Asleep \cup {"boot", "woken"}]
    BY <2>1 DEF TypesInv
  <2> QED
    BY <1>16, <2>2 DEF FallAsleep, TypesInv, line, host
<1>17. CASE Wake(b)
  <2>1. DOMAIN out' = Board
    BY <1>17, SayDomain DEF Wake
  <2> QED
    BY <1>17, <2>1 DEF Wake, TypesInv, Polling, host
<1> QED
  BY <1>1, <1>2, <1>3, <1>4, <1>5, <1>6, <1>7, <1>8, <1>9, <1>10, <1>11, <1>12, <1>13, <1>14,
     <1>15, <1>16, <1>17 DEF Executes

\* A step of a board keeps the types.
LEMMA MovesTypes ==
    ASSUME Burst \in Nat \ {0}, TypesInv, BoardInv, NEW b \in Board, Moves(b)
    PROVE  TypesInv'
<1>1. CASE Announce(b)
  BY <1>1, SayDomain DEF Announce, TypesInv, board, host
<1> QED
  BY <1>1, ArriveTypes, ExecutesTypes DEF Moves
-----------------------------------------------------------------------------
\* What a step of a board leaves alone.
Apart(b) ==
    LET p == Peer(b) IN
      /\ rx'[p] = rx[p] /\ wire'[p] = wire[p] /\ out'[p] = out[p] /\ b0'[p] = b0[p]
      /\ left'[p] = left[p] /\ (poked'[p] <=> poked[p]) /\ (good'[p] <=> good[p])
      /\ (tainted'[p] <=> tainted[p]) /\ (latched'[p] = latched[p] \/ Exchange(b))
      /\ mode'[p] = mode[p] \/ (mode[b] = "pulsing" /\ mode[p] = "asleep" /\ mode'[p] = "woken")
      /\ tally'[p] = tally[p] \/ (mode[b] \in DOMAIN Server /\ mode[p] = Server[mode[b]])
      /\ edges'[p] = edges[p] \/ mode[b] = "pulsing"
      /\ UNCHANGED <<open, host>>

\* A line of one board is not one of the other's.
LEMMA SayApart ==
    ASSUME TypesInv, NEW b \in Board, NEW t, NEW v, Say(b, t, v)
    PROVE  out'[Peer(b)] = out[Peer(b)]
BY PeerFacts DEF Say, TypesInv

\* A step of a board touches of the other what Apart leaves open.
LEMMA MovesApart ==
    ASSUME TypesInv, NEW b \in Board, Moves(b)
    PROVE  Apart(b)
<1>0. Exchange(b) => \E ok \in BOOLEAN, n \in {0, 1}, l \in SUBSET {"stop", "held"} :
                        Fares(b, ok, n, l) /\ (n = 1 => mode[Peer(b)] = Server[mode[b]])
  BY ExchangeFares, Zenon
<1> USE PeerFacts DEF Take, Becomes, loop, line, board, TypesInv
<1>1. CASE Arrive(b)
  BY <1>1 DEF Arrive, Apart
<1>2. CASE Announce(b)
  BY <1>2, SayApart DEF Announce, Apart
<1>3. CASE Boot(b) \/ Discard(b) \/ FallAsleep(b)
  BY <1>3 DEF Boot, Discard, FallAsleep, Apart
<1>4. CASE Initiate(b) \/ Capture(b)
  BY <1>4 DEF Initiate, Capture, Burn, Apart
<1>5. CASE Pulse(b)
  BY <1>5 DEF Pulse, Burn, Apart
<1>6. CASE TestI2c(b)
  BY <1>6 DEF TestI2c, Burn, Apart
<1>7. CASE Reply(b)
  BY <1>7, SayApart DEF Reply, Apart
<1>8. CASE ServeI2c(b)
  <2>1. out'[Peer(b)] = out[Peer(b)]
    BY <1>8, SayApart DEF ServeI2c
  <2> QED
    <3>1. /\ b0' = [b0 EXCEPT ![b] = b0'[b]] /\ mode' = [mode EXCEPT ![b] = mode'[b]]
          /\ tally' = [tally EXCEPT ![b] = tally'[b]]
          /\ latched' = [latched EXCEPT ![b] = latched'[b]]
          /\ tainted' = [tainted EXCEPT ![b] = tainted'[b]]
      BY <1>8 DEF ServeI2c
    <3> QED
      BY <1>8, <2>1, <3>1 DEF ServeI2c, Apart
<1>9. CASE ServeEcho(b)
  <2>1. out'[Peer(b)] = out[Peer(b)]
    BY <1>9, SayApart DEF ServeEcho
  <2> QED
    BY <1>9, <2>1 DEF ServeEcho, Apart
<1>10. CASE Count(b)
  <2>1. out'[Peer(b)] = out[Peer(b)]
    BY <1>10, SayApart DEF Count
  <2> QED
    BY <1>10, <2>1 DEF Count, Apart
<1>11. CASE Leave(b)
  <2>1. out'[Peer(b)] = out[Peer(b)]
    BY <1>11, SayApart DEF Leave
  <2> QED
    BY <1>11, <2>1 DEF Leave, Apart
<1>12. CASE Exchange(b)
  <2>2. PICK ok \in BOOLEAN, n \in {0, 1}, l \in SUBSET {"stop", "held"} :
            Fares(b, ok, n, l) /\ (n = 1 => mode[Peer(b)] = Server[mode[b]])
    BY <1>0, <1>12, Zenon
  <2>3. good'[Peer(b)] = good[Peer(b)] /\ tally'[Peer(b)] = tally[Peer(b)] + n
    BY <2>2 DEF Fares
  <2>4. n = 0 => tally'[Peer(b)] = tally[Peer(b)]
    BY <2>3
  <2> QED
    BY <1>12, <2>2, <2>3, <2>4 DEF Exchange, Apart
<1>13. CASE Edge(b)
  BY <1>13 DEF Edge, Apart
<1>14. CASE Finish(b)
  <2>1. out'[Peer(b)] = out[Peer(b)]
    BY <1>14, SayApart DEF Finish
  <2> QED
    BY <1>14, <2>1 DEF Finish, Apart
<1>15. CASE Doze(b)
  <2>1. out'[Peer(b)] = out[Peer(b)]
    BY <1>15, SayApart DEF Doze
  <2> QED
    BY <1>15, <2>1 DEF Doze, Apart
<1>16. CASE Wake(b)
  <2>1. out'[Peer(b)] = out[Peer(b)]
    BY <1>16, SayApart DEF Wake
  <2> QED
    BY <1>16, <2>1 DEF Wake, Apart
<1> QED
  BY <1>1, <1>2, <1>3, <1>4, <1>5, <1>6, <1>7, <1>8, <1>9, <1>10, <1>11, <1>12, <1>13, <1>14,
     <1>15, <1>16 DEF Moves, Executes
-----------------------------------------------------------------------------
\* What is in RXBUF of a board that polls is none of the other commands.
LEMMA CommandTaken ==
    ASSUME TypesInv, BoardInv, NEW b \in Board, NEW c, Take(b, c), c \notin {"q", "none", "overrun"},
           b0'[b] \in (IF b = "parent" THEN {"free", "master"} ELSE {"free", "slave"}),
           mode'[b] # "boot", c = "i" => mode'[b] = "idle"
    PROVE  BoardOK(b)'
<1>1. rx'[b] = "none" /\ poked'[b] /\ wire'[b] = wire[b] /\ rx[b] = c
  BY DEF Take, TypesInv
<1>2. mode'[b] \in Away => wire[b] = <<>>
  BY <1>1 DEF BoardInv, BoardOK, Away, Busy, Asleep
<1>3. BoardOK(b)
  BY DEF BoardInv
<1>4. mode'[b] \in Away => wire'[b] \in {<<>>, <<"q">>, <<"i">>} /\ wire'[b] # <<"i">>
  <2>1. <<>> # <<"i">>
    OBVIOUS
  <2>2. mode'[b] \in Away => wire'[b] = <<>>
    BY <1>1, <1>2
  <2> QED
    BY <2>1, <2>2
<1>5. wire'[b] = <<>> \/ \E d \in Commands(b) : wire'[b] = <<d>>
  BY <1>1, <1>3 DEF BoardOK
<1>6. "none" \in Commands(b) \cup {"none", "overrun"}
  OBVIOUS
<1> QED
  BY <1>1, <1>4, <1>5, <1>6 DEF BoardOK

\* A step of a board keeps what is said of it,
LEMMA OwnBoardOK ==
    ASSUME TypesInv, BoardInv, NEW b \in Board, Moves(b)
    PROVE  BoardOK(b)'
<1>0. BoardOK(b) /\ rx[b] \in Commands(b) \cup {"none", "overrun"}
      /\ b0[b] \in (IF b = "parent" THEN {"free", "master"} ELSE {"free", "slave"})
  BY DEF BoardInv, BoardOK
<1>1. CASE Arrive(b)
  <2>1. PICK c \in Commands(b) : wire[b] = <<c>>
    BY <1>1 DEF Arrive, BoardInv, BoardOK
  <2>2. Head(wire[b]) = c /\ Tail(wire[b]) = <<>> /\ wire[b] # <<>>
    BY <2>1
  <2>3. c \in Listed \cup {"m", "s"}
    BY DEF Commands
  <2>4. wire'[b] = <<>> /\ (rx'[b] = CASE mode[b] = "boot" -> "none"
                                    [] mode[b] # "boot" /\ rx[b] = "none" -> c
                                    [] OTHER -> "overrun")
    BY <1>1, <2>2 DEF Arrive, TypesInv
  <2>5. rx'[b] \in {"none", "overrun", c} /\ (mode[b] = "boot" => rx'[b] = "none")
        /\ (rx'[b] = c => rx[b] = "none")
    BY <2>4, <2>3 DEF Listed
  <2>6. mode'[b] = mode[b] /\ (poked'[b] <=> poked[b]) /\ b0'[b] = b0[b]
    BY <1>1 DEF Arrive, loop
  <2>7. mode[b] \in Away => rx'[b] \in {"none", "q", "overrun"}
    <3>1. <<c>> # <<>> /\ (<<c>> = <<"q">> => c = "q") /\ (<<c>> = <<"i">> => c = "i")
      OBVIOUS
    <3>2. mode[b] \in Away => c = "q" \/ (c = "i" /\ rx[b] # "none")
      BY <1>0, <2>1, <3>1 DEF BoardOK
    <3> QED
      BY <2>5, <3>2
  <2>8. <<>> # <<"i">>
    OBVIOUS
  <2> QED
    BY <1>0, <2>4, <2>5, <2>6, <2>7, <2>8 DEF BoardOK, Commands
<1>2. CASE Announce(b)
  BY <1>0, <1>2 DEF Announce, board, BoardOK, Pending, Commands
<1>3. CASE Boot(b)
  BY <1>0, <1>3 DEF Boot, Becomes, line, BoardOK, TypesInv, Away, Busy, Asleep, Commands
<1>4. CASE Discard(b)
  <2>1. mode[b] \notin Away /\ mode[b] # "boot"
    BY <1>4 DEF Discard, Polling, SubMode, Away, Busy, Asleep
  <2>2. rx'[b] = "none" /\ wire'[b] = wire[b] /\ mode'[b] = mode[b] /\ b0'[b] = b0[b]
        /\ (poked[b] => poked'[b])
    BY <1>4 DEF Discard, TypesInv, line, loop
  <2> QED
    BY <1>0, <2>1, <2>2 DEF BoardOK, Commands
<1>5. CASE Reply(b)
  <2>1. rx[b] \notin {"q", "none", "overrun"} /\ mode'[b] = "idle" /\ b0'[b] = b0[b]
    BY <1>5 DEF Reply, Answer, Take, loop
  <2> QED
    BY <1>0, <1>5, <2>1, CommandTaken DEF Reply
<1>6. CASE ServeI2c(b)
  <2>1. Take(b, "s") /\ b # "parent"
    BY <1>0, <1>6 DEF ServeI2c, Take, Commands, Listed
  <2>2. b0'[b] = "slave" /\ mode'[b] = "slave"
    BY <1>0, <1>6, <2>1 DEF ServeI2c, Becomes, TypesInv
  <2> QED
    BY <2>1, <2>2, CommandTaken
<1>7. CASE TestI2c(b)
  <2>1. Take(b, "m") /\ b = "parent"
    BY <1>0, <1>7 DEF TestI2c, Take, Commands, Listed, Board
  <2>2. b0'[b] = "master" /\ mode'[b] = "testing"
    BY <1>0, <1>7, <2>1 DEF TestI2c, Burn, Becomes, TypesInv
  <2> QED
    BY <2>1, <2>2, CommandTaken
<1>8. CASE ServeEcho(b)
  BY <1>0, <1>8, CommandTaken DEF ServeEcho, Becomes, TypesInv
<1>9. CASE Initiate(b)
  BY <1>0, <1>9, CommandTaken DEF Initiate, Burn, Becomes, TypesInv
<1>10. CASE Count(b)
  BY <1>0, <1>10, CommandTaken DEF Count, Becomes, TypesInv
<1>11. CASE Pulse(b)
  <2>1. mode'[b] = "pulsing" /\ b0'[b] = b0[b] /\ (Take(b, "p") \/ Take(b, "1"))
    BY <1>11 DEF Pulse, Burn, Becomes, TypesInv
  <2> QED
    BY <1>0, <2>1, CommandTaken
<1>12. CASE Capture(b)
  BY <1>0, <1>12, CommandTaken DEF Capture, Burn, Becomes, TypesInv
<1>13. CASE Doze(b)
  BY <1>0, <1>13, CommandTaken DEF Doze, Becomes, TypesInv
<1>14. CASE Leave(b)
  <2>1. rx'[b] = "none" /\ wire'[b] = wire[b] /\ mode'[b] = "idle" /\ b0'[b] = b0[b]
        /\ (poked[b] <=> poked'[b])
    BY <1>14 DEF Leave, Becomes, TypesInv
  <2> QED
    BY <1>0, <2>1 DEF BoardOK, Commands, Away, Busy, Asleep
<1>15. CASE Exchange(b)
  BY <1>0, <1>15 DEF Exchange, line, BoardOK, Commands
<1>16. CASE Edge(b)
  <2>1. mode'[b] = mode[b]
    BY <1>16, PeerFacts DEF Edge, TypesInv
  <2> QED
    BY <1>0, <1>16, <2>1 DEF Edge, line, BoardOK, Commands
<1>17. CASE Finish(b) \/ Wake(b)
  <2>1. rx'[b] = rx[b] /\ wire'[b] = wire[b] /\ mode'[b] = "idle" /\ b0'[b] = b0[b]
        /\ (poked[b] <=> poked'[b])
    BY <1>17 DEF Finish, Wake, Becomes, TypesInv
  <2>2. mode[b] \in Away
    BY <1>17 DEF Finish, Wake, Away
  <2> QED
    BY <1>0, <2>1, <2>2 DEF BoardOK, Commands, Away, Busy, Asleep
<1>18. CASE FallAsleep(b)
  <2>1. rx'[b] = rx[b] /\ wire'[b] = wire[b] /\ mode'[b] \in Asleep /\ b0'[b] = b0[b]
        /\ (poked[b] <=> poked'[b])
    BY <1>18 DEF FallAsleep, Becomes, line, TypesInv, Asleep
  <2>2. mode[b] \in Away /\ mode[b] \notin {"boot", "idle"} /\ mode'[b] \notin {"boot", "idle"}
    BY <1>18, <2>1 DEF FallAsleep, Away, Asleep
  <2> QED
    BY <1>0, <2>1, <2>2 DEF BoardOK, Commands, Away
<1> QED
  BY <1>1, <1>2, <1>3, <1>4, <1>5, <1>6, <1>7, <1>8, <1>9, <1>10, <1>11, <1>12, <1>13, <1>14,
     <1>15, <1>16, <1>17, <1>18 DEF Moves, Executes

\* and of the other one.
LEMMA PeerBoardOK ==
    ASSUME TypesInv, BoardInv, NEW b \in Board, Moves(b)
    PROVE  BoardOK(Peer(b))'
<1>1. Peer(b) \in Board /\ BoardOK(Peer(b))
  BY PeerFacts DEF BoardInv
<1>2. Apart(b)
  BY MovesApart
<1>3. \/ mode'[Peer(b)] = mode[Peer(b)]
      \/ mode[Peer(b)] \in Away /\ mode[Peer(b)] \notin {"boot", "idle"} /\ mode'[Peer(b)] = "woken"
  BY <1>2 DEF Apart, Away, Asleep
<1> QED
  BY <1>1, <1>2, <1>3 DEF BoardOK, Apart, Commands

\* A board begins to serve with a tally of one at most,
LEMMA BecomesServer ==
    ASSUME TypesInv, BoardInv, NEW b \in Board, Moves(b), mode'[b] \in {"slave", "echo"}
    PROVE  (mode'[b] = mode[b] /\ tally'[b] = tally[b]) \/ tally'[b] \in {0, 1}
<1> USE DEF Becomes, Take, TypesInv
<1>1. CASE Arrive(b) \/ Announce(b) \/ Boot(b) \/ Discard(b) \/ FallAsleep(b)
  BY <1>1 DEF Arrive, Announce, Boot, Discard, FallAsleep, loop, board
<1>2. CASE Reply(b) \/ Initiate(b) \/ Count(b) \/ Capture(b) \/ Doze(b)
  BY <1>2 DEF Reply, Initiate, Count, Capture, Doze, Burn, loop
<1>3. CASE TestI2c(b)
  BY <1>3 DEF TestI2c, Burn
<1>4. CASE Pulse(b)
  BY <1>4 DEF Pulse, Burn
<1>5. CASE ServeEcho(b)
  BY <1>5 DEF ServeEcho
<1>6. CASE ServeI2c(b)
  BY <1>6 DEF ServeI2c
<1>7. CASE Leave(b) \/ Finish(b) \/ Wake(b)
  BY <1>7 DEF Leave, Finish, Wake
<1>8. CASE Exchange(b)
  BY <1>8 DEF Exchange, Server
<1>9. CASE Edge(b)
  BY <1>9, PeerFacts DEF Edge
<1> QED
  BY <1>1, <1>2, <1>3, <1>4, <1>5, <1>6, <1>7, <1>8, <1>9 DEF Moves, Executes

\* One transaction, which the other board may have served.
Served1(b) ==
    /\ mode'[b] = mode[b] /\ left[b] > 0 /\ left'[b] = left[b] - 1
    /\ \/ tally'[Peer(b)] = tally[Peer(b)]
       \/ mode[Peer(b)] = Server[mode[b]] /\ tally'[Peer(b)] = tally[Peer(b)] + 1

\* and to drive with no more to do than a burst.
LEMMA BecomesDriver ==
    ASSUME TypesInv, BoardInv, NEW b \in Board, Moves(b), mode'[b] \in DOMAIN Server
    PROVE  \/ /\ mode'[b] = mode[b] /\ left'[b] = left[b] /\ tally'[Peer(b)] = tally[Peer(b)]
              /\ Arrive(b)
           \/ Served1(b)
           \/ /\ mode[b] = "idle" /\ rx[b] = Drive[Server[mode'[b]]]
              /\ left'[b] = Burst /\ tally'[Peer(b)] = tally[Peer(b)]
<1>0. ASSUME Exchange(b)  PROVE Served1(b)
  <2>1. PICK ok \in BOOLEAN, n \in {0, 1}, l \in SUBSET {"stop", "held"} :
            Fares(b, ok, n, l) /\ (n = 1 => mode[Peer(b)] = Server[mode[b]])
    BY <1>0, ExchangeFares, Zenon
  <2>2. tally'[Peer(b)] = tally[Peer(b)] + n /\ tally[Peer(b)] \in Nat
    BY <2>1, PeerFacts DEF Fares, TypesInv
  <2> QED
    BY <1>0, <2>1, <2>2 DEF Served1, Exchange, TypesInv
<1> USE DEF Becomes, Take, TypesInv, Server
<1>1. CASE Arrive(b)
  BY <1>1 DEF Arrive, loop
<1>2. CASE Announce(b) \/ Boot(b) \/ Discard(b) \/ FallAsleep(b)
  BY <1>2 DEF Announce, Boot, Discard, FallAsleep, loop, board, Polling, SubMode
<1>3. CASE Reply(b) \/ Count(b) \/ Capture(b) \/ Doze(b) \/ ServeEcho(b)
  BY <1>3 DEF Reply, Count, Capture, Doze, ServeEcho, Burn, loop
<1>4. CASE TestI2c(b)
  <2>1. b0[b] # "gone"
    BY DEF BoardInv, BoardOK
  <2> QED
    BY <1>4, <2>1, PeerFacts DEF TestI2c, Burn, Drive
<1>5. CASE Initiate(b)
  BY <1>5, PeerFacts DEF Initiate, Burn, Drive
<1>6. CASE Pulse(b)
  BY <1>6 DEF Pulse, Burn
<1>7. CASE ServeI2c(b)
  BY <1>7 DEF ServeI2c
<1>8. CASE Leave(b) \/ Finish(b) \/ Wake(b)
  BY <1>8 DEF Leave, Finish, Wake
<1>9. CASE Exchange(b)
  BY <1>0, <1>9
<1>10. CASE Edge(b)
  BY <1>10, PeerFacts DEF Edge
<1> QED
  BY <1>1, <1>2, <1>3, <1>4, <1>5, <1>6, <1>7, <1>8, <1>9, <1>10 DEF Moves, Executes

\* A command that is pending was so before.
LEMMA StillPending ==
    ASSUME TypesInv, BoardInv, NEW b \in Board, Moves(b), NEW c \in {"m", "t"}, Pending(b, c)'
    PROVE  Pending(b, c)
<1> USE DEF TypesInv, Pending
<1>1. CASE Arrive(b)
  <2>1. PICK d \in Commands(b) : wire[b] = <<d>>
    BY <1>1 DEF Arrive, BoardInv, BoardOK
  <2>2. Head(wire[b]) = d /\ Tail(wire[b]) = <<>>
    BY <2>1
  <2>3. wire'[b] = <<>> /\ rx'[b] \in {"none", "overrun", d}
    BY <1>1, <2>2 DEF Arrive
  <2>4. <<>> # <<c>>
    OBVIOUS
  <2> QED
    BY <2>1, <2>3, <2>4
<1>2. CASE Executes(b)
  <2>1. wire' = wire /\ (rx' = rx \/ rx' = [rx EXCEPT ![b] = "none"])
    BY <1>2 DEF Executes, Boot, Discard, Reply, ServeI2c, TestI2c, ServeEcho, Initiate, Count,
                Pulse, Capture, Leave, Exchange, Edge, Finish, Doze, FallAsleep, Wake, Take, line
  <2> QED
    BY <2>1
<1>3. CASE Announce(b)
  BY <1>3 DEF Announce, board
<1> QED
  BY <1>1, <1>2, <1>3 DEF Moves

\* The bound on the tally, after a step of the board that drives,
LEMMA OwnServedOK ==
    ASSUME Burst \in Nat \ {0}, TypesInv, BoardInv, NEW b \in Board, Moves(b)
    PROVE  ServedOK(b)'
<1> DEFINE p == Peer(b)
<1>1. p \in Board /\ ServedOK(b) /\ BoardOK(b) /\ Apart(b)
      /\ tally[p] \in 0 .. Burst + 1 /\ left[b] \in 0 .. Burst
  BY PeerFacts, MovesApart DEF BoardInv, TypesInv
<1>2. SUFFICES ASSUME NEW m \in DOMAIN Server, mode'[p] = Server[m]
               PROVE  /\ mode'[b] = m => tally'[p] + left'[b] <= Burst + 1
                      /\ Pending(b, Drive[Server[m]])' => tally'[p] <= 1
  BY DEF ServedOK
<1>3. Server[m] \in {"slave", "echo"} /\ Drive[Server[m]] \in {"m", "t"} /\ m \in Busy
  BY DEF Server, Drive, Busy
<1>4. mode[p] = Server[m]
  BY <1>1, <1>2, <1>3 DEF Apart
<1>5. ASSUME mode'[b] = m  PROVE tally'[p] + left'[b] <= Burst + 1
  <2>1. CASE mode'[b] = mode[b] /\ left'[b] = left[b] /\ tally'[p] = tally[p]
    BY <2>1, <1>1, <1>4, <1>5 DEF ServedOK
  <2>2. CASE Served1(b)
    <3>1. tally[p] + left[b] <= Burst + 1
      BY <2>2, <1>1, <1>4, <1>5 DEF ServedOK, Served1
    <3>2. tally'[p] \in {tally[p], tally[p] + 1} /\ left'[b] = left[b] - 1
      BY <2>2, <1>4, <1>5 DEF Served1
    <3> QED
      BY <3>1, <3>2, <1>1
  <2>3. CASE mode[b] = "idle" /\ rx[b] = Drive[Server[mode'[b]]] /\ left'[b] = Burst
             /\ tally'[p] = tally[p]
    <3>1. tally[p] <= 1
      BY <2>3, <1>1, <1>4, <1>5 DEF ServedOK, Pending
    <3> QED
      BY <1>1, <2>3, <3>1
  <2> QED
    BY <2>1, <2>2, <2>3, <1>5, BecomesDriver
<1>6. ASSUME Pending(b, Drive[Server[m]])'  PROVE tally'[p] <= 1
  <2>1. Pending(b, Drive[Server[m]])
    BY <1>3, <1>6, StillPending
  <2>2. tally[p] <= 1
    BY <2>1, <1>1, <1>4 DEF ServedOK
  <2>3. mode[b] \notin Away
    <3>1. \A d \in {"m", "t"} : <<d>> \notin {<<>>, <<"q">>, <<"i">>}
      OBVIOUS
    <3> QED
      BY <2>1, <3>1, <1>1, <1>3 DEF BoardOK, Pending
  <2> QED
    BY <2>2, <2>3, <1>1 DEF Apart, Server, Away, Busy
<1> QED
  BY <1>5, <1>6

\* and after one of the board that serves.
LEMMA PeerServedOK ==
    ASSUME Burst \in Nat \ {0}, TypesInv, BoardInv, NEW b \in Board, Moves(b)
    PROVE  ServedOK(Peer(b))'
<1> DEFINE p == Peer(b)
<1>1. p \in Board /\ Peer(p) = b /\ ServedOK(p) /\ Apart(b)
      /\ tally[b] \in 0 .. Burst + 1 /\ left[p] \in 0 .. Burst
  BY PeerFacts, MovesApart DEF BoardInv, TypesInv
<1>2. SUFFICES ASSUME NEW m \in DOMAIN Server, mode'[b] = Server[m]
               PROVE  /\ mode'[p] = m => tally'[b] + left'[p] <= Burst + 1
                      /\ Pending(p, Drive[Server[m]])' => tally'[b] <= 1
  BY <1>1 DEF ServedOK
<1>3. mode'[b] \in {"slave", "echo"} /\ m \in {"testing", "initiating"}
  BY <1>2 DEF Server
<1>4. (mode'[b] = mode[b] /\ tally'[b] = tally[b]) \/ tally'[b] \in {0, 1}
  BY <1>3, BecomesServer
<1>5. left'[p] = left[p] /\ (mode'[p] = m => mode[p] = m)
      /\ (Pending(p, Drive[Server[m]])' => Pending(p, Drive[Server[m]]))
  BY <1>1, <1>3 DEF Apart, Pending
<1> QED
  BY <1>1, <1>2, <1>4, <1>5 DEF ServedOK

\* Nothing is latched at a board that serves.
LEMMA MovesClean ==
    ASSUME TypesInv, BoardInv, NEW b \in Board, Moves(b), NEW d \in Board
    PROVE  CleanOK(d)'
<1>1. CleanOK(d) /\ Apart(b)
  BY MovesApart DEF BoardInv
<1>2. CASE d = Peer(b)
  <2>1. (tainted'[d] <=> tainted[d]) /\ (mode'[d] = "slave" => mode[d] = "slave")
        /\ (latched'[d] = latched[d] \/ Exchange(b))
    BY <1>1, <1>2 DEF Apart
  <2>2. ASSUME Exchange(b), mode[d] = "slave", latched[d] = {}  PROVE latched'[d] = {}
    <3>1. PICK ok \in BOOLEAN, n \in {0, 1}, l \in SUBSET {"stop", "held"} :
              /\ Fares(b, ok, n, l)
              /\ n = 1 => mode[Peer(b)] = Server[mode[b]]
              /\ mode[b] = "testing" \/ l = latched[Peer(b)]
              /\ mode[Peer(b)] = Server[mode[b]] /\ (mode[b] = "testing" => latched[Peer(b)] = {})
                   => ok /\ n = 1 /\ l = latched[Peer(b)]
      BY <2>2, ExchangeFares, Zenon
    <3>2. mode[b] = "testing" => mode[Peer(b)] = Server[mode[b]]
      BY <1>2, <2>2 DEF Server
    <3>3. l = {}
      BY <1>2, <2>2, <3>1, <3>2
    <3> QED
      BY <1>2, <3>1, <3>3 DEF Fares, TypesInv
  <2> QED
    BY <1>1, <2>1, <2>2 DEF CleanOK
<1>3. CASE d = b
  <2>1. CASE ServeI2c(b)
    <3>1. CASE b0[b] \in {"free", "slave"}
      <4>1. tainted' = [tainted EXCEPT ![b] = latched[b] # {}]
            /\ latched' = [latched EXCEPT ![b] = @ \ {"stop"}]
        BY <2>1, <3>1 DEF ServeI2c
      <4>2. tainted'[b] <=> latched[b] # {}
        BY <4>1 DEF TypesInv
      <4>3. latched'[b] = latched[b] \ {"stop"}
        BY <4>1 DEF TypesInv
      <4> QED
        BY <1>3, <4>2, <4>3 DEF CleanOK
    <3>2. CASE b0[b] \notin {"free", "slave"}
      BY <1>1, <1>3, <2>1, <3>2 DEF ServeI2c, CleanOK, TypesInv
    <3> QED
      BY <3>1, <3>2
  <2>2. CASE TestI2c(b)
    <3>1. mode'[b] # "slave"
      BY <2>2 DEF TestI2c, Burn, Becomes, TypesInv
    <3> QED
      BY <1>3, <3>1 DEF CleanOK
  <2>3. CASE Exchange(b)
    BY <1>3, <2>3 DEF Exchange, Server, CleanOK
  <2>4. ASSUME ~ServeI2c(b), ~TestI2c(b), ~Exchange(b)
        PROVE  UNCHANGED block /\ (mode'[b] = "slave" => mode[b] = "slave")
    <3> USE DEF Becomes, TypesInv
    <3>1. CASE Arrive(b) \/ Announce(b) \/ Boot(b) \/ Discard(b) \/ FallAsleep(b)
      BY <3>1 DEF Arrive, Announce, Boot, Discard, FallAsleep, loop, board
    <3>2. CASE Reply(b) \/ ServeEcho(b) \/ Count(b) \/ Doze(b) \/ Leave(b) \/ Finish(b) \/ Wake(b)
      BY <3>2 DEF Reply, ServeEcho, Count, Doze, Leave, Finish, Wake, loop
    <3>3. CASE Initiate(b) \/ Capture(b)
      BY <3>3 DEF Initiate, Capture, Burn
    <3>4. CASE Pulse(b)
      BY <3>4 DEF Pulse, Burn
    <3>5. CASE Edge(b)
      BY <3>5, PeerFacts DEF Edge
    <3> QED
      BY <2>4, <3>1, <3>2, <3>3, <3>4, <3>5 DEF Moves, Executes
  <2>5. CASE ~ServeI2c(b) /\ ~TestI2c(b) /\ ~Exchange(b)
    BY <1>1, <1>3, <2>4, <2>5 DEF CleanOK
  <2> QED
    BY <2>1, <2>2, <2>3, <2>5
<1> QED
  BY <1>2, <1>3, PeerFacts

\* A step of a board keeps BoardInv.
LEMMA MovesBoards ==
    ASSUME Burst \in Nat \ {0}, TypesInv, BoardInv, NEW b \in Board, Moves(b)
    PROVE  BoardInv'
BY PeerFacts, OwnBoardOK, PeerBoardOK, OwnServedOK, PeerServedOK, MovesClean DEF BoardInv
-----------------------------------------------------------------------------
\* What the host leaves to do of a board.
Rests(b, m) == mode[b] = m /\ wire[b] = <<>> /\ rx[b] = "none"
Tidy(b) == out[b] \in {<<>>, <<<<"READY", b>>>>}
Ready(b, m) == Rests(b, m) /\ Tidy(b)

Told(b, m, c) ==
    /\ mode[b] = m /\ Tidy(b)
    /\ \/ wire[b] = <<c>> /\ rx[b] = "none"
       \/ wire[b] = <<>> /\ rx[b] = c

Said(b, m, tag, value) ==
    /\ Rests(b, m) /\ poked[b]
    /\ out[b] \in {<<<<tag, value>>>>, <<<<"READY", b>>, <<tag, value>>>>}

Counted(m, b) == IF m = "count" THEN edges[b] ELSE tally[b]

\* What is said of tallies and verdicts is said of slaves taken up with nothing
\* latched.
Fair(m, b) == m = "slave" => ~tainted[b]

\* Nothing of a board changes.
Kept(b) ==
    /\ mode'[b] = mode[b] /\ rx'[b] = rx[b] /\ wire'[b] = wire[b] /\ out'[b] = out[b]
    /\ left'[b] = left[b] /\ tally'[b] = tally[b] /\ edges'[b] = edges[b]
    /\ (poked'[b] <=> poked[b]) /\ (good'[b] <=> good[b]) /\ (tainted'[b] <=> tainted[b])

\* What was said of a board of which nothing changes holds still.
LEMMA KeptStates ==
    ASSUME NEW b, Kept(b)
    PROVE  /\ \A m : Ready(b, m) => Ready(b, m)'
           /\ \A m, c : Told(b, m, c) => Told(b, m, c)'
           /\ \A m, t, v : Said(b, m, t, v) => Said(b, m, t, v)'
           /\ \A m : Counted(m, b)' = Counted(m, b) /\ (Fair(m, b) => Fair(m, b)')
BY DEF Kept, Ready, Rests, Tidy, Told, Said, Counted, Fair

\* A board that is not in a burst leaves the other alone.
LEMMA PeerKept ==
    ASSUME TypesInv, NEW b \in Board, Moves(b),
           mode[b] \notin {"testing", "initiating", "pulsing"} \/ left[b] = 0
    PROVE  Kept(Peer(b))
<1>1. Apart(b)
  BY MovesApart
<1>2. CASE mode[b] \notin {"testing", "initiating", "pulsing"}
  BY <1>1, <1>2 DEF Apart, Kept, Server
<1>3. CASE mode[b] \in {"testing", "initiating", "pulsing"} /\ left[b] = 0
  <2>1. ~Exchange(b) /\ ~Edge(b)
    BY <1>3 DEF Exchange, Edge
  <2>2. Arrive(b) \/ Finish(b)
    BY <1>3, <2>1 DEF Moves, Executes, Announce, Boot, Discard, Reply, ServeI2c, TestI2c,
          ServeEcho, Initiate, Count, Pulse, Capture, Leave, Doze, FallAsleep, Wake, Take,
          Polling, SubMode
  <2>3. tally' = tally /\ edges' = edges /\ (mode' = mode \/ mode' = [mode EXCEPT ![b] = "idle"])
    BY <2>2 DEF Arrive, Finish, loop, Becomes
  <2> QED
    BY <1>1, <2>3, PeerFacts DEF Apart, Kept, TypesInv
<1> QED
  BY <1>2, <1>3, <1>1

\* A board at rest that was heard takes no step.
LEMMA StaysStill ==
    ASSUME NEW b \in Board, NEW m, Rests(b, m),
           m \in SubMode \cup {"asleep"} \/ (m = "idle" /\ poked[b])
    PROVE  ~Moves(b)
<1>1. mode[b] = m /\ wire[b] = <<>> /\ rx[b] = "none" /\ mode[b] \in SubMode \cup {"asleep", "idle"}
  BY DEF Rests
<1>2. ~Arrive(b) /\ ~Announce(b)
  BY <1>1 DEF Arrive, Announce, SubMode
<1>3. "none" \notin DOMAIN Answer
  BY DEF Answer
<1>4. ~Boot(b) /\ ~Discard(b) /\ ~Reply(b) /\ ~ServeI2c(b) /\ ~TestI2c(b) /\ ~ServeEcho(b)
      /\ ~Initiate(b) /\ ~Count(b) /\ ~Pulse(b) /\ ~Capture(b) /\ ~Leave(b) /\ ~Doze(b)
  BY <1>1, <1>3 DEF Boot, Discard, Reply, ServeI2c, TestI2c, ServeEcho, Initiate, Count, Pulse,
      Capture, Leave, Doze, Take, SubMode
<1>5. ~Exchange(b) /\ ~Edge(b) /\ ~Finish(b) /\ ~FallAsleep(b) /\ ~Wake(b)
  BY <1>1 DEF Exchange, Server, Edge, Finish, Busy, FallAsleep, Wake, SubMode
<1> QED
  BY <1>2, <1>4, <1>5 DEF Moves, Executes

\* Sequences of one and of two.
LEMMA OneLine ==
    ASSUME NEW x, NEW y
    PROVE  /\ Append(<<>>, x) = <<x>> /\ Append(<<x>>, y) = <<x, y>>
           /\ Head(<<x>>) = x /\ Tail(<<x>>) = <<>> /\ <<x>> # <<>>
           /\ Head(<<x, y>>) = x /\ Tail(<<x, y>>) = <<y>> /\ <<x, y>> # <<>>
           /\ Len(<<>>) = 0 /\ Len(<<x>>) = 1 /\ Len(<<x, y>>) = 2
<1>1. Append(<<>>, x) = <<x>> /\ Append(<<x>>, y) = <<x, y>>
  <2>1. Append(<<>>, x) = <<x>>
    OBVIOUS
  <2>2. /\ Append(<<x>>, y) \in Seq({x, y}) /\ <<x, y>> \in Seq({x, y})
        /\ Len(Append(<<x>>, y)) = 2 /\ Len(<<x, y>>) = 2
        /\ Append(<<x>>, y)[1] = x /\ Append(<<x>>, y)[2] = y
    <3>1. <<x>> \in Seq({x, y}) /\ Len(<<x>>) = 1 /\ <<x>>[1] = x
      OBVIOUS
    <3> QED
      BY <3>1, AppendProperties
  <2>3. \A i \in 1 .. 2 : i = 1 \/ i = 2
    OBVIOUS
  <2> QED
    <3> DEFINE l == Append(<<x>>, y)
               r == <<x, y>>
    <3>1. r[1] = x /\ r[2] = y
      OBVIOUS
    <3>2. l \in Seq({x, y}) /\ r \in Seq({x, y}) /\ Len(l) = Len(r)
      BY <2>2
    <3>3. \A i \in 1 .. Len(l) : l[i] = r[i]
      BY <2>2, <2>3, <3>1
    <3> HIDE DEF l, r
    <3>4. l = r
      BY <3>2, <3>3, SeqEqual
    <3> QED
      BY <2>1, <3>4 DEF l, r
<1>2. Head(<<x>>) = x /\ Head(<<x, y>>) = x /\ <<x>> # <<>> /\ <<x, y>> # <<>>
  OBVIOUS
<1>3. Tail(<<x>>) = <<>> /\ Tail(<<x, y>>) = <<y>>
  OBVIOUS
<1>4. Len(<<>>) = 0 /\ Len(<<x>>) = 1 /\ Len(<<x, y>>) = 2
  OBVIOUS
<1> QED
  BY <1>1, <1>2, <1>3, <1>4

\* A line after at most one announcement.
LEMMA SaysLine ==
    ASSUME TypesInv, NEW b \in Board, open[b], Tidy(b), NEW t, NEW v, Say(b, t, v)
    PROVE  out'[b] \in {<<<<t, v>>>>, <<<<"READY", b>>, <<t, v>>>>}
<1>1. out' = [out EXCEPT ![b] = Append(@, <<t, v>>)]
  BY DEF Say
<1>2. out'[b] = Append(out[b], <<t, v>>)
  BY <1>1 DEF TypesInv
<1>3. /\ Append(<<>>, <<t, v>>) = <<<<t, v>>>>
      /\ Append(<<<<"READY", b>>>>, <<t, v>>) = <<<<"READY", b>>, <<t, v>>>>
  BY OneLine
<1> QED
  BY <1>2, <1>3 DEF Tidy

\* All an idle board can do is announce itself.
LEMMA IdleMoves ==
    ASSUME TypesInv, NEW b \in Board, Ready(b, "idle"), Moves(b)
    PROVE  Ready(b, "idle")' /\ UNCHANGED board /\ (open[b] => out'[b] = <<<<"READY", b>>>>)
<1>1. mode[b] = "idle" /\ wire[b] = <<>> /\ rx[b] = "none"
  BY DEF Ready, Rests
<1>2. "none" \notin DOMAIN Answer
  BY DEF Answer
<1>3. Announce(b)
  <2>1. ~Arrive(b)
    BY <1>1 DEF Arrive
  <2>2. ~Executes(b)
    BY <1>1, <1>2 DEF Executes, Boot, Discard, Reply, ServeI2c, TestI2c, ServeEcho, Initiate, Count,
        Pulse, Capture, Leave, Doze, Take, SubMode, Exchange, Server, Edge, Finish, Busy,
        FallAsleep, Wake
  <2> QED
    BY <2>1, <2>2 DEF Moves
<1>4. open[b] /\ out[b] = <<>> /\ Say(b, "READY", b) /\ UNCHANGED board /\ wire' = wire
  BY <1>3 DEF Announce
<1>5. out'[b] = <<<<"READY", b>>>>
  <2>1. out'[b] = Append(<<>>, <<"READY", b>>)
    BY <1>4 DEF Say, TypesInv
  <2> QED
    BY <2>1, OneLine
<1> QED
  BY <1>1, <1>4, <1>5 DEF Ready, Rests, Tidy, board
-----------------------------------------------------------------------------
\* A board that was told something takes it, and is not disturbed before.
LEMMA ToldMoves ==
    ASSUME TypesInv, BoardInv, NEW b \in Board, NEW m, NEW c, Told(b, m, c), Moves(b),
           m = "idle" \/ m \in SubMode, c \notin {"none", "overrun"}, m = "idle" => c # "q"
    PROVE  \/ Told(b, m, c)' /\ Counted("count", b)' = edges[b] /\ Counted("slave", b)' = tally[b]
           \/ rx[b] = c /\ wire[b] = <<>> /\ Executes(b)
<1>1. CASE wire[b] = <<c>>
  <2>1. rx[b] = "none" /\ mode[b] = m
    <3>1. <<c>> # <<>>
      OBVIOUS
    <3> QED
      BY <1>1, <3>1 DEF Told
  <2>2. ~Announce(b)
    <3>1. mode[b] = "idle" => <<c>> # <<"q">> /\ <<c>> # <<>>
      BY <2>1
    <3> QED
      BY <1>1, <3>1 DEF Announce
  <2>3. ~Executes(b)
    <3>1. "none" \notin DOMAIN Answer
      BY DEF Answer
    <3> QED
      BY <2>1, <3>1 DEF Executes, Boot, Discard, Reply, ServeI2c, TestI2c, ServeEcho, Initiate,
        Count, Pulse, Capture, Leave, Doze, Take, SubMode, Exchange, Server, Edge, Finish, Busy,
        FallAsleep, Wake
  <2>4. Arrive(b)
    BY <2>2, <2>3 DEF Moves
  <2>5. Head(wire[b]) = c /\ Tail(wire[b]) = <<>>
    BY <1>1
  <2>6. wire'[b] = <<>> /\ rx'[b] = c
    BY <2>1, <2>4, <2>5 DEF Arrive, TypesInv, SubMode
  <2> QED
    BY <2>4, <2>6 DEF Arrive, loop, Told, Tidy, Counted
<1>2. CASE wire[b] = <<>> /\ rx[b] = c
  BY <1>2 DEF Moves, Arrive, Announce
<1> QED
  BY <1>1, <1>2 DEF Told

\* A board with a command in RXBUF takes it,
LEMMA ToldTakes ==
    ASSUME NEW b \in Board, mode[b] = "idle", rx[b] \notin {"q", "none", "overrun"}, Executes(b)
    PROVE  \/ rx[b] \in DOMAIN Answer /\ Reply(b)
           \/ rx[b] = "s" /\ ServeI2c(b)
           \/ rx[b] = "m" /\ TestI2c(b)
           \/ rx[b] = "e" /\ ServeEcho(b)
           \/ rx[b] = "t" /\ Initiate(b)
           \/ rx[b] = "g" /\ Count(b)
           \/ rx[b] \in {"p", "1"} /\ Pulse(b)
           \/ rx[b] = "c" /\ Capture(b)
           \/ rx[b] = "w" /\ Doze(b)
BY DEF Executes, Boot, Discard, Reply, ServeI2c, TestI2c, ServeEcho, Initiate,
       Count, Pulse, Capture, Leave, Doze, Take, SubMode, Exchange, Server, Edge, Finish, Busy,
       FallAsleep, Wake

\* answers after at most one announcement,
LEMMA TellsThen ==
    ASSUME TypesInv, NEW b \in Board, Tidy(b), open[b], NEW t, NEW v, Say(b, t, v),
           NEW m, mode'[b] = m, wire[b] = <<>>, UNCHANGED wire, rx'[b] = "none", poked'[b]
    PROVE  Said(b, m, t, v)'
BY SaysLine DEF Said, Rests

\* on the spot,
LEMMA Asks ==
    ASSUME TypesInv, NEW b \in Board, open[b], NEW c \in Questions, Tidy(b), mode[b] = "idle",
           rx[b] = c, wire[b] = <<>>, Executes(b)
    PROVE  Said(b, "idle", Answer[c], b)'
<1>1. Reply(b)
  BY ToldTakes DEF Questions
<1>2. Say(b, Answer[c], b) /\ mode' = mode /\ rx'[b] = "none" /\ poked'[b] /\ wire' = wire
  BY <1>1 DEF Reply, Take, loop, TypesInv
<1> QED
  BY <1>2, TellsThen

\* from the loop it enters, with a tally of zero unless something was latched,
LEMMA Enters ==
    ASSUME TypesInv, BoardInv, NEW b \in Board, open[b], NEW m \in SubMode, Serves(m, b),
           Tidy(b), mode[b] = "idle", rx[b] = Enter[m], wire[b] = <<>>, Executes(b)
    PROVE  /\ Said(b, m, On[m], 0)'
           /\ \/ Counted(m, b)' = 0 /\ Fair(m, b)'
              \/ m = "slave" /\ tally'[b] <= 1 /\ tainted'[b]
<1>1. CASE m = "slave"
  <2>1. ServeI2c(b) /\ b # "parent"
    BY <1>1, ToldTakes DEF Enter, Answer, Serves
  <2>2. b0[b] \in {"free", "slave"}
    BY <2>1 DEF BoardInv, BoardOK
  <2>3. Say(b, On[m], 0) /\ mode'[b] = m /\ rx'[b] = "none" /\ poked'[b] /\ wire' = wire
        /\ tally'[b] = (IF "stop" \in latched[b] THEN 1 ELSE 0)
        /\ (tainted'[b] <=> latched[b] # {})
    BY <1>1, <2>1, <2>2 DEF ServeI2c, On, Take, Becomes, TypesInv
  <2>4. Said(b, m, On[m], 0)'
    BY <1>1, <2>3, TellsThen
  <2> QED
    BY <1>1, <2>3, <2>4 DEF Counted, Fair
<1>2. CASE m = "echo"
  <2>1. ServeEcho(b)
    BY <1>2, ToldTakes DEF Enter, Answer
  <2>2. Say(b, On[m], 0) /\ mode'[b] = m /\ rx'[b] = "none" /\ poked'[b] /\ wire' = wire
        /\ tally'[b] = 0
    BY <1>2, <2>1 DEF ServeEcho, On, Take, Becomes, TypesInv
  <2> QED
    BY <1>2, <2>2, TellsThen DEF Counted, Fair
<1>3. CASE m = "count"
  <2>1. Count(b)
    BY <1>3, ToldTakes DEF Enter, Answer
  <2>2. Say(b, On[m], 0) /\ mode'[b] = m /\ rx'[b] = "none" /\ poked'[b] /\ wire' = wire
        /\ edges'[b] = 0
    BY <1>3, <2>1 DEF Count, On, Take, Becomes, TypesInv
  <2> QED
    BY <1>3, <2>2, TellsThen DEF Counted, Fair
<1> QED
  BY <1>1, <1>2, <1>3 DEF SubMode

\* or later,
LEMMA Begins ==
    ASSUME NEW b \in Board, NEW m, NEW n, Burn(b, m, n), TypesInv, UNCHANGED wire,
           wire[b] = <<>>, rx'[b] = "none", Tidy(b)
    PROVE  Ready(b, m)' /\ left'[b] = n /\ good'[b]
BY DEF Burn, Becomes, TypesInv, Ready, Rests, Tidy

\* when it is done with its burst,
LEMMA Drives ==
    ASSUME TypesInv, BoardInv, NEW b \in Board, NEW m \in SubMode, 
           Tidy(b), mode[b] = "idle", rx[b] = Drive[m], wire[b] = <<>>, Executes(b)
    PROVE  Ready(b, Driver[m])' /\ left'[b] = Burst /\ good'[b]
<1>1. CASE m = "slave"
  <2>1. TestI2c(b) /\ b0[b] # "gone"
    BY <1>1, ToldTakes DEF Drive, Answer, BoardInv, BoardOK
  <2>2. Burn(b, "testing", Burst) /\ UNCHANGED wire /\ rx'[b] = "none"
    BY <2>1 DEF TestI2c, Take, TypesInv
  <2> QED
    BY <1>1, <2>2, Begins DEF Driver
<1>2. CASE m = "echo"
  <2>1. Initiate(b)
    BY <1>2, ToldTakes DEF Drive, Answer
  <2>2. Burn(b, "initiating", Burst) /\ UNCHANGED wire /\ rx'[b] = "none"
    BY <2>1 DEF Initiate, Take, TypesInv
  <2> QED
    BY <1>2, <2>2, Begins DEF Driver
<1>3. CASE m = "count"
  <2>1. Pulse(b) /\ rx[b] = "p"
    BY <1>3, ToldTakes DEF Drive, Answer
  <2>2. Burn(b, "pulsing", Burst) /\ UNCHANGED wire /\ rx'[b] = "none"
    BY <2>1 DEF Pulse, Take, TypesInv
  <2> QED
    BY <1>3, <2>2, Begins DEF Driver
<1> QED
  BY <1>1, <1>2, <1>3 DEF SubMode

\* its pulse,
LEMMA PulsesOnce ==
    ASSUME TypesInv, NEW b \in Board, Tidy(b), mode[b] = "idle", rx[b] = "1", wire[b] = <<>>,
           Executes(b)
    PROVE  Ready(b, "pulsing")' /\ left'[b] = 1 /\ good'[b]
<1>1. Pulse(b)
  BY ToldTakes DEF Answer
<1>2. Burn(b, "pulsing", 1) /\ UNCHANGED wire /\ rx'[b] = "none"
  BY <1>1 DEF Pulse, Take, TypesInv
<1> QED
  BY <1>2, Begins

\* or its capture.
LEMMA Measures ==
    ASSUME TypesInv, NEW b \in Board, Tidy(b), mode[b] = "idle", rx[b] = "c", wire[b] = <<>>,
           Executes(b)
    PROVE  Ready(b, "measuring")' /\ left'[b] = 0 /\ good'[b]
<1>1. Capture(b)
  BY ToldTakes DEF Answer
<1>2. Burn(b, "measuring", 0) /\ UNCHANGED wire /\ rx'[b] = "none"
  BY <1>1 DEF Capture, Take, TypesInv
<1> QED
  BY <1>2, Begins

\* A board told to sleep has announced it before it sleeps.
LEMMA Dozes ==
    ASSUME TypesInv, NEW b \in Board, open[b], Tidy(b), mode[b] = "idle", rx[b] = "w",
           wire[b] = <<>>, Executes(b)
    PROVE  Said(b, "dozing", "SLEEPING", 0)' /\ edges'[b] = 0
<1>1. Doze(b)
  BY ToldTakes DEF Answer
<1>2. Say(b, "SLEEPING", 0) /\ mode'[b] = "dozing" /\ rx'[b] = "none" /\ poked'[b] /\ wire' = wire
      /\ edges'[b] = 0
  BY <1>1 DEF Doze, Take, Becomes, TypesInv
<1> QED
  BY <1>2, TellsThen

\* A board that is told to leave reports its tally.
LEMMA Leaves ==
    ASSUME TypesInv, BoardInv, NEW b \in Board, open[b], NEW m \in SubMode, Tidy(b), mode[b] = m,
           rx[b] = "q", wire[b] = <<>>, Executes(b), NEW CONSTANT n, Counted(m, b) = n
    PROVE  Said(b, "idle", Stats[m], n)'
<1>1. Leave(b)
  BY DEF Executes, Boot, Discard, Reply, ServeI2c, TestI2c, ServeEcho, Initiate,
       Count, Pulse, Capture, Leave, Doze, Take, SubMode, Exchange, Server, Edge, Finish, Busy,
       FallAsleep, Wake
<1>2. Say(b, Stats[m], n)
  BY <1>1 DEF Leave, Counted
<1>3. mode'[b] = "idle" /\ rx'[b] = "none" /\ wire' = wire /\ poked' = poked
  BY <1>1 DEF Leave, Becomes, TypesInv
<1>4. poked[b]
  BY DEF BoardInv, BoardOK, SubMode
<1> QED
  BY <1>2, <1>3, <1>4, TellsThen
-----------------------------------------------------------------------------
\* A burst goes on or ends,
LEMMA BusyRuns ==
    ASSUME NEW b \in Board, NEW d \in Busy, Ready(b, d), Moves(b)
    PROVE  \/ left[b] > 0 /\ d \in DOMAIN Server /\ Exchange(b)
           \/ left[b] > 0 /\ d = "pulsing" /\ Edge(b)
           \/ left[b] = 0 /\ Finish(b)
<1>1. mode[b] = d /\ wire[b] = <<>> /\ rx[b] = "none" /\ d \notin Polling /\ d # "boot"
      /\ d \notin Asleep /\ d # "woken"
  BY DEF Ready, Rests, Busy, Polling, SubMode, Asleep
<1> QED
  BY <1>1 DEF Moves, Arrive, Announce, Executes, Boot, Discard, Reply, ServeI2c, TestI2c,
       ServeEcho, Initiate, Count, Pulse, Capture, Leave, Doze, Take, Polling, SubMode, Exchange,
       Edge, Finish, FallAsleep, Wake, Asleep

\* with the result when nothing is left of it,
LEMMA BusyEnds ==
    ASSUME TypesInv, BoardInv, NEW b \in Board, NEW d \in Busy, Ready(b, d), open[b], left[b] = 0,
           NEW CONSTANT v, good[b] = v, Moves(b)
    PROVE  Said(b, "idle", Result[d], v)'
<1>1. Finish(b) /\ mode[b] = d /\ wire[b] = <<>> /\ rx[b] = "none"
  BY BusyRuns DEF Ready, Rests
<1>2. Say(b, Result[d], v)
  BY <1>1 DEF Finish
<1>3. mode'[b] = "idle" /\ UNCHANGED wire /\ rx'[b] = "none"
  BY <1>1 DEF Finish, Becomes, TypesInv
<1>4. poked'[b]
  BY <1>1 DEF Finish, BoardInv, BoardOK, Busy
<1> QED
  BY <1>1, <1>2, <1>3, <1>4, TellsThen DEF Ready

LEMMA BusyDone ==
    ASSUME TypesInv, BoardInv, NEW b \in Board, NEW d \in Busy, Ready(b, d), open[b], left[b] = 0,
           good[b], Moves(b)
    PROVE  Said(b, "idle", Result[d], TRUE)'
<1>1. good[b] = TRUE
  BY Zenon DEF TypesInv
<1> QED
  BY <1>1, BusyEnds, Zenon

\* every piece of it counted by the board that serves,
LEMMA BusyServed ==
    ASSUME TypesInv, BoardInv, NEW b \in Board, NEW m \in SubMode, Ready(b, Driver[m]),
           left[b] > 0, good[b], Moves(b), Ready(Peer(b), m), Counted(m, Peer(b)) <= Burst,
           Fair(m, Peer(b))
    PROVE  /\ Ready(b, Driver[m])' /\ good'[b] /\ left'[b] = left[b] - 1
           /\ Ready(Peer(b), m)' /\ Counted(m, Peer(b))' = Counted(m, Peer(b)) + 1
           /\ Fair(m, Peer(b))'
<1> DEFINE p == Peer(b)
<1>1. p \in Board /\ p # b /\ mode[p] = m /\ mode[b] = Driver[m] /\ Driver[m] \in Busy
  BY PeerFacts DEF Ready, Rests, Busy, Driver, SubMode
<1>2. CASE m \in {"slave", "echo"}
  <2>1. Exchange(b) /\ Server[Driver[m]] = m
    BY <1>1, <1>2, BusyRuns DEF Driver, Server
  <2>2. mode[b] = "testing" => latched[p] = {}
    BY <1>1, <1>2 DEF Driver, BoardInv, CleanOK, Fair
  <2>3. Fares(b, TRUE, 1, latched[p])
    <3>1. PICK ok \in BOOLEAN, n \in {0, 1}, l \in SUBSET {"stop", "held"} :
              /\ Fares(b, ok, n, l)
              /\ n = 1 => mode[Peer(b)] = Server[mode[b]]
              /\ mode[b] = "testing" \/ l = latched[Peer(b)]
              /\ mode[Peer(b)] = Server[mode[b]] /\ (mode[b] = "testing" => latched[Peer(b)] = {})
                   => ok /\ n = 1 /\ l = latched[Peer(b)]
      BY <2>1, ExchangeFares, Zenon
    <3>2. ok /\ n = 1 /\ l = latched[p]
      BY <1>1, <2>1, <2>2, <3>1
    <3>3. ok = TRUE
      BY <3>2
    <3> QED
      BY <3>1, <3>2, <3>3
  <2>4. /\ left'[b] = left[b] - 1
        /\ UNCHANGED <<mode, rx, wire, out, tainted>>
    BY <1>1, <2>1 DEF Exchange, TypesInv, line
  <2>5. good'[b] /\ tally'[p] = tally[p] + 1
    BY <1>1, <2>3 DEF Fares, TypesInv
  <2> QED
    BY <1>2, <2>4, <2>5 DEF Ready, Rests, Tidy, Counted, Fair
<1>3. CASE m = "count"
  <2>1. Edge(b)
    BY <1>1, <1>3, BusyRuns DEF Driver, Server
  <2>2. edges[p] <= Burst
    BY <1>3 DEF Counted
  <2>3. /\ left'[b] = left[b] - 1 /\ edges'[p] = edges[p] + 1
        /\ UNCHANGED <<mode, rx, wire, out, good>>
    BY <1>1, <1>3, <2>1, <2>2 DEF Edge, TypesInv, line
  <2> QED
    BY <1>3, <2>3 DEF Ready, Rests, Tidy, Counted, Fair
<1> QED
  BY <1>2, <1>3 DEF SubMode

\* or not, if something was latched,
LEMMA BusySpoiled ==
    ASSUME TypesInv, NEW b \in Board, Ready(b, "testing"), left[b] > 0, Moves(b),
           NEW m, Ready(Peer(b), m)
    PROVE  Ready(b, "testing")' /\ Ready(Peer(b), m)' /\ UNCHANGED tainted
<1>1. Exchange(b)
  BY BusyRuns DEF Busy
<1> QED
  BY <1>1 DEF Exchange, line, Ready, Rests, Tidy

\* and the pulse wakes the board that sleeps.
LEMMA BusyWakes ==
    ASSUME Burst \in Nat \ {0}, TypesInv, NEW b \in Board, Ready(b, "pulsing"), left[b] = 1, good[b],
           Moves(b),
           Ready(Peer(b), "asleep"), edges[Peer(b)] = 0
    PROVE  /\ Ready(b, "pulsing")' /\ good'[b] /\ left'[b] = 0
           /\ Ready(Peer(b), "woken")' /\ edges'[Peer(b)] = 1
<1> DEFINE p == Peer(b)
<1>1. p \in Board /\ p # b /\ mode[p] = "asleep" /\ mode[b] = "pulsing"
  BY PeerFacts DEF Ready, Rests
<1>2. Edge(b)
  BY <1>1, BusyRuns DEF Busy, Server
<1>3. /\ left'[b] = 0 /\ edges'[p] = 1 /\ mode'[p] = "woken" /\ mode'[b] = "pulsing"
      /\ UNCHANGED <<rx, wire, out, good>>
  BY <1>1, <1>2 DEF Edge, TypesInv, line
<1> QED
  BY <1>1, <1>3 DEF Ready, Rests, Tidy

\* A board that falls asleep counts nothing,
LEMMA SleepMoves ==
    ASSUME TypesInv, NEW b \in Board, NEW m \in Asleep, Rests(b, m), Moves(b)
    PROVE  /\ \E n \in Asleep : Rests(b, n)'
           /\ UNCHANGED <<poked, out, edges>>
<1>1. mode[b] = m /\ wire[b] = <<>> /\ rx[b] = "none" /\ m \notin Polling /\ m # "boot"
      /\ m \notin Busy /\ m # "woken" /\ m \notin DOMAIN Server
  BY DEF Rests, Busy, Polling, SubMode, Asleep, Server
<1>2. FallAsleep(b)
  BY <1>1 DEF Moves, Arrive, Announce, Executes, Boot, Discard, Reply, ServeI2c, TestI2c,
       ServeEcho, Initiate, Count, Pulse, Capture, Leave, Doze, Take, Polling, SubMode, Exchange,
       Edge, Finish, Wake, Busy
<1> QED
  BY <1>1, <1>2 DEF FallAsleep, Becomes, TypesInv, line, Rests, Asleep

\* and one that woke says how many edges it saw.
LEMMA WokenMoves ==
    ASSUME TypesInv, BoardInv, NEW b \in Board, Ready(b, "woken"), open[b], Moves(b), edges[b] = 1
    PROVE  Said(b, "idle", "WOKE", 1)'
<1>1. mode[b] = "woken" /\ wire[b] = <<>> /\ rx[b] = "none"
  BY DEF Ready, Rests
<1>2. Wake(b)
  BY <1>1 DEF Moves, Arrive, Announce, Executes, Boot, Discard, Reply, ServeI2c, TestI2c,
       ServeEcho, Initiate, Count, Pulse, Capture, Leave, Doze, Take, Polling, SubMode, Exchange,
       Edge, Finish, Busy, FallAsleep, Server
<1>3. Say(b, "WOKE", 1) /\ mode'[b] = "idle" /\ UNCHANGED wire /\ rx'[b] = "none"
  BY <1>1, <1>2 DEF Wake, Becomes, TypesInv
<1>4. poked'[b]
  BY <1>1, <1>2 DEF Wake, BoardInv, BoardOK
<1> QED
  BY <1>1, <1>3, <1>4, TellsThen DEF Ready
-----------------------------------------------------------------------------
\* The host that runs a suite: where it is in the script, and what the boards do.
AtRest(f) == todo = f /\ \A b \in Board : Ready(b, "idle")

InAsking(b, c, f) ==
    /\ todo = Then(Expect(b, Answer[c], b), f)
    /\ Ready(Peer(b), "idle")
    /\ Told(b, "idle", c) \/ Said(b, "idle", Answer[c], b)

InMeasuring(b, f) ==
    /\ todo = Then(Expect(b, "CAP", TRUE), f)
    /\ Ready(Peer(b), "idle")
    /\ \/ Told(b, "idle", "c")
       \/ Ready(b, "measuring") /\ left[b] = 0 /\ good[b]
       \/ Said(b, "idle", "CAP", TRUE)

Entering(m, b, f) ==
    /\ todo = Then(Expect(b, On[m], 0), Driving(m, b, f))
    /\ Ready(Peer(b), "idle")
    /\ Told(b, "idle", Enter[m]) \/ (Said(b, m, On[m], 0) /\ Counted(m, b) = 0 /\ Fair(m, b))

Entered(m, b, f) ==
    /\ todo = Driving(m, b, f)
    /\ Ready(Peer(b), "idle")
    /\ Ready(b, m) /\ Counted(m, b) = 0 /\ Fair(m, b)

InDrive(m, b, f) ==
    /\ todo = Driven(m, b, f)
    /\ Ready(b, m) /\ Fair(m, b)
    /\ \/ Told(Peer(b), "idle", Drive[m]) /\ Counted(m, b) = 0
       \/ /\ Ready(Peer(b), Driver[m]) /\ good[Peer(b)]
          /\ Counted(m, b) + left[Peer(b)] = Burst
       \/ Said(Peer(b), "idle", Result[Driver[m]], TRUE) /\ Counted(m, b) = Burst

Served(m, b, f) ==
    /\ todo = Leaving(m, b, f)
    /\ Ready(Peer(b), "idle")
    /\ Ready(b, m) /\ Counted(m, b) = Burst

InLeaving(m, b, f) ==
    /\ todo = Then(Expect(b, Stats[m], Burst), f)
    /\ Ready(Peer(b), "idle")
    /\ (Told(b, m, "q") /\ Counted(m, b) = Burst) \/ Said(b, "idle", Stats[m], Burst)

InSession(m, b, f) ==
    \/ Entering(m, b, f) \/ Entered(m, b, f) \/ InDrive(m, b, f)
    \/ Served(m, b, f) \/ InLeaving(m, b, f)

Dozing(b, f) ==
    /\ todo = Then(Expect(b, "SLEEPING", 0), Napping(b, f))
    /\ Ready(Peer(b), "idle")
    /\ \/ Told(b, "idle", "w")
       \/ edges[b] = 0 /\ \E m \in Asleep : Said(b, m, "SLEEPING", 0)

Resting(b, f) ==
    /\ todo = Napping(b, f)
    /\ Ready(Peer(b), "idle")
    /\ edges[b] = 0 /\ \E m \in Asleep : Ready(b, m)

Sleeping(b, f) ==
    /\ todo = Waking(b, f)
    /\ Ready(Peer(b), "idle")
    /\ Ready(b, "asleep") /\ edges[b] = 0

Awake(b) == (Ready(b, "woken") /\ edges[b] = 1) \/ Said(b, "idle", "WOKE", 1)

InWaking(b, f) ==
    /\ todo = Then(Expect(Peer(b), "PULSED", TRUE), Woken(b, f))
    /\ \/ /\ Ready(b, "asleep") /\ edges[b] = 0
          /\ \/ Told(Peer(b), "idle", "1")
             \/ Ready(Peer(b), "pulsing") /\ good[Peer(b)] /\ left[Peer(b)] = 1
       \/ /\ Awake(b)
          /\ \/ Ready(Peer(b), "pulsing") /\ good[Peer(b)] /\ left[Peer(b)] = 0
             \/ Said(Peer(b), "idle", "PULSED", TRUE)

InWoken(b, f) ==
    /\ todo = Woken(b, f)
    /\ Ready(Peer(b), "idle") /\ Awake(b)

InNight(b, f) ==
    \/ Dozing(b, f) \/ Resting(b, f) \/ Sleeping(b, f) \/ InWaking(b, f) \/ InWoken(b, f)

InScript(f) ==
    \/ AtRest(f)
    \/ \E b \in Board :
         \/ \E c \in Questions : InAsking(b, c, f)
         \/ InMeasuring(b, f)
         \/ \E m \in SubMode : Serves(m, b) /\ InSession(m, b, f)
         \/ InNight(b, f)

\* The session of a child that was taken up with something latched: any verdict
\* and any tally may come of it.
SpoiledEntering(f) ==
    /\ todo = Then(Expect("child", On["slave"], 0), Driving("slave", "child", f))
    /\ Ready("parent", "idle")
    /\ Said("child", "slave", On["slave"], 0) /\ tally["child"] <= 1

SpoiledEntered(f) ==
    /\ todo = Driving("slave", "child", f)
    /\ Ready("parent", "idle")
    /\ Ready("child", "slave") /\ tally["child"] <= 1

SpoiledDrive(f) ==
    /\ todo = Driven("slave", "child", f)
    /\ Ready("child", "slave")
    /\ \/ Told("parent", "idle", "m")
       \/ Ready("parent", "testing")
       \/ \E v : Said("parent", "idle", "I2C_TEST_END", v)

SpoiledServed(f) ==
    /\ todo \in {Leaving("slave", "child", f), PostMortem}
    /\ Ready("parent", "idle") /\ Ready("child", "slave")

SpoiledLeaving(f) ==
    /\ todo \in {Then(Expect("child", Stats["slave"], Burst), f), Looking}
    /\ Ready("parent", "idle")
    /\ Told("child", "slave", "q") \/ \E n : Said("child", "idle", Stats["slave"], n)

Dumping ==
    \/ AtRest(Dump)
    \/ InAsking("parent", "B", Asking("child", "B", <<GivenUp>>))
    \/ AtRest(Asking("child", "B", <<GivenUp>>))
    \/ InAsking("child", "B", <<GivenUp>>)
    \/ AtRest(<<GivenUp>>)

Spoiled(f) ==
    /\ tainted["child"]
    /\ \/ SpoiledEntering(f) \/ SpoiledEntered(f) \/ SpoiledDrive(f) \/ SpoiledServed(f)
       \/ SpoiledLeaving(f) \/ Dumping

SuiteInv ==
    phase = "suites" =>
      /\ \A b \in Board : open[b]
      /\ \E f \in Scripts : InScript(f) \/ Spoiled(f)
-----------------------------------------------------------------------------
\* An idle board leaves the other alone.
LEMMA PeerIdles ==
    ASSUME TypesInv, NEW b \in Board, Ready(Peer(b), "idle"), Moves(Peer(b))
    PROVE  Ready(Peer(b), "idle")' /\ Kept(b)
<1>1. Peer(b) \in Board /\ Peer(Peer(b)) = b
  BY PeerFacts
<1>2. mode[Peer(b)] = "idle"
  BY DEF Ready, Rests
<1> QED
  BY <1>1, <1>2, IdleMoves, PeerKept

\* No step of a board is one of the host.
LEMMA HostKept ==
    ASSUME TypesInv, NEW b \in Board, Moves(b)
    PROVE  UNCHANGED <<open, phase, who, found, suite, todo>>
BY MovesApart DEF Apart, host

\* A step of a board keeps the host in the part it is in: a question,
LEMMA AskingMoves ==
    ASSUME TypesInv, BoardInv, \A y \in Board : open[y], NEW b \in Board, NEW c \in Questions,
           NEW f, InAsking(b, c, f), NEW x \in Board, Moves(x)
    PROVE  InAsking(b, c, f)'
<1>1. UNCHANGED todo
  BY HostKept
<1>2. CASE x = b
  <2>1. Told(b, "idle", c)
    BY <1>2, StaysStill DEF InAsking, Said
  <2>2. c \notin {"none", "overrun", "q"}
    BY DEF Questions
  <2>3. Kept(Peer(b))
    BY <1>2, <2>1, PeerKept DEF Told
  <2>4. Told(b, "idle", c)' \/ Said(b, "idle", Answer[c], b)'
    BY <1>2, <2>1, <2>2, ToldMoves, Asks DEF Told
  <2> QED
    BY <1>1, <2>3, <2>4, KeptStates DEF InAsking
<1>3. CASE x = Peer(b)
  BY <1>1, <1>3, PeerIdles, KeptStates DEF InAsking
<1> QED
  BY <1>2, <1>3, PeerFacts

\* a measurement,
LEMMA MeasuringMoves ==
    ASSUME TypesInv, BoardInv, \A y \in Board : open[y], NEW b \in Board,
           NEW f, InMeasuring(b, f), NEW x \in Board, Moves(x)
    PROVE  InMeasuring(b, f)'
<1>1. UNCHANGED todo
  BY HostKept
<1>2. CASE x = b
  <2>1. CASE Told(b, "idle", "c")
    <3>1. Kept(Peer(b))
      BY <1>2, <2>1, PeerKept DEF Told
    <3>2. Told(b, "idle", "c")' \/ (Ready(b, "measuring")' /\ left'[b] = 0 /\ good'[b])
      <4>1. "c" \notin {"none", "overrun", "q"}
        OBVIOUS
      <4>2. Told(b, "idle", "c")' \/ (rx[b] = "c" /\ wire[b] = <<>> /\ Executes(b))
        BY <1>2, <2>1, <4>1, ToldMoves
      <4> QED
        BY <2>1, <4>2, Measures DEF Told
    <3> QED
      BY <1>1, <3>1, <3>2, KeptStates DEF InMeasuring
  <2>2. CASE Ready(b, "measuring") /\ left[b] = 0 /\ good[b]
    <3>1. Kept(Peer(b))
      BY <1>2, <2>2, PeerKept
    <3>2. Said(b, "idle", "CAP", TRUE)'
      BY <1>2, <2>2, BusyDone DEF Busy, Result
    <3> QED
      BY <1>1, <3>1, <3>2, KeptStates DEF InMeasuring
  <2>3. ~Said(b, "idle", "CAP", TRUE)
    BY <1>2, StaysStill DEF Said
  <2> QED
    BY <2>1, <2>2, <2>3 DEF InMeasuring
<1>3. CASE x = Peer(b)
  <2>1. Ready(Peer(b), "idle")' /\ Kept(b)
    BY <1>3, PeerIdles DEF InMeasuring
  <2> QED
    BY <1>1, <2>1, KeptStates DEF InMeasuring, Kept
<1> QED
  BY <1>2, <1>3, PeerFacts

\* a session,
LEMMA SessionMoves ==
    ASSUME Burst \in Nat \ {0}, TypesInv, BoardInv, \A y \in Board : open[y], NEW b \in Board,
           NEW m \in SubMode, Serves(m, b), NEW f, InSession(m, b, f), NEW x \in Board, Moves(x)
    PROVE  InSession(m, b, f)' \/ Spoiled(f)'
<1>1. UNCHANGED todo
  BY HostKept
<1>2. x = b \/ x = Peer(b)
  BY PeerFacts
<1>3. CASE Entering(m, b, f)
  <2>1. CASE x = b
    <3>1. Told(b, "idle", Enter[m])
      BY <1>3, <2>1, StaysStill DEF Entering, Said
    <3>2. Enter[m] \notin {"none", "overrun", "q"}
      BY DEF Enter, SubMode
    <3>3. Kept(Peer(b))
      BY <2>1, <3>1, PeerKept DEF Told
    <3>4. \/ Told(b, "idle", Enter[m])'
          \/ Said(b, m, On[m], 0)' /\ Counted(m, b)' = 0 /\ Fair(m, b)'
          \/ m = "slave" /\ Said(b, m, On[m], 0)' /\ tally'[b] <= 1 /\ tainted'[b]
      BY <2>1, <3>1, <3>2, ToldMoves, Enters DEF Told
    <3>5. /\ todo' = Then(Expect(b, On[m], 0), Driving(m, b, f))
          /\ Ready(Peer(b), "idle")'
      BY <1>1, <1>3, <3>3, KeptStates DEF Entering
    <3>6. CASE \/ Told(b, "idle", Enter[m])'
               \/ Said(b, m, On[m], 0)' /\ Counted(m, b)' = 0 /\ Fair(m, b)'
      BY <3>5, <3>6 DEF Entering, InSession
    <3>7. CASE m = "slave" /\ Said(b, m, On[m], 0)' /\ tally'[b] <= 1 /\ tainted'[b]
      <4>1. b = "child" /\ Peer(b) = "parent"
        BY <3>7 DEF Serves, Peer
      <4> QED
        BY <3>5, <3>7, <4>1 DEF SpoiledEntering, Spoiled
    <3> QED
      BY <3>4, <3>6, <3>7
  <2>2. CASE x = Peer(b)
    <3>1. Ready(Peer(b), "idle")' /\ Kept(b)
      BY <1>3, <2>2, PeerIdles DEF Entering
    <3>2. Entering(m, b, f)'
      BY <1>1, <1>3, <3>1, KeptStates DEF Entering
    <3> QED
      BY <3>2 DEF InSession
  <2> QED
    BY <1>2, <2>1, <2>2
<1>4. CASE Entered(m, b, f)
  <2>1. x = Peer(b)
    BY <1>2, <1>4, StaysStill DEF Entered, Ready
  <2>2. Ready(Peer(b), "idle")' /\ Kept(b)
    BY <1>4, <2>1, PeerIdles DEF Entered
  <2>3. Entered(m, b, f)'
    BY <1>1, <1>4, <2>2, KeptStates DEF Entered
  <2> QED
    BY <2>3 DEF InSession
<1>5. CASE InDrive(m, b, f)
  <2> DEFINE p == Peer(b)
  <2>0. p \in Board /\ Peer(p) = b /\ Driver[m] \in Busy
    BY PeerFacts DEF Driver, Busy, SubMode
  <2>1. x = p
    BY <1>2, <1>5, StaysStill DEF InDrive, Ready
  <2>2. CASE Told(p, "idle", Drive[m]) /\ Counted(m, b) = 0
    <3>1. Drive[m] \notin {"none", "overrun", "q"}
      BY DEF Drive, SubMode
    <3>2. Kept(b)
      BY <2>0, <2>1, <2>2, PeerKept DEF Told
    <3>3. Told(p, "idle", Drive[m])' \/ (Ready(p, Driver[m])' /\ good'[p] /\ left'[p] = Burst)
      BY <2>0, <2>1, <2>2, <3>1, ToldMoves, Drives DEF Told
    <3>4. Ready(b, m)' /\ Counted(m, b)' = 0 /\ Fair(m, b)'
      BY <1>5, <2>2, <3>2, KeptStates DEF InDrive
    <3> QED
      <4>1. CASE Told(p, "idle", Drive[m])'
        BY <1>1, <1>5, <3>4, <4>1 DEF InDrive, InSession
      <4>2. CASE Ready(p, Driver[m])' /\ good'[p] /\ left'[p] = Burst
        <5>1. Counted(m, b)' + left'[p] = Burst
          BY <3>4, <4>2
        <5> QED
          BY <1>1, <1>5, <3>4, <4>2, <5>1 DEF InDrive, InSession
      <4> QED
        BY <3>3, <4>1, <4>2
  <2>3. CASE Ready(p, Driver[m]) /\ good[p] /\ Counted(m, b) + left[p] = Burst
    <3>1. left[p] \in 0 .. Burst /\ Counted(m, b) \in Nat
      BY <2>0 DEF TypesInv, Counted
    <3>2. CASE left[p] > 0
      <4>1. Counted(m, b) <= Burst
        BY <2>3, <3>1
      <4>2. /\ Ready(p, Driver[m])' /\ good'[p] /\ left'[p] = left[p] - 1
            /\ Ready(b, m)' /\ Counted(m, b)' = Counted(m, b) + 1 /\ Fair(m, b)'
        BY <1>5, <2>0, <2>1, <2>3, <3>2, <4>1, BusyServed DEF InDrive
      <4>3. Counted(m, b)' + left'[p] = Burst
        BY <2>3, <3>1, <4>2
      <4> QED
        BY <1>1, <1>5, <4>2, <4>3 DEF InDrive, InSession
    <3>3. CASE left[p] = 0
      <4>1. Kept(b)
        BY <2>0, <2>1, <3>3, PeerKept
      <4>2. Said(p, "idle", Result[Driver[m]], TRUE)'
        BY <2>0, <2>1, <2>3, <3>3, BusyDone
      <4>3. Ready(b, m)' /\ Counted(m, b)' = Burst /\ Fair(m, b)'
        BY <1>5, <2>3, <3>1, <3>3, <4>1, KeptStates DEF InDrive
      <4> QED
        BY <1>1, <1>5, <4>2, <4>3 DEF InDrive, InSession
    <3> QED
      BY <3>1, <3>2, <3>3
  <2>4. ~Said(p, "idle", Result[Driver[m]], TRUE)
    BY <2>0, <2>1, StaysStill DEF Said
  <2> QED
    BY <1>5, <2>2, <2>3, <2>4 DEF InDrive
<1>6. CASE Served(m, b, f)
  <2>1. x = Peer(b)
    BY <1>2, <1>6, StaysStill DEF Served, Ready
  <2>2. Ready(Peer(b), "idle")' /\ Kept(b)
    BY <1>6, <2>1, PeerIdles DEF Served
  <2>3. Served(m, b, f)'
    BY <1>1, <1>6, <2>2, KeptStates DEF Served
  <2> QED
    BY <2>3 DEF InSession
<1>7. CASE InLeaving(m, b, f)
  <2>1. CASE x = b
    <3>1. Told(b, m, "q") /\ Counted(m, b) = Burst
      BY <1>7, <2>1, StaysStill DEF InLeaving, Said
    <3>2. Kept(Peer(b))
      BY <2>1, <3>1, PeerKept DEF Told, SubMode
    <3>3. (Told(b, m, "q")' /\ Counted(m, b)' = Burst) \/ Said(b, "idle", Stats[m], Burst)'
      <4>1. CASE rx[b] = "q" /\ wire[b] = <<>> /\ Executes(b)
        BY <3>1, <4>1, Leaves DEF Told
      <4>2. CASE Told(b, m, "q")' /\ edges'[b] = edges[b] /\ tally'[b] = tally[b]
        BY <3>1, <4>2 DEF Counted
      <4>3. "q" \notin {"none", "overrun"} /\ m # "idle"
        BY DEF SubMode
      <4> QED
        BY <2>1, <3>1, <4>1, <4>2, <4>3, ToldMoves DEF Counted
    <3>4. InLeaving(m, b, f)'
      BY <1>1, <1>7, <3>2, <3>3, KeptStates DEF InLeaving
    <3> QED
      BY <3>4 DEF InSession
  <2>2. CASE x = Peer(b)
    <3>1. Ready(Peer(b), "idle")' /\ Kept(b)
      BY <1>7, <2>2, PeerIdles DEF InLeaving
    <3>2. InLeaving(m, b, f)'
      BY <1>1, <1>7, <3>1, KeptStates DEF InLeaving
    <3> QED
      BY <3>2 DEF InSession
  <2> QED
    BY <1>2, <2>1, <2>2
<1> QED
  BY <1>3, <1>4, <1>5, <1>6, <1>7 DEF InSession

\* a night,
LEMMA NightMoves ==
    ASSUME Burst \in Nat \ {0}, TypesInv, BoardInv, \A y \in Board : open[y], NEW b \in Board,
           NEW f, InNight(b, f), NEW x \in Board, Moves(x)
    PROVE  InNight(b, f)'
<1> DEFINE p == Peer(b)
<1>1. UNCHANGED todo
  BY HostKept
<1>2. (x = b \/ x = p) /\ p \in Board /\ p # b /\ Peer(p) = b
  BY PeerFacts
<1>3. CASE Dozing(b, f)
  <2>1. CASE x = b
    <3>1. Kept(p)
      BY <1>3, <2>1, PeerKept DEF Dozing, Told, Said, Rests, Asleep
    <3>2. CASE Told(b, "idle", "w")
      <4>1. "w" \notin {"none", "overrun", "q"}
        OBVIOUS
      <4>2. Told(b, "idle", "w")' \/ (rx[b] = "w" /\ wire[b] = <<>> /\ Executes(b))
        BY <2>1, <3>2, <4>1, ToldMoves
      <4>3. Told(b, "idle", "w")' \/ (Said(b, "dozing", "SLEEPING", 0)' /\ edges'[b] = 0)
        BY <3>2, <4>2, Dozes DEF Told
      <4>4. "dozing" \in Asleep
        BY DEF Asleep
      <4>5. Dozing(b, f)'
        BY <1>1, <1>3, <3>1, <4>3, <4>4, KeptStates DEF Dozing
      <4> QED
        BY <4>5 DEF InNight
    <3>3. ASSUME NEW m \in Asleep, Said(b, m, "SLEEPING", 0), edges[b] = 0
          PROVE  Dozing(b, f)'
      <4>1. /\ \E n \in Asleep : Rests(b, n)'
            /\ UNCHANGED <<poked, out, edges>>
        BY <2>1, <3>3, SleepMoves DEF Said
      <4>2. \E n \in Asleep : Said(b, n, "SLEEPING", 0)'
        BY <3>3, <4>1 DEF Said
      <4> QED
        BY <1>1, <1>3, <3>1, <3>3, <4>1, <4>2, KeptStates DEF Dozing
    <3> QED
      BY <1>3, <3>2, <3>3 DEF Dozing, InNight
  <2>2. CASE x = p
    <3>1. Ready(p, "idle")' /\ Kept(b)
      BY <1>3, <2>2, PeerIdles DEF Dozing
    <3>2. Dozing(b, f)'
      BY <1>1, <1>3, <3>1, KeptStates DEF Dozing, Kept
    <3> QED
      BY <3>2 DEF InNight
  <2> QED
    BY <1>2, <2>1, <2>2
<1>4. CASE Resting(b, f)
  <2>1. CASE x = b
    <3>1. PICK m \in Asleep : Ready(b, m)
      BY <1>4 DEF Resting
    <3>2. Kept(p)
      BY <2>1, <3>1, PeerKept DEF Ready, Rests, Asleep
    <3>3. /\ \E n \in Asleep : Rests(b, n)'
          /\ UNCHANGED <<poked, out, edges>>
      BY <2>1, <3>1, SleepMoves DEF Ready
    <3>4. \E n \in Asleep : Ready(b, n)'
      BY <3>1, <3>3 DEF Ready, Tidy
    <3>5. Resting(b, f)'
      BY <1>1, <1>4, <3>2, <3>3, <3>4, KeptStates DEF Resting
    <3> QED
      BY <3>5 DEF InNight
  <2>2. CASE x = p
    <3>1. Ready(p, "idle")' /\ Kept(b)
      BY <1>4, <2>2, PeerIdles DEF Resting
    <3>2. Resting(b, f)'
      BY <1>1, <1>4, <3>1, KeptStates DEF Resting, Kept
    <3> QED
      BY <3>2 DEF InNight
  <2> QED
    BY <1>2, <2>1, <2>2
<1>5. CASE Sleeping(b, f)
  <2>1. x = p
    BY <1>2, <1>5, StaysStill DEF Sleeping, Ready
  <2>2. Ready(p, "idle")' /\ Kept(b)
    BY <1>5, <2>1, PeerIdles DEF Sleeping
  <2>3. Sleeping(b, f)'
    BY <1>1, <1>5, <2>2, KeptStates DEF Sleeping, Kept
  <2> QED
    BY <2>3 DEF InNight
<1>6. ASSUME Awake(b), x = b  PROVE Awake(b)' /\ Kept(p)
  <2>1. ~Said(b, "idle", "WOKE", 1)
    BY <1>6, StaysStill DEF Said
  <2>2. Ready(b, "woken") /\ edges[b] = 1
    BY <2>1, <1>6 DEF Awake
  <2>3. Said(b, "idle", "WOKE", 1)'
    BY <1>6, <2>2, WokenMoves
  <2>4. Kept(p)
    BY <1>6, <2>2, PeerKept DEF Ready, Rests
  <2> QED
    BY <2>3, <2>4 DEF Awake
<1>7. ASSUME Awake(b), Kept(b)  PROVE Awake(b)'
  BY <1>7, KeptStates DEF Awake, Kept
<1>8. CASE InWaking(b, f)
  <2>1. CASE Ready(b, "asleep") /\ edges[b] = 0 /\ Told(p, "idle", "1")
    <3>1. x = p
      BY <1>2, <2>1, StaysStill DEF Ready
    <3>2. "1" \notin {"none", "overrun", "q"}
      OBVIOUS
    <3>3. Told(p, "idle", "1")' \/ (rx[p] = "1" /\ wire[p] = <<>> /\ Executes(p))
      BY <1>2, <2>1, <3>1, <3>2, ToldMoves
    <3>4. Told(p, "idle", "1")' \/ (Ready(p, "pulsing")' /\ good'[p] /\ left'[p] = 1)
      BY <1>2, <2>1, <3>3, PulsesOnce DEF Told
    <3>5. Kept(b)
      BY <1>2, <2>1, <3>1, PeerKept DEF Told
    <3>6. InWaking(b, f)'
      BY <1>1, <1>8, <2>1, <3>4, <3>5, KeptStates DEF InWaking, Kept
    <3> QED
      BY <3>6 DEF InNight
  <2>2. CASE Ready(b, "asleep") /\ edges[b] = 0 /\ Ready(p, "pulsing") /\ good[p] /\ left[p] = 1
    <3>1. x = p
      BY <1>2, <2>2, StaysStill DEF Ready
    <3>2. /\ Ready(p, "pulsing")' /\ good'[p] /\ left'[p] = 0
          /\ Ready(b, "woken")' /\ edges'[b] = 1
      BY <1>2, <2>2, <3>1, BusyWakes
    <3>3. InWaking(b, f)'
      BY <1>1, <1>8, <3>2 DEF InWaking, Awake
    <3> QED
      BY <3>3 DEF InNight
  <2>3. CASE Awake(b) /\ Ready(p, "pulsing") /\ good[p] /\ left[p] = 0
    <3>1. CASE x = b
      BY <1>1, <1>6, <1>8, <2>3, <3>1, KeptStates DEF InWaking, Kept, InNight
    <3>2. CASE x = p
      <4>1. Kept(b)
        BY <1>2, <2>3, <3>2, PeerKept
      <4>2. Said(p, "idle", "PULSED", TRUE)'
        BY <1>2, <2>3, <3>2, BusyDone DEF Busy, Result
      <4>3. InWaking(b, f)'
        BY <1>1, <1>7, <1>8, <2>3, <4>1, <4>2 DEF InWaking
      <4> QED
        BY <4>3 DEF InNight
    <3> QED
      BY <1>2, <3>1, <3>2
  <2>4. CASE Awake(b) /\ Said(p, "idle", "PULSED", TRUE)
    <3>1. x = b
      BY <1>2, <2>4, StaysStill DEF Said
    <3>2. InWaking(b, f)'
      BY <1>1, <1>6, <1>8, <2>4, <3>1, KeptStates DEF InWaking
    <3> QED
      BY <3>2 DEF InNight
  <2> QED
    BY <1>8, <2>1, <2>2, <2>3, <2>4 DEF InWaking
<1>9. CASE InWoken(b, f)
  <2>1. CASE x = b
    <3>1. InWoken(b, f)'
      BY <1>1, <1>6, <1>9, <2>1, KeptStates DEF InWoken
    <3> QED
      BY <3>1 DEF InNight
  <2>2. CASE x = p
    <3>1. Ready(p, "idle")' /\ Kept(b)
      BY <1>9, <2>2, PeerIdles DEF InWoken
    <3>2. InWoken(b, f)'
      BY <1>1, <1>7, <1>9, <3>1 DEF InWoken
    <3> QED
      BY <3>2 DEF InNight
  <2> QED
    BY <1>2, <2>1, <2>2
<1> QED
  BY <1>3, <1>4, <1>5, <1>8, <1>9 DEF InNight

\* or between two parts.
LEMMA RestMoves ==
    ASSUME TypesInv, NEW f, AtRest(f), NEW x \in Board, Moves(x)
    PROVE  AtRest(f)'
<1>1. UNCHANGED todo
  BY HostKept
<1>2. Ready(x, "idle")' /\ Kept(Peer(x))
  BY IdleMoves, PeerKept DEF AtRest, Ready, Rests
<1>3. ASSUME NEW y \in Board  PROVE Ready(y, "idle")'
  BY <1>2, PeerFacts, KeptStates DEF AtRest
<1> QED
  BY <1>1, <1>3 DEF AtRest

\* that of a child taken up with something latched,
LEMMA TaintKept ==
    ASSUME TypesInv, NEW b \in Board, Moves(b), rx[b] # "s"
    PROVE  UNCHANGED tainted
BY DEF Moves, Arrive, Announce, board, Executes, Boot, Discard, Reply, ServeI2c, TestI2c, ServeEcho,
       Initiate, Count, Pulse, Capture, Leave, Exchange, Edge, Finish, Doze, FallAsleep, Wake, Take

LEMMA SpoiledMoves ==
    ASSUME Burst \in Nat \ {0}, TypesInv, BoardInv, \A y \in Board : open[y], NEW f, Spoiled(f),
           NEW x \in Board, Moves(x)
    PROVE  Spoiled(f)'
<1> DEFINE c == "child"
           p == "parent"
<1>1. UNCHANGED todo /\ c \in Board /\ p \in Board /\ Peer(c) = p /\ Peer(p) = c
      /\ x \in {c, p} /\ "slave" \in SubMode
  BY HostKept DEF Board, Peer, SubMode
<1>2. tainted'[c]
  <2>1. CASE x = p
    BY <1>1, <2>1, MovesApart DEF Apart, Spoiled
  <2>2. CASE x = c
    <3>1. rx[c] # "s"
      BY <1>1 DEF Spoiled, SpoiledEntering, SpoiledEntered, SpoiledDrive, SpoiledServed,
         SpoiledLeaving, Dumping, AtRest, InAsking, Said, Ready, Rests, Told
    <3> QED
      BY <2>2, <3>1, TaintKept DEF Spoiled
  <2> QED
    BY <1>1, <2>1, <2>2
<1>3. CASE SpoiledEntering(f) \/ SpoiledEntered(f) \/ SpoiledServed(f)
  <2>1. Rests(c, "slave") /\ Ready(p, "idle")
    BY <1>3 DEF SpoiledEntering, SpoiledEntered, SpoiledServed, Said, Ready
  <2>2. x = p
    BY <1>1, <2>1, StaysStill
  <2>3. Ready(p, "idle")' /\ Kept(c)
    BY <1>1, <2>1, <2>2, PeerIdles
  <2>4. tally'[c] = tally[c]
    BY <2>3 DEF Kept
  <2>5. SpoiledEntering(f)' \/ SpoiledEntered(f)' \/ SpoiledServed(f)'
    BY <1>1, <1>3, <2>3, <2>4, KeptStates DEF SpoiledEntering, SpoiledEntered, SpoiledServed
  <2> QED
    BY <1>2, <2>5 DEF Spoiled
<1>4. CASE SpoiledDrive(f)
  <2>1. x = p /\ Ready(c, "slave")
    BY <1>1, <1>4, StaysStill DEF SpoiledDrive, Ready
  <2>2. CASE Told(p, "idle", "m")
    <3>1. "m" \notin {"none", "overrun", "q"} /\ Drive["slave"] = "m" /\ Driver["slave"] = "testing"
      BY DEF Drive, Driver
    <3>2. Kept(c)
      BY <1>1, <2>1, <2>2, PeerKept DEF Told
    <3>3. Told(p, "idle", "m")' \/ (rx[p] = "m" /\ wire[p] = <<>> /\ Executes(p))
      BY <1>1, <2>1, <2>2, <3>1, ToldMoves
    <3>4. Told(p, "idle", "m")' \/ Ready(p, "testing")'
      BY <1>1, <2>2, <3>1, <3>3, Drives DEF Told
    <3> QED
      BY <1>1, <1>2, <1>4, <2>1, <3>2, <3>4, KeptStates DEF SpoiledDrive, Spoiled
  <2>3. CASE Ready(p, "testing") /\ left[p] > 0
    <3>1. Ready(p, "testing")' /\ Ready(c, "slave")'
      BY <1>1, <2>1, <2>3, BusySpoiled
    <3> QED
      BY <1>1, <1>2, <1>4, <3>1 DEF SpoiledDrive, Spoiled
  <2>4. CASE Ready(p, "testing") /\ left[p] = 0
    <3>1. "testing" \in Busy /\ Result["testing"] = "I2C_TEST_END"
      BY DEF Busy, Result
    <3>2. Kept(c)
      BY <1>1, <2>1, <2>4, PeerKept
    <3>3. PICK v : good[p] = v
      OBVIOUS
    <3>4. Said(p, "idle", Result["testing"], v)'
      BY <1>1, <2>1, <2>4, <3>1, <3>3, BusyEnds
    <3>5. \E w : Said(p, "idle", "I2C_TEST_END", w)'
      BY <3>1, <3>4
    <3> QED
      BY <1>1, <1>2, <1>4, <2>1, <3>2, <3>5, KeptStates DEF SpoiledDrive, Spoiled
  <2>5. ~\E v : Said(p, "idle", "I2C_TEST_END", v)
    BY <1>1, <2>1, StaysStill DEF Said
  <2>6. left[p] \in Nat
    BY <1>1 DEF TypesInv
  <2> QED
    BY <1>4, <2>2, <2>3, <2>4, <2>5, <2>6 DEF SpoiledDrive
<1>5. CASE SpoiledLeaving(f)
  <2>1. CASE x = c
    <3>1. Told(c, "slave", "q")
      BY <1>1, <1>5, <2>1, StaysStill DEF SpoiledLeaving, Said
    <3>2. Kept(p)
      BY <1>1, <2>1, <3>1, PeerKept DEF Told
    <3>3. PICK n : Counted("slave", c) = n
      OBVIOUS
    <3>4. Told(c, "slave", "q")' \/ (rx[c] = "q" /\ wire[c] = <<>> /\ Executes(c))
      BY <1>1, <2>1, <3>1, ToldMoves
    <3>5. Told(c, "slave", "q")' \/ Said(c, "idle", Stats["slave"], n)'
      BY <1>1, <2>1, <3>1, <3>3, <3>4, Leaves DEF Told
    <3> QED
      BY <1>1, <1>2, <1>5, <3>2, <3>5, KeptStates DEF SpoiledLeaving, Spoiled
  <2>2. CASE x = p
    <3>1. Ready(p, "idle")' /\ Kept(c)
      BY <1>1, <1>5, <2>2, PeerIdles DEF SpoiledLeaving
    <3> QED
      BY <1>1, <1>2, <1>5, <3>1, KeptStates DEF SpoiledLeaving, Spoiled
  <2> QED
    BY <1>1, <2>1, <2>2
<1>6. CASE Dumping
  <2>1. Dumping'
    <3>1. "B" \in Questions
      BY DEF Questions
    <3> QED
      BY <1>1, <1>6, <3>1, RestMoves, AskingMoves DEF Dumping
  <2> QED
    BY <1>2, <2>1 DEF Spoiled
<1> QED
  BY <1>3, <1>4, <1>5, <1>6 DEF Spoiled

\* A step of a board keeps SuiteInv.
LEMMA MovesSuite ==
    ASSUME Burst \in Nat \ {0}, TypesInv, BoardInv, SuiteInv, NEW x \in Board, Moves(x)
    PROVE  SuiteInv'
<1>1. UNCHANGED <<phase, open>>
  BY HostKept
<1>2. SUFFICES ASSUME phase = "suites"
               PROVE  SuiteInv'
  BY <1>1 DEF SuiteInv
<1>3. \A y \in Board : open[y]
  BY <1>2 DEF SuiteInv
<1>4. PICK f \in Scripts : InScript(f) \/ Spoiled(f)
  BY <1>2 DEF SuiteInv
<1>5. CASE InScript(f)
  <2>1. \/ AtRest(f)'
        \/ \E b \in Board :
             \/ \E c \in Questions : InAsking(b, c, f)'
             \/ InMeasuring(b, f)'
             \/ \E m \in SubMode : Serves(m, b) /\ (InSession(m, b, f)' \/ Spoiled(f)')
             \/ InNight(b, f)'
    BY <1>3, <1>5, RestMoves, AskingMoves, MeasuringMoves, SessionMoves, NightMoves DEF InScript
  <2> QED
    BY <1>1, <1>3, <2>1 DEF SuiteInv, InScript, Serves
<1>6. CASE Spoiled(f)
  BY <1>1, <1>3, <1>6, SpoiledMoves DEF SuiteInv
<1> QED
  BY <1>4, <1>5, <1>6
-----------------------------------------------------------------------------
\* A step of the host in a suite.
Proceeds ==
    \/ SendCommand \/ Sleep500 \/ ReadLine \/ GiveUp
    \/ \E s \in DOMAIN Suites : BeginSuite(s)

\* The fields of a step tell which it is.
LEMMA StepFields ==
    ASSUME NEW b, NEW w, NEW v
    PROVE  /\ SendStep(b, w).act = "send" /\ SendStep(b, w).on = b /\ SendStep(b, w).what = w
           /\ Expect(b, w, v).act = "expect" /\ Expect(b, w, v).on = b
           /\ Expect(b, w, v).what = w /\ Expect(b, w, v).value = v
           /\ Nap(b).act = "nap" /\ Nap(b).on = b
           /\ Look(b, w).act = "look" /\ Look(b, w).on = b /\ Look(b, w).what = w
           /\ GivenUp.act = "fail"
BY DEF SendStep, Expect, Nap, Look, GivenUp

\* When a command is next, the host sends it, to a board that is ready;
LEMMA NextIsSend ==
    ASSUME TypesInv, NEW b \in Board, NEW c \in Words, NEW g \in Seq(Steps),
           todo = Then(SendStep(b, c), g), Proceeds, NEW m, Ready(b, m)
    PROVE  /\ todo' = g /\ Told(b, m, c)' /\ Kept(Peer(b))
           /\ UNCHANGED <<board, phase, open>>
<1>1. todo # <<>> /\ Head(todo) = SendStep(b, c) /\ Tail(todo) = g
  BY SendThen
<1>2. Head(todo).act = "send" /\ Head(todo).on = b /\ Head(todo).what = c
  BY <1>1, StepFields
<1>3. SendCommand
  BY <1>1, <1>2 DEF Proceeds, Sleep500, ReadLine, GiveUp, BeginSuite, Doing
<1>4. UNCHANGED <<board, phase, out, open>> /\ todo' = g
      /\ wire' = [wire EXCEPT ![b] = Append(@, c)]
  BY <1>1, <1>2, <1>3 DEF SendCommand, Doing, Send
<1>5. wire[b] = <<>>
  BY DEF Ready, Rests
<1>6. wire'[b] = <<c>> /\ wire'[Peer(b)] = wire[Peer(b)]
  <2>1. wire'[b] = Append(<<>>, c)
    BY <1>4, <1>5 DEF TypesInv
  <2> QED
    BY <1>4, <2>1, OneLine, PeerFacts DEF TypesInv
<1>7. Told(b, m, c)'
  BY <1>4, <1>6 DEF Ready, Rests, Tidy, Told, board
<1>8. Kept(Peer(b))
  BY <1>4, <1>6 DEF board, Kept
<1> QED
  BY <1>4, <1>7, <1>8

\* when a nap is next, it naps until the board sleeps;
LEMMA NextIsNap ==
    ASSUME TypesInv, NEW b \in Board, NEW g \in Seq(Steps), todo = Then(Nap(b), g), Proceeds
    PROVE  /\ todo' = g /\ mode[b] = "asleep"
           /\ UNCHANGED <<board, line, phase>>
<1>1. todo # <<>> /\ Head(todo) = Nap(b) /\ Tail(todo) = g
  BY NapThen
<1>2. Head(todo).act = "nap" /\ Head(todo).on = b
  BY <1>1, StepFields
<1>3. Sleep500
  BY <1>1, <1>2 DEF Proceeds, SendCommand, ReadLine, GiveUp, BeginSuite, Doing
<1> QED
  BY <1>1, <1>2, <1>3 DEF Sleep500, Doing

\* when an expectation is next, it reads a line,
LEMMA NextIsExpect ==
    ASSUME TypesInv, NEW b \in Board, NEW t \in Words, NEW v \in Values, NEW g \in Seq(Steps),
           todo = Then(Expect(b, t, v), g), Proceeds
    PROVE  /\ out[b] # <<>> /\ out'[b] = Tail(out[b])
           /\ \/ Head(out[b])[1] # t /\ UNCHANGED <<todo, phase>>
              \/ Head(out[b])[1] = t /\ Head(out[b])[2] = v /\ todo' = g /\ UNCHANGED phase
              \/ /\ Head(out[b])[1] = t /\ Head(out[b])[2] # v /\ t = "I2C_TEST_END"
                 /\ todo' = PostMortem /\ UNCHANGED phase
              \/ /\ Head(out[b])[1] = t /\ Head(out[b])[2] # v /\ t # "I2C_TEST_END"
                 /\ phase' = "failed" /\ UNCHANGED todo
           /\ Kept(Peer(b)) /\ UNCHANGED <<board, wire, open>>
<1>1. todo # <<>> /\ Head(todo) = Expect(b, t, v) /\ Tail(todo) = g
  BY ExpectThen, Zenon
<1>2. Head(todo).act = "expect" /\ Head(todo).on = b /\ Head(todo).what = t /\ Head(todo).value = v
  BY <1>1 DEF Expect
<1>3. ReadLine
  BY <1>1, <1>2 DEF Proceeds, SendCommand, Sleep500, GiveUp, BeginSuite, Doing
<1>4. /\ out[b] # <<>> /\ out' = [out EXCEPT ![b] = Tail(@)]
      /\ \/ Head(out[b])[1] # t /\ UNCHANGED <<todo, phase>>
         \/ Head(out[b])[1] = t /\ Head(out[b])[2] = v /\ todo' = g /\ UNCHANGED phase
         \/ /\ Head(out[b])[1] = t /\ Head(out[b])[2] # v /\ t = "I2C_TEST_END"
            /\ todo' = PostMortem /\ UNCHANGED phase
         \/ /\ Head(out[b])[1] = t /\ Head(out[b])[2] # v /\ t # "I2C_TEST_END"
            /\ phase' = "failed" /\ UNCHANGED todo
      /\ UNCHANGED <<board, wire, open>>
  BY <1>1, <1>2, <1>3 DEF ReadLine
<1>5. out'[b] = Tail(out[b]) /\ out'[Peer(b)] = out[Peer(b)]
  BY <1>4, PeerFacts DEF TypesInv
<1>6. Kept(Peer(b))
  BY <1>4, <1>5 DEF Kept, board
<1> QED
  BY <1>4, <1>5, <1>6, Zenon

\* and so when it looks for one.
LEMMA NextIsLook ==
    ASSUME TypesInv, NEW b \in Board, NEW t \in Words, NEW g \in Seq(Steps),
           todo = Then(Look(b, t), g), Proceeds
    PROVE  /\ out[b] # <<>> /\ out'[b] = Tail(out[b])
           /\ \/ Head(out[b])[1] # t /\ UNCHANGED todo
              \/ Head(out[b])[1] = t /\ todo' = g
           /\ Kept(Peer(b)) /\ UNCHANGED <<board, wire, open, phase>>
<1>1. todo # <<>> /\ Head(todo) = Look(b, t) /\ Tail(todo) = g
  BY LookThen, Zenon
<1>2. Head(todo).act = "look" /\ Head(todo).on = b /\ Head(todo).what = t
  BY <1>1 DEF Look
<1>3. ReadLine
  BY <1>1, <1>2 DEF Proceeds, SendCommand, Sleep500, GiveUp, BeginSuite, Doing
<1>4. /\ out[b] # <<>> /\ out' = [out EXCEPT ![b] = Tail(@)]
      /\ \/ Head(out[b])[1] # t /\ UNCHANGED todo
         \/ Head(out[b])[1] = t /\ todo' = g
      /\ UNCHANGED <<board, wire, open, phase>>
  BY <1>1, <1>2, <1>3 DEF ReadLine
<1>5. out'[b] = Tail(out[b]) /\ out'[Peer(b)] = out[Peer(b)]
  BY <1>4, PeerFacts DEF TypesInv
<1>6. Kept(Peer(b))
  BY <1>4, <1>5 DEF Kept, board
<1> QED
  BY <1>4, <1>5, <1>6, Zenon

\* The lines a board has under way.
LEMMA Lines ==
    ASSUME NEW b
    PROVE  /\ Tidy(b) /\ out[b] # <<>> => Head(out[b])[1] = "READY" /\ Tail(out[b]) = <<>>
           /\ \A t, v : out[b] = <<<<t, v>>>> =>
                Head(out[b])[1] = t /\ Head(out[b])[2] = v /\ Tail(out[b]) = <<>>
           /\ \A t, v : out[b] = <<<<"READY", b>>, <<t, v>>>> =>
                Head(out[b])[1] = "READY" /\ Tail(out[b]) = <<<<t, v>>>>
<1>1. ASSUME NEW t, NEW v, out[b] = <<<<t, v>>>>
      PROVE  Head(out[b])[1] = t /\ Head(out[b])[2] = v /\ Tail(out[b]) = <<>>
  <2>1. Head(out[b]) = <<t, v>> /\ Tail(out[b]) = <<>>
    BY <1>1, OneLine
  <2> QED
    BY <2>1
<1>2. ASSUME NEW t, NEW v, out[b] = <<<<"READY", b>>, <<t, v>>>>
      PROVE  Head(out[b])[1] = "READY" /\ Tail(out[b]) = <<<<t, v>>>>
  <2>1. Head(out[b]) = <<"READY", b>> /\ Tail(out[b]) = <<<<t, v>>>>
    BY <1>2, OneLine
  <2> QED
    BY <2>1
<1>3. Tidy(b) /\ out[b] # <<>> => out[b] = <<<<"READY", b>>>>
  BY DEF Tidy
<1> QED
  BY <1>1, <1>2, <1>3, Zenon

\* An announcement is passed over,
LEMMA ReadsTidy ==
    ASSUME TypesInv, NEW b \in Board, NEW t \in Words, NEW v \in Values, NEW g \in Seq(Steps),
           todo = Then(Expect(b, t, v), g), t # "READY", Proceeds, Tidy(b)
    PROVE  UNCHANGED <<todo, phase, board, wire, open>> /\ out'[b] = <<>> /\ Kept(Peer(b))
<1>1. Head(out[b])[1] # t /\ Tail(out[b]) = <<>>
  <2>1. out[b] # <<>>
    BY NextIsExpect
  <2> QED
    BY <2>1, Lines
<1> QED
  BY <1>1, NextIsExpect, Zenon

LEMMA LooksTidy ==
    ASSUME TypesInv, NEW b \in Board, NEW t \in Words, NEW g \in Seq(Steps),
           todo = Then(Look(b, t), g), t # "READY", Proceeds, Tidy(b)
    PROVE  UNCHANGED <<todo, phase, board, wire, open>> /\ out'[b] = <<>> /\ Kept(Peer(b))
<1>1. Head(out[b])[1] # t /\ Tail(out[b]) = <<>>
  <2>1. out[b] # <<>>
    BY NextIsLook
  <2> QED
    BY <2>1, Lines
<1> QED
  BY <1>1, NextIsLook, Zenon

\* and the line of that name is taken, with the value expected or with another.
LEMMA ReadsAny ==
    ASSUME TypesInv, NEW b \in Board, NEW t \in Words, NEW v \in Values, NEW g \in Seq(Steps),
           todo = Then(Expect(b, t, v), g), t # "READY", Proceeds, NEW m, NEW n, Said(b, m, t, n)
    PROVE  /\ UNCHANGED <<board, wire, open>> /\ Kept(Peer(b))
           /\ \/ UNCHANGED <<todo, phase>> /\ Said(b, m, t, n)'
              \/ Ready(b, m)' /\ n = v /\ todo' = g /\ UNCHANGED phase
              \/ /\ Ready(b, m)' /\ n # v /\ t = "I2C_TEST_END"
                 /\ todo' = PostMortem /\ UNCHANGED phase
              \/ /\ Ready(b, m)' /\ n # v /\ t # "I2C_TEST_END"
                 /\ phase' = "failed" /\ UNCHANGED todo
<1>1. UNCHANGED <<board, wire, open>> /\ Kept(Peer(b)) /\ out'[b] = Tail(out[b])
  BY NextIsExpect, Zenon
<1>2. CASE out[b] = <<<<t, n>>>>
  <2>1. Head(out[b])[1] = t /\ Head(out[b])[2] = n /\ Tail(out[b]) = <<>>
    BY <1>2, Lines
  <2>2. Ready(b, m)'
    BY <1>1, <2>1 DEF Said, Ready, Rests, Tidy, board
  <2>3. \/ n = v /\ todo' = g /\ UNCHANGED phase
        \/ n # v /\ t = "I2C_TEST_END" /\ todo' = PostMortem /\ UNCHANGED phase
        \/ n # v /\ t # "I2C_TEST_END" /\ phase' = "failed" /\ UNCHANGED todo
    <3>1. \/ UNCHANGED <<todo, phase>> /\ Head(out[b])[1] # t
          \/ Head(out[b])[2] = v /\ todo' = g /\ UNCHANGED phase
          \/ /\ Head(out[b])[2] # v /\ t = "I2C_TEST_END"
             /\ todo' = PostMortem /\ UNCHANGED phase
          \/ /\ Head(out[b])[2] # v /\ t # "I2C_TEST_END"
             /\ phase' = "failed" /\ UNCHANGED todo
      BY NextIsExpect
    <3> QED
      BY <2>1, <3>1
  <2> QED
    BY <1>1, <2>2, <2>3, Zenon
<1>3. CASE out[b] = <<<<"READY", b>>, <<t, n>>>>
  <2>1. Head(out[b])[1] = "READY" /\ Tail(out[b]) = <<<<t, n>>>>
    BY <1>3, Lines
  <2>2. UNCHANGED <<todo, phase>>
    BY <2>1, NextIsExpect, Zenon
  <2>3. Said(b, m, t, n)'
    BY <1>1, <2>1 DEF Said, Rests, board
  <2> QED
    BY <1>1, <2>2, <2>3, Zenon
<1> QED
  BY <1>2, <1>3 DEF Said

LEMMA ReadsAnswer ==
    ASSUME TypesInv, NEW b \in Board, NEW t \in Words, NEW v \in Values, NEW g \in Seq(Steps),
           todo = Then(Expect(b, t, v), g), t # "READY", Proceeds, NEW m, Said(b, m, t, v)
    PROVE  /\ UNCHANGED <<phase, board, wire, open>> /\ Kept(Peer(b))
           /\ \/ UNCHANGED todo /\ Said(b, m, t, v)'
              \/ todo' = g /\ Ready(b, m)'
<1>1. /\ UNCHANGED <<board, wire, open>> /\ Kept(Peer(b))
      /\ \/ UNCHANGED <<todo, phase>> /\ Said(b, m, t, v)'
         \/ Ready(b, m)' /\ v = v /\ todo' = g /\ UNCHANGED phase
         \/ v # v
  BY ReadsAny
<1> QED
  BY <1>1

LEMMA LooksAnswer ==
    ASSUME TypesInv, NEW b \in Board, NEW t \in Words, NEW g \in Seq(Steps),
           todo = Then(Look(b, t), g), t # "READY", Proceeds, NEW m, NEW n, Said(b, m, t, n)
    PROVE  /\ UNCHANGED <<phase, board, wire, open>> /\ Kept(Peer(b))
           /\ \/ UNCHANGED todo /\ Said(b, m, t, n)'
              \/ todo' = g /\ Ready(b, m)'
<1>1. UNCHANGED <<board, wire, open, phase>> /\ Kept(Peer(b)) /\ out'[b] = Tail(out[b])
  BY NextIsLook, Zenon
<1>2. CASE out[b] = <<<<t, n>>>>
  <2>1. Head(out[b])[1] = t /\ Tail(out[b]) = <<>>
    BY <1>2, Lines
  <2>2. Ready(b, m)'
    BY <1>1, <2>1 DEF Said, Ready, Rests, Tidy, board
  <2>3. todo' = g
    BY <2>1, NextIsLook, Zenon
  <2> QED
    BY <1>1, <2>2, <2>3
<1>3. CASE out[b] = <<<<"READY", b>>, <<t, n>>>>
  <2>1. Head(out[b])[1] = "READY" /\ Tail(out[b]) = <<<<t, n>>>>
    BY <1>3, Lines
  <2>2. UNCHANGED todo
    BY <2>1, NextIsLook, Zenon
  <2>3. Said(b, m, t, n)'
    BY <1>1, <2>1 DEF Said, Rests, board
  <2> QED
    BY <1>1, <2>2, <2>3
<1> QED
  BY <1>2, <1>3 DEF Said
-----------------------------------------------------------------------------
\* No answer is an announcement.
LEMMA NeverReady ==
    /\ \A c \in Questions : Answer[c] # "READY"
    /\ \A m \in SubMode : On[m] # "READY" /\ Result[Driver[m]] # "READY" /\ Stats[m] # "READY"
BY DEF Questions, Answer, SubMode, On, Result, Driver, Stats

\* To read its announcement changes nothing that is said of a board.
LEMMA RestsStill ==
    ASSUME NEW b, UNCHANGED <<board, wire>>, out'[b] = <<>>
    PROVE  /\ \A m, c : Told(b, m, c) => Told(b, m, c)'
           /\ \A m : Ready(b, m) => Ready(b, m)'
           /\ \A m : Counted(m, b)' = Counted(m, b) /\ (Fair(m, b) => Fair(m, b)')
BY DEF board, Told, Ready, Rests, Tidy, Counted, Fair

\* A step of the host moves it on in the part it is in, or past its end: a question,
LEMMA AskingProceeds ==
    ASSUME TypesInv, NEW b \in Board, NEW c \in Questions, NEW f \in Seq(Steps), InAsking(b, c, f),
           Proceeds
    PROVE  UNCHANGED <<phase, open>> /\ (InAsking(b, c, f)' \/ AtRest(f)')
<1>1. Answer[c] \in Words /\ b \in Values /\ Answer[c] # "READY"
  BY WordsAre, ValuesAre, NeverReady
<1>2. todo = Then(Expect(b, Answer[c], b), f) /\ Ready(Peer(b), "idle")
  BY DEF InAsking
<1>3. CASE Told(b, "idle", c)
  <2>1. UNCHANGED <<todo, phase, board, wire, open>> /\ out'[b] = <<>> /\ Kept(Peer(b))
    BY <1>1, <1>2, <1>3, ReadsTidy DEF Told
  <2> QED
    BY <1>2, <1>3, <2>1, RestsStill, KeptStates DEF InAsking
<1>4. CASE Said(b, "idle", Answer[c], b)
  <2>1. /\ UNCHANGED <<phase, board, wire, open>> /\ Kept(Peer(b))
        /\ \/ UNCHANGED todo /\ Said(b, "idle", Answer[c], b)'
           \/ todo' = f /\ Ready(b, "idle")'
    BY <1>1, <1>2, <1>4, ReadsAnswer
  <2>2. Ready(Peer(b), "idle")'
    BY <1>2, <2>1, KeptStates
  <2> QED
    BY <1>2, <2>1, <2>2, PeerFacts DEF InAsking, AtRest
<1> QED
  BY <1>3, <1>4 DEF InAsking

LEMMA AskingBegins ==
    ASSUME TypesInv, NEW b \in Board, NEW c \in Questions, NEW f \in Seq(Steps),
           AtRest(Asking(b, c, f)), Proceeds
    PROVE  UNCHANGED <<phase, open>> /\ InAsking(b, c, f)'
<1>1. c \in Words /\ Then(Expect(b, Answer[c], b), f) \in Seq(Steps)
  BY WordsAre, ValuesAre, ExpectThen, Zenon
<1>2. /\ todo = Then(SendStep(b, c), Then(Expect(b, Answer[c], b), f))
      /\ Ready(b, "idle") /\ Ready(Peer(b), "idle")
  BY PeerFacts DEF AtRest, Asking
<1>3. /\ todo' = Then(Expect(b, Answer[c], b), f) /\ Told(b, "idle", c)' /\ Kept(Peer(b))
      /\ UNCHANGED <<board, phase, open>>
  BY <1>1, <1>2, NextIsSend
<1>4. Ready(Peer(b), "idle")'
  BY <1>2, <1>3, KeptStates
<1> QED
  BY <1>3, <1>4 DEF InAsking

\* a measurement,
LEMMA MeasuringProceeds ==
    ASSUME TypesInv, NEW b \in Board, NEW f \in Scripts, InMeasuring(b, f), Proceeds
    PROVE  UNCHANGED <<phase, open>> /\ (InMeasuring(b, f)' \/ AtRest(f)')
<1>1. f \in Seq(Steps) /\ "CAP" \in Words /\ TRUE \in Values /\ "CAP" # "READY"
  BY ScriptsUnfold, WordsAre, ValuesAre
<1>2. todo = Then(Expect(b, "CAP", TRUE), f) /\ Ready(Peer(b), "idle")
  BY DEF InMeasuring
<1>3. CASE Told(b, "idle", "c") \/ (Ready(b, "measuring") /\ left[b] = 0 /\ good[b])
  <2>1. UNCHANGED <<todo, phase, board, wire, open>> /\ out'[b] = <<>> /\ Kept(Peer(b))
    BY <1>1, <1>2, <1>3, ReadsTidy DEF Told, Ready
  <2>2. Told(b, "idle", "c")' \/ (Ready(b, "measuring")' /\ left'[b] = 0 /\ good'[b])
    BY <1>3, <2>1, RestsStill DEF board
  <2> QED
    BY <1>2, <2>1, <2>2, KeptStates DEF InMeasuring
<1>4. CASE Said(b, "idle", "CAP", TRUE)
  <2>1. /\ UNCHANGED <<phase, board, wire, open>> /\ Kept(Peer(b))
        /\ \/ UNCHANGED todo /\ Said(b, "idle", "CAP", TRUE)'
           \/ todo' = f /\ Ready(b, "idle")'
    BY <1>1, <1>2, <1>4, ReadsAnswer
  <2>2. Ready(Peer(b), "idle")'
    BY <1>2, <2>1, KeptStates
  <2> QED
    BY <1>2, <2>1, <2>2, PeerFacts DEF InMeasuring, AtRest
<1> QED
  BY <1>3, <1>4 DEF InMeasuring

\* (the rests of a session are sequences of steps)
LEMMA SessionSeqs ==
    ASSUME Burst \in Nat, NEW b \in Board, NEW m \in SubMode, NEW f \in Seq(Steps)
    PROVE  /\ Leaving(m, b, f) \in Seq(Steps) /\ Driven(m, b, f) \in Seq(Steps)
           /\ Driving(m, b, f) \in Seq(Steps)
           /\ Then(Expect(b, On[m], 0), Driving(m, b, f)) \in Seq(Steps)
           /\ Then(Expect(b, Stats[m], Burst), f) \in Seq(Steps)
<1>1. /\ Enter[m] \in Words /\ On[m] \in Words /\ Drive[m] \in Words
      /\ Result[Driver[m]] \in Words /\ Stats[m] \in Words /\ "q" \in Words
  BY WordsAre
<1>2. 0 \in Values /\ Burst \in Values /\ TRUE \in Values /\ Peer(b) \in Board
  BY ValuesAre, PeerFacts
<1>3. Then(Expect(b, Stats[m], Burst), f) \in Seq(Steps)
  BY <1>1, <1>2, ExpectThen, Zenon
<1>4. Leaving(m, b, f) \in Seq(Steps)
  BY <1>1, <1>3, SendThen, Zenon DEF Leaving
<1>5. Driven(m, b, f) \in Seq(Steps)
  BY <1>1, <1>2, <1>4, ExpectThen, Zenon DEF Driven
<1>6. Driving(m, b, f) \in Seq(Steps)
  BY <1>1, <1>2, <1>5, SendThen, Zenon DEF Driving
<1>7. Then(Expect(b, On[m], 0), Driving(m, b, f)) \in Seq(Steps)
  BY <1>1, <1>2, <1>6, ExpectThen, Zenon
<1> QED
  BY <1>3, <1>4, <1>5, <1>6, <1>7

\* a session,
LEMMA SessionProceeds ==
    ASSUME Burst \in Nat \ {0}, TypesInv, NEW b \in Board, NEW m \in SubMode, NEW f \in Scripts,
           InSession(m, b, f), Proceeds
    PROVE  UNCHANGED <<phase, open>> /\ (InSession(m, b, f)' \/ AtRest(f)')
<1> DEFINE p == Peer(b)
<1>1. /\ On[m] \in Words /\ Drive[m] \in Words
      /\ Result[Driver[m]] \in Words /\ Stats[m] \in Words /\ "q" \in Words
  BY WordsAre
<1>2. 0 \in Values /\ Burst \in Values /\ TRUE \in Values /\ p \in Board /\ Peer(p) = b
  BY ValuesAre, PeerFacts
<1>3. f \in Seq(Steps) /\ On[m] # "READY" /\ Result[Driver[m]] # "READY" /\ Stats[m] # "READY"
  BY ScriptsUnfold, NeverReady
<1>4. /\ Leaving(m, b, f) \in Seq(Steps) /\ Driven(m, b, f) \in Seq(Steps)
      /\ Driving(m, b, f) \in Seq(Steps)
      /\ Then(Expect(b, On[m], 0), Driving(m, b, f)) \in Seq(Steps)
      /\ Then(Expect(b, Stats[m], Burst), f) \in Seq(Steps)
  BY <1>3, SessionSeqs
<1>5. CASE Entering(m, b, f)
  <2>1. todo = Then(Expect(b, On[m], 0), Driving(m, b, f)) /\ Ready(p, "idle")
    BY <1>5 DEF Entering
  <2>2. CASE Told(b, "idle", Enter[m])
    <3>1. UNCHANGED <<todo, phase, board, wire, open>> /\ out'[b] = <<>> /\ Kept(p)
      BY <1>1, <1>2, <1>3, <1>4, <2>1, <2>2, ReadsTidy DEF Told
    <3> QED
      BY <2>1, <2>2, <3>1, RestsStill, KeptStates DEF Entering, InSession
  <2>3. CASE Said(b, m, On[m], 0) /\ Counted(m, b) = 0 /\ Fair(m, b)
    <3>1. /\ UNCHANGED <<phase, board, wire, open>> /\ Kept(p)
          /\ \/ UNCHANGED todo /\ Said(b, m, On[m], 0)'
             \/ todo' = Driving(m, b, f) /\ Ready(b, m)'
      BY <1>1, <1>2, <1>3, <1>4, <2>1, <2>3, ReadsAnswer
    <3>2. Ready(p, "idle")' /\ Counted(m, b)' = 0 /\ Fair(m, b)'
      BY <2>1, <2>3, <3>1, KeptStates DEF Counted, Fair, board
    <3> QED
      BY <2>1, <3>1, <3>2 DEF Entering, Entered, InSession
  <2> QED
    BY <1>5, <2>2, <2>3 DEF Entering
<1>6. CASE Entered(m, b, f)
  <2>1. /\ todo = Then(SendStep(p, Drive[m]), Driven(m, b, f)) /\ Ready(p, "idle")
        /\ Ready(b, m) /\ Counted(m, b) = 0 /\ Fair(m, b)
    BY <1>6 DEF Entered, Driving
  <2>2. /\ todo' = Driven(m, b, f) /\ Told(p, "idle", Drive[m])' /\ Kept(b)
        /\ UNCHANGED <<board, phase, open>>
    BY <1>1, <1>2, <1>4, <2>1, NextIsSend
  <2>3. Ready(b, m)' /\ Counted(m, b)' = 0 /\ Fair(m, b)'
    BY <2>1, <2>2, KeptStates
  <2> QED
    BY <2>2, <2>3 DEF InDrive, InSession
<1>7. CASE InDrive(m, b, f)
  <2>1. todo = Then(Expect(p, Result[Driver[m]], TRUE), Leaving(m, b, f)) /\ Ready(b, m)
        /\ Fair(m, b)
    BY <1>7 DEF InDrive, Driven
  <2>2. CASE \/ Told(p, "idle", Drive[m]) /\ Counted(m, b) = 0
             \/ Ready(p, Driver[m]) /\ good[p] /\ Counted(m, b) + left[p] = Burst
    <3>1. UNCHANGED <<todo, phase, board, wire, open>> /\ out'[p] = <<>> /\ Kept(b)
      BY <1>1, <1>2, <1>3, <1>4, <2>1, <2>2, ReadsTidy DEF Told, Ready
    <3>2. Ready(b, m)' /\ Counted(m, b)' = Counted(m, b) /\ Fair(m, b)'
      BY <2>1, <3>1, KeptStates
    <3>3. left'[p] = left[p] /\ (good[p] => good'[p])
      BY <3>1 DEF board
    <3>4. \/ Told(p, "idle", Drive[m])' /\ Counted(m, b)' = 0
          \/ Ready(p, Driver[m])' /\ good'[p] /\ Counted(m, b)' + left'[p] = Burst
      BY <2>2, <3>1, <3>2, <3>3, RestsStill
    <3> QED
      BY <1>7, <3>1, <3>2, <3>4 DEF InDrive, InSession
  <2>3. CASE Said(p, "idle", Result[Driver[m]], TRUE) /\ Counted(m, b) = Burst
    <3>1. /\ UNCHANGED <<phase, board, wire, open>> /\ Kept(b)
          /\ \/ UNCHANGED todo /\ Said(p, "idle", Result[Driver[m]], TRUE)'
             \/ todo' = Leaving(m, b, f) /\ Ready(p, "idle")'
      BY <1>1, <1>2, <1>3, <1>4, <2>1, <2>3, ReadsAnswer
    <3>2. Ready(b, m)' /\ Counted(m, b)' = Burst /\ Fair(m, b)'
      BY <2>1, <2>3, <3>1, KeptStates
    <3> QED
      BY <1>7, <3>1, <3>2 DEF InDrive, Served, InSession
  <2> QED
    BY <1>7, <2>2, <2>3 DEF InDrive
<1>8. CASE Served(m, b, f)
  <2>1. /\ todo = Then(SendStep(b, "q"), Then(Expect(b, Stats[m], Burst), f))
        /\ Ready(p, "idle") /\ Ready(b, m) /\ Counted(m, b) = Burst
    BY <1>8 DEF Served, Leaving
  <2>2. /\ todo' = Then(Expect(b, Stats[m], Burst), f) /\ Told(b, m, "q")' /\ Kept(p)
        /\ UNCHANGED <<board, phase, open>>
    BY <1>1, <1>4, <2>1, NextIsSend
  <2>3. Ready(p, "idle")' /\ Counted(m, b)' = Burst
    BY <2>1, <2>2, KeptStates DEF Counted, board
  <2> QED
    BY <2>2, <2>3 DEF InLeaving, InSession
<1>9. CASE InLeaving(m, b, f)
  <2>1. todo = Then(Expect(b, Stats[m], Burst), f) /\ Ready(p, "idle")
    BY <1>9 DEF InLeaving
  <2>2. CASE Told(b, m, "q") /\ Counted(m, b) = Burst
    <3>1. UNCHANGED <<todo, phase, board, wire, open>> /\ out'[b] = <<>> /\ Kept(p)
      BY <1>1, <1>2, <1>3, <2>1, <2>2, ReadsTidy DEF Told
    <3> QED
      BY <2>1, <2>2, <3>1, RestsStill, KeptStates DEF InLeaving, InSession
  <2>3. CASE Said(b, "idle", Stats[m], Burst)
    <3>1. /\ UNCHANGED <<phase, board, wire, open>> /\ Kept(p)
          /\ \/ UNCHANGED todo /\ Said(b, "idle", Stats[m], Burst)'
             \/ todo' = f /\ Ready(b, "idle")'
      BY <1>1, <1>2, <1>3, <2>1, <2>3, ReadsAnswer
    <3>2. Ready(p, "idle")'
      BY <2>1, <3>1, KeptStates
    <3>3. todo' = f /\ Ready(b, "idle")' => AtRest(f)'
      BY <3>2, PeerFacts DEF AtRest
    <3> QED
      BY <2>1, <3>1, <3>2, <3>3 DEF InLeaving, InSession
  <2> QED
    BY <1>9, <2>2, <2>3 DEF InLeaving
<1> QED
  BY <1>5, <1>6, <1>7, <1>8, <1>9 DEF InSession

\* (and those of a night)
LEMMA NightSeqs ==
    ASSUME NEW b \in Board, NEW f \in Seq(Steps)
    PROVE  /\ Woken(b, f) \in Seq(Steps) /\ Waking(b, f) \in Seq(Steps)
           /\ Then(Expect(Peer(b), "PULSED", TRUE), Woken(b, f)) \in Seq(Steps)
           /\ Napping(b, f) \in Seq(Steps)
           /\ Then(Expect(b, "SLEEPING", 0), Napping(b, f)) \in Seq(Steps)
<1>1. {"1", "SLEEPING", "PULSED", "WOKE"} \subseteq Words
  BY WordsAre
<1>2. 0 \in Values /\ 1 \in Values /\ TRUE \in Values /\ Peer(b) \in Board
  BY ValuesAre, PeerFacts
<1>3. Woken(b, f) \in Seq(Steps)
  BY <1>1, <1>2, ExpectThen DEF Woken
<1>4. Then(Expect(Peer(b), "PULSED", TRUE), Woken(b, f)) \in Seq(Steps)
  BY <1>1, <1>2, <1>3, ExpectThen
<1>5. Waking(b, f) \in Seq(Steps)
  BY <1>1, <1>2, <1>4, SendThen DEF Waking
<1>6. Napping(b, f) \in Seq(Steps)
  BY <1>5, NapThen DEF Napping
<1>7. Then(Expect(b, "SLEEPING", 0), Napping(b, f)) \in Seq(Steps)
  BY <1>1, <1>2, <1>6, ExpectThen
<1> QED
  BY <1>3, <1>4, <1>5, <1>6, <1>7

\* a night.
LEMMA NightProceeds ==
    ASSUME TypesInv, NEW b \in Board, NEW f \in Scripts, InNight(b, f), Proceeds
    PROVE  UNCHANGED <<phase, open>> /\ (InNight(b, f)' \/ AtRest(f)')
<1> DEFINE p == Peer(b)
<1>1. "1" \in Words /\ "SLEEPING" \in Words /\ "PULSED" \in Words /\ "WOKE" \in Words
  BY WordsAre
<1>2. 0 \in Values /\ 1 \in Values /\ TRUE \in Values /\ p \in Board /\ Peer(p) = b
  BY ValuesAre, PeerFacts
<1>3. f \in Seq(Steps) /\ "SLEEPING" # "READY" /\ "PULSED" # "READY" /\ "WOKE" # "READY"
  BY ScriptsUnfold
<1>4. /\ Woken(b, f) \in Seq(Steps) /\ Waking(b, f) \in Seq(Steps)
      /\ Then(Expect(p, "PULSED", TRUE), Woken(b, f)) \in Seq(Steps)
      /\ Napping(b, f) \in Seq(Steps)
  BY <1>3, NightSeqs
<1>5. CASE Dozing(b, f)
  <2>1. todo = Then(Expect(b, "SLEEPING", 0), Napping(b, f)) /\ Ready(p, "idle")
    BY <1>5 DEF Dozing
  <2>2. CASE Told(b, "idle", "w")
    <3>1. UNCHANGED <<todo, phase, board, wire, open>> /\ out'[b] = <<>> /\ Kept(p)
      BY <1>1, <1>2, <1>3, <1>4, <2>1, <2>2, ReadsTidy DEF Told
    <3>2. Dozing(b, f)'
      BY <2>1, <2>2, <3>1, RestsStill, KeptStates DEF Dozing
    <3> QED
      BY <3>1, <3>2 DEF InNight
  <2>3. ASSUME NEW m \in Asleep, Said(b, m, "SLEEPING", 0), edges[b] = 0
        PROVE  UNCHANGED <<phase, open>> /\ (Dozing(b, f)' \/ Resting(b, f)')
    <3>1. /\ UNCHANGED <<phase, board, wire, open>> /\ Kept(p)
          /\ \/ UNCHANGED todo /\ Said(b, m, "SLEEPING", 0)'
             \/ todo' = Napping(b, f) /\ Ready(b, m)'
      BY <1>1, <1>2, <1>3, <1>4, <2>1, <2>3, ReadsAnswer
    <3>2. Ready(p, "idle")' /\ edges'[b] = 0
      BY <2>1, <2>3, <3>1, KeptStates DEF board
    <3> QED
      BY <2>1, <3>1, <3>2 DEF Dozing, Resting
  <2> QED
    BY <1>5, <2>2, <2>3 DEF Dozing, InNight
<1>6. CASE Resting(b, f)
  <2>1. todo = Then(Nap(b), Waking(b, f))
    BY <1>6 DEF Resting, Napping
  <2>2. /\ todo' = Waking(b, f) /\ mode[b] = "asleep"
        /\ UNCHANGED <<board, line, phase>>
    BY <1>4, <2>1, NextIsNap
  <2>3. Ready(b, "asleep") /\ Ready(p, "idle") /\ edges[b] = 0
    BY <1>6, <2>2 DEF Resting, Ready, Rests
  <2>4. Sleeping(b, f)'
    BY <2>2, <2>3 DEF Sleeping, Ready, Rests, Tidy, board, line
  <2> QED
    BY <2>2, <2>4 DEF InNight, line
<1>7. CASE Sleeping(b, f)
  <2>1. /\ todo = Then(SendStep(p, "1"), Then(Expect(p, "PULSED", TRUE), Woken(b, f)))
        /\ Ready(p, "idle") /\ Ready(b, "asleep") /\ edges[b] = 0
    BY <1>7 DEF Sleeping, Waking
  <2>2. /\ todo' = Then(Expect(p, "PULSED", TRUE), Woken(b, f))
        /\ Told(p, "idle", "1")' /\ Kept(b) /\ UNCHANGED <<board, phase, open>>
    BY <1>1, <1>2, <1>4, <2>1, NextIsSend
  <2>3. Ready(b, "asleep")' /\ edges'[b] = 0
    BY <2>1, <2>2, KeptStates DEF Kept
  <2>4. InWaking(b, f)'
    BY <2>2, <2>3 DEF InWaking
  <2> QED
    BY <2>2, <2>4 DEF InNight
<1>8. ASSUME Awake(b), Kept(b)  PROVE Awake(b)'
  BY <1>8, KeptStates DEF Awake, Kept
<1>9. CASE InWaking(b, f)
  <2>1. todo = Then(Expect(p, "PULSED", TRUE), Woken(b, f))
    BY <1>9 DEF InWaking
  <2>2. CASE Told(p, "idle", "1") \/ (Ready(p, "pulsing") /\ good[p])
    <3>1. UNCHANGED <<todo, phase, board, wire, open>> /\ out'[p] = <<>> /\ Kept(b)
      BY <1>1, <1>2, <1>3, <1>4, <2>1, <2>2, ReadsTidy DEF Told, Ready
    <3>2. left'[p] = left[p] /\ (good[p] => good'[p]) /\ edges'[b] = edges[b]
      BY <3>1 DEF board
    <3>3. /\ Told(p, "idle", "1") => Told(p, "idle", "1")'
          /\ Ready(p, "pulsing") => Ready(p, "pulsing")'
          /\ Ready(b, "asleep") => Ready(b, "asleep")'
      BY <3>1, RestsStill, KeptStates
    <3>4. Said(p, "idle", "PULSED", TRUE) => ~(Told(p, "idle", "1") \/ Ready(p, "pulsing"))
      <4>1. \A t, u : <<t>> # <<>> /\ <<t, u>> # <<>> /\ <<t, u>> # <<t>>
        OBVIOUS
      <4>2. "1" # "none" /\ <<"1">> # <<>> /\ "idle" # "pulsing"
        OBVIOUS
      <4> QED
        BY <4>2 DEF Said, Told, Ready, Rests
    <3>5. InWaking(b, f)'
      <4>1. CASE Ready(b, "asleep") /\ edges[b] = 0
        BY <1>9, <2>1, <2>2, <3>1, <3>2, <3>3, <3>4, <4>1 DEF InWaking, Ready, Rests, Awake, Said
      <4>2. CASE Awake(b)
        <5>1. Awake(b)'
          BY <1>8, <3>1, <4>2
        <5>2. ~Ready(b, "asleep")
          BY <4>2 DEF Awake, Ready, Said, Rests
        <5>3. Ready(p, "pulsing") /\ good[p] /\ left[p] = 0
          BY <1>9, <2>2, <3>4, <5>2 DEF InWaking
        <5> QED
          BY <2>1, <3>1, <3>2, <3>3, <5>1, <5>3 DEF InWaking
      <4> QED
        BY <1>9, <4>1, <4>2 DEF InWaking
    <3> QED
      BY <3>1, <3>5 DEF InNight
  <2>3. CASE Awake(b) /\ Said(p, "idle", "PULSED", TRUE)
    <3>1. /\ UNCHANGED <<phase, board, wire, open>> /\ Kept(b)
          /\ \/ UNCHANGED todo /\ Said(p, "idle", "PULSED", TRUE)'
             \/ todo' = Woken(b, f) /\ Ready(p, "idle")'
      BY <1>1, <1>2, <1>3, <1>4, <2>1, <2>3, ReadsAnswer
    <3>2. Awake(b)'
      BY <1>8, <2>3, <3>1
    <3> QED
      BY <2>1, <3>1, <3>2 DEF InWaking, InWoken, InNight
  <2> QED
    BY <1>9, <2>2, <2>3 DEF InWaking
<1>10. CASE InWoken(b, f)
  <2>1. todo = Then(Expect(b, "WOKE", 1), f) /\ Ready(p, "idle")
    BY <1>10 DEF InWoken, Woken
  <2>2. CASE Ready(b, "woken") /\ edges[b] = 1
    <3>1. UNCHANGED <<todo, phase, board, wire, open>> /\ out'[b] = <<>> /\ Kept(p)
      BY <1>1, <1>2, <1>3, <2>1, <2>2, ReadsTidy DEF Ready
    <3>2. Awake(b)' /\ Ready(p, "idle")'
      BY <2>1, <2>2, <3>1, RestsStill, KeptStates DEF Awake, board
    <3> QED
      BY <1>10, <3>1, <3>2 DEF InWoken, InNight
  <2>3. CASE Said(b, "idle", "WOKE", 1)
    <3>1. /\ UNCHANGED <<phase, board, wire, open>> /\ Kept(p)
          /\ \/ UNCHANGED todo /\ Said(b, "idle", "WOKE", 1)'
             \/ todo' = f /\ Ready(b, "idle")'
      BY <1>1, <1>2, <1>3, <2>1, <2>3, ReadsAnswer
    <3>2. Ready(p, "idle")'
      BY <2>1, <3>1, KeptStates
    <3>3. todo' = f /\ Ready(b, "idle")' => AtRest(f)'
      BY <3>2, PeerFacts DEF AtRest
    <3> QED
      BY <1>10, <3>1, <3>2, <3>3 DEF InWoken, Awake, InNight
  <2> QED
    BY <1>10, <2>2, <2>3 DEF InWoken, Awake
<1> QED
  BY <1>5, <1>6, <1>7, <1>9, <1>10 DEF InNight

\* Between two parts the host goes on with the next, or begins the next suite.
LEMMA RestProceeds ==
    ASSUME Burst \in Nat \ {0}, TypesInv, NEW f \in Scripts, AtRest(f), Proceeds
    PROVE  /\ UNCHANGED <<phase, open>>
           /\ \E g \in Scripts :
                \/ AtRest(g)'
                \/ \E b \in Board :
                     \/ \E c \in Questions : InAsking(b, c, g)'
                     \/ InMeasuring(b, g)'
                     \/ \E m \in SubMode : Serves(m, b) /\ InSession(m, b, g)'
                     \/ InNight(b, g)'
<1>1. todo = f /\ \A b \in Board : Ready(b, "idle")
  BY DEF AtRest
<1>2. CASE f = <<>>
  <2>1. PICK s \in DOMAIN Suites : BeginSuite(s)
    BY <1>1, <1>2 DEF Proceeds, SendCommand, Sleep500, ReadLine, GiveUp, Doing
  <2>2. todo' = Suites[s] /\ UNCHANGED <<phase, board, line>>
    BY <2>1 DEF BeginSuite
  <2>3. Suites[s] \in Scripts
    BY SuitesRun
  <2>4. AtRest(Suites[s])'
    BY <1>1, <2>2 DEF AtRest, Ready, Rests, Tidy, board, line
  <2> QED
    BY <2>2, <2>3, <2>4 DEF line
<1>3. ASSUME NEW g \in Scripts, NEW b \in Board, NEW c \in Words, NEW h \in Seq(Steps),
             f = Then(SendStep(b, c), h)
      PROVE  /\ todo' = h /\ Told(b, "idle", c)' /\ Ready(Peer(b), "idle")'
             /\ UNCHANGED <<board, phase, open>>
  <2>1. Ready(b, "idle") /\ Ready(Peer(b), "idle") /\ todo = Then(SendStep(b, c), h)
    BY <1>1, <1>3, PeerFacts
  <2>2. todo' = h /\ Told(b, "idle", c)' /\ Kept(Peer(b)) /\ UNCHANGED <<board, phase, open>>
    BY <2>1, NextIsSend
  <2> QED
    BY <2>1, <2>2, KeptStates
<1>4. CASE f # <<>>
  <2>1. PICK g \in Scripts, b \in Board :
            \/ \E c \in Questions : f = Asking(b, c, g)
            \/ f = Measuring(b, g)
            \/ \E m \in SubMode : Serves(m, b) /\ f = Session(m, b, g)
            \/ f = Night(b, g)
    BY <1>4, ScriptsUnfold DEF Part
  <2>2. g \in Seq(Steps) /\ b \in Values /\ TRUE \in Values /\ 0 \in Values
    BY ScriptsUnfold, ValuesAre
  <2>3. ASSUME NEW c \in Questions, f = Asking(b, c, g)
        PROVE  UNCHANGED <<phase, open>> /\ InAsking(b, c, g)'
    <3>1. c \in Words /\ Then(Expect(b, Answer[c], b), g) \in Seq(Steps)
      BY <2>2, WordsAre, ExpectThen, Zenon
    <3> QED
      BY <1>3, <2>3, <3>1 DEF Asking, InAsking
  <2>4. CASE f = Measuring(b, g)
    <3>1. "c" \in Words /\ "CAP" \in Words
      BY WordsAre
    <3>2. Then(Expect(b, "CAP", TRUE), g) \in Seq(Steps)
      BY <2>2, <3>1, ExpectThen
    <3>3. UNCHANGED <<phase, open>> /\ InMeasuring(b, g)'
      BY <1>3, <2>4, <3>1, <3>2 DEF Measuring, InMeasuring
    <3> QED
      BY <3>3
  <2>5. ASSUME NEW m \in SubMode, Serves(m, b), f = Session(m, b, g)
        PROVE  UNCHANGED <<phase, open>> /\ InSession(m, b, g)'
    <3>1. Enter[m] \in Words /\ Then(Expect(b, On[m], 0), Driving(m, b, g)) \in Seq(Steps)
      BY <2>2, WordsAre, SessionSeqs
    <3>2. UNCHANGED <<phase, open>> /\ Entering(m, b, g)'
      BY <1>3, <2>5, <3>1 DEF Session, Entering
    <3> QED
      BY <3>2 DEF InSession
  <2>6. CASE f = Night(b, g)
    <3>1. "w" \in Words /\ Then(Expect(b, "SLEEPING", 0), Napping(b, g)) \in Seq(Steps)
      BY <2>2, WordsAre, NightSeqs
    <3>2. UNCHANGED <<phase, open>> /\ Dozing(b, g)'
      BY <1>3, <2>6, <3>1 DEF Night, Dozing
    <3> QED
      BY <3>2 DEF InNight
  <2> QED
    BY <2>1, <2>3, <2>4, <2>5, <2>6
<1> QED
  BY <1>2, <1>4

\* The session of a child taken up with something latched goes on, ends, or is
\* given up, with both boards back.
Failing ==
    /\ tainted["child"]
    /\ Head(todo) \in {GivenUp, Expect("child", "SLAVE_STATS", Burst)}
    /\ \A b \in Board : Ready(b, "idle") /\ open[b]

LEMMA ProceedsAlone ==
    ASSUME Proceeds
    PROVE  UNCHANGED <<board, open, tainted>>
BY DEF Proceeds, SendCommand, Sleep500, ReadLine, GiveUp, BeginSuite, Doing, line, board

LEMMA DumpProceeds ==
    ASSUME Burst \in Nat \ {0}, TypesInv, \A y \in Board : open[y], tainted["child"], Dumping, Proceeds
    PROVE  (UNCHANGED phase /\ Dumping') \/ (phase' = "failed" /\ Failing')
<1> DEFINE g == <<GivenUp>>
           h == Asking("child", "B", g)
<1>1. /\ "child" \in Board /\ "parent" \in Board /\ "B" \in Questions
      /\ g \in Seq(Steps) /\ h \in Seq(Steps) /\ Dump = Asking("parent", "B", h)
  BY DumpSeqs DEF Dump
<1>2. UNCHANGED <<board, open, tainted>>
  BY ProceedsAlone
<1>3. CASE AtRest(g)
  <2>1. g # <<>> /\ Head(g) = GivenUp
    OBVIOUS
  <2>2. todo = g /\ Head(todo).act = "fail"
    BY <1>3, <2>1, StepFields DEF AtRest
  <2>3. GiveUp
    BY <2>1, <2>2 DEF Proceeds, SendCommand, Sleep500, ReadLine, BeginSuite, Doing
  <2>4. phase' = "failed" /\ UNCHANGED <<todo, line, board>>
    BY <2>3 DEF GiveUp, Doing
  <2>5. \A b \in Board : Ready(b, "idle")'
    BY <1>3, <2>4 DEF AtRest, Ready, Rests, Tidy, board, line
  <2> QED
    BY <1>2, <2>1, <2>2, <2>4, <2>5 DEF Failing
<1> HIDE DEF g, h
<1>4. CASE AtRest(Dump)
  BY <1>1, <1>4, AskingBegins DEF Dumping, h, g
<1>5. CASE InAsking("parent", "B", h)
  BY <1>1, <1>5, AskingProceeds DEF Dumping, h, g
<1>6. CASE AtRest(h)
  BY <1>1, <1>6, AskingBegins DEF Dumping, h, g
<1>7. CASE InAsking("child", "B", g)
  BY <1>1, <1>7, AskingProceeds DEF Dumping, h, g
<1> QED
  BY <1>3, <1>4, <1>5, <1>6, <1>7 DEF Dumping, h, g

LEMMA SpoiledProceeds ==
    ASSUME Burst \in Nat \ {0}, TypesInv, \A y \in Board : open[y], NEW f \in Scripts, Spoiled(f),
           Proceeds
    PROVE  \/ UNCHANGED phase /\ (Spoiled(f)' \/ AtRest(f)')
           \/ phase' = "failed" /\ Failing'
<1> DEFINE c == "child"
           p == "parent"
           m == "slave"
<1>1. UNCHANGED <<board, open, tainted>>
  BY ProceedsAlone
<1>2. /\ c \in Board /\ p \in Board /\ Peer(c) = p /\ Peer(p) = c /\ m \in SubMode
      /\ On[m] = "SLAVE_ON" /\ Drive[m] = "m" /\ Driver[m] = "testing"
      /\ Result[Driver[m]] = "I2C_TEST_END" /\ Stats[m] = "SLAVE_STATS"
      /\ \A b \in Board : b = c \/ b = p
  BY DEF Board, Peer, SubMode, On, Drive, Driver, Result, Stats
<1>3. /\ On[m] \in Words /\ Drive[m] \in Words /\ Result[Driver[m]] \in Words
      /\ Stats[m] \in Words /\ "q" \in Words
      /\ 0 \in Values /\ Burst \in Values /\ TRUE \in Values
      /\ On[m] # "READY" /\ Result[Driver[m]] # "READY" /\ Stats[m] # "READY"
  BY <1>2, WordsAre, ValuesAre, NeverReady
<1>4. /\ f \in Seq(Steps) /\ Leaving(m, c, f) \in Seq(Steps) /\ Driven(m, c, f) \in Seq(Steps)
      /\ Driving(m, c, f) \in Seq(Steps) /\ Then(Expect(c, Stats[m], Burst), f) \in Seq(Steps)
      /\ Looking \in Seq(Steps) /\ Dump \in Seq(Steps)
  BY <1>2, ScriptsUnfold, SessionSeqs, DumpSeqs
<1>5. tainted'[c]
  BY <1>1 DEF Spoiled
<1>6. CASE SpoiledEntering(f)
  <2>1. /\ todo = Then(Expect(c, On[m], 0), Driving(m, c, f)) /\ Ready(p, "idle")
        /\ Said(c, m, On[m], 0) /\ tally[c] <= 1
    BY <1>6 DEF SpoiledEntering
  <2>2. /\ UNCHANGED <<phase, board, wire, open>> /\ Kept(Peer(c))
        /\ \/ UNCHANGED todo /\ Said(c, m, On[m], 0)'
           \/ todo' = Driving(m, c, f) /\ Ready(c, m)'
    BY <1>2, <1>3, <1>4, <2>1, ReadsAnswer
  <2>3. Ready(p, "idle")' /\ tally'[c] <= 1
    BY <1>2, <2>1, <2>2, KeptStates DEF board
  <2> QED
    BY <1>5, <2>1, <2>2, <2>3 DEF SpoiledEntering, SpoiledEntered, Spoiled
<1>7. CASE SpoiledEntered(f)
  <2>1. todo = Then(SendStep(p, Drive[m]), Driven(m, c, f)) /\ Ready(p, "idle") /\ Ready(c, m)
    BY <1>2, <1>7 DEF SpoiledEntered, Driving
  <2>2. /\ todo' = Driven(m, c, f) /\ Told(p, "idle", Drive[m])' /\ Kept(Peer(p))
        /\ UNCHANGED <<board, phase, open>>
    BY <1>2, <1>3, <1>4, <2>1, NextIsSend
  <2>3. Ready(c, m)'
    BY <1>2, <2>1, <2>2, KeptStates
  <2> QED
    BY <1>2, <1>5, <2>2, <2>3 DEF SpoiledDrive, Spoiled
<1>8. CASE SpoiledDrive(f)
  <2>1. todo = Then(Expect(p, Result[Driver[m]], TRUE), Leaving(m, c, f)) /\ Ready(c, m)
    BY <1>2, <1>8 DEF SpoiledDrive, Driven
  <2>2. CASE Told(p, "idle", "m") \/ Ready(p, "testing")
    <3>1. UNCHANGED <<todo, phase, board, wire, open>> /\ out'[p] = <<>> /\ Kept(Peer(p))
      BY <1>2, <1>3, <1>4, <2>1, <2>2, ReadsTidy DEF Told, Ready
    <3>2. Ready(c, m)'
      BY <1>2, <2>1, <3>1, KeptStates
    <3>3. Told(p, "idle", "m")' \/ Ready(p, "testing")'
      BY <2>2, <3>1, RestsStill
    <3> QED
      BY <1>5, <1>8, <3>1, <3>2, <3>3 DEF SpoiledDrive, Spoiled
  <2>3. ASSUME NEW v, Said(p, "idle", "I2C_TEST_END", v)
        PROVE  UNCHANGED phase /\ Spoiled(f)'
    <3>1. /\ UNCHANGED <<board, wire, open>> /\ Kept(Peer(p)) /\ UNCHANGED phase
          /\ \/ UNCHANGED todo /\ Said(p, "idle", "I2C_TEST_END", v)'
             \/ Ready(p, "idle")' /\ todo' \in {Leaving(m, c, f), PostMortem}
      <4>1. Said(p, "idle", Result[Driver[m]], v)
        BY <1>2, <2>3
      <4>2. /\ UNCHANGED <<board, wire, open>> /\ Kept(Peer(p))
            /\ \/ UNCHANGED <<todo, phase>> /\ Said(p, "idle", Result[Driver[m]], v)'
               \/ Ready(p, "idle")' /\ v = TRUE /\ todo' = Leaving(m, c, f) /\ UNCHANGED phase
               \/ /\ Ready(p, "idle")' /\ v # TRUE /\ Result[Driver[m]] = "I2C_TEST_END"
                  /\ todo' = PostMortem /\ UNCHANGED phase
               \/ /\ Ready(p, "idle")' /\ v # TRUE /\ Result[Driver[m]] # "I2C_TEST_END"
                  /\ phase' = "failed" /\ UNCHANGED todo
        BY <1>2, <1>3, <1>4, <2>1, <4>1, ReadsAny
      <4> QED
        BY <1>2, <4>2
    <3>2. Ready(c, m)'
      BY <1>2, <2>1, <3>1, KeptStates
    <3>3. CASE UNCHANGED todo /\ Said(p, "idle", "I2C_TEST_END", v)'
      BY <1>5, <1>8, <3>1, <3>2, <3>3 DEF SpoiledDrive, Spoiled
    <3>4. CASE Ready(p, "idle")' /\ todo' \in {Leaving(m, c, f), PostMortem}
      BY <1>5, <3>1, <3>2, <3>4 DEF SpoiledServed, Spoiled
    <3> QED
      BY <3>1, <3>3, <3>4
  <2> QED
    BY <1>8, <2>2, <2>3 DEF SpoiledDrive
<1>9. CASE SpoiledServed(f)
  <2>1. Ready(p, "idle") /\ Ready(c, m)
    BY <1>9 DEF SpoiledServed
  <2>2. PICK h \in {Then(Expect(c, Stats[m], Burst), f), Looking} : todo = Then(SendStep(c, "q"), h)
    BY <1>9, PostMortemIs DEF SpoiledServed, Leaving
  <2>3. h \in Seq(Steps)
    BY <1>4
  <2>4. /\ todo' = h /\ Told(c, m, "q")' /\ Kept(Peer(c)) /\ UNCHANGED <<board, phase, open>>
    BY <1>2, <1>3, <2>1, <2>2, <2>3, NextIsSend
  <2>5. Ready(p, "idle")'
    BY <1>2, <2>1, <2>4, KeptStates
  <2> QED
    BY <1>5, <2>4, <2>5 DEF SpoiledLeaving, Spoiled
<1>10. CASE SpoiledLeaving(f)
  <2>1. /\ Ready(p, "idle")
        /\ Told(c, m, "q") \/ \E n : Said(c, "idle", Stats[m], n)
        /\ todo \in {Then(Expect(c, Stats[m], Burst), f), Looking}
    BY <1>10 DEF SpoiledLeaving
  <2>2. todo = Looking => todo = Then(Look(c, Stats[m]), Dump)
    BY <1>2 DEF Looking
  <2>3. CASE Told(c, m, "q")
    <3>1. UNCHANGED <<todo, phase, board, wire, open>> /\ out'[c] = <<>> /\ Kept(Peer(c))
      BY <1>2, <1>3, <1>4, <2>1, <2>2, <2>3, ReadsTidy, LooksTidy DEF Told
    <3>2. Ready(p, "idle")' /\ Told(c, m, "q")'
      BY <1>2, <2>1, <2>3, <3>1, KeptStates, RestsStill
    <3> QED
      BY <1>5, <2>1, <3>1, <3>2 DEF SpoiledLeaving, Spoiled
  <2>4. ASSUME NEW n, Said(c, "idle", Stats[m], n), todo = Looking
        PROVE  UNCHANGED phase /\ Spoiled(f)'
    <3>1. /\ UNCHANGED <<phase, board, wire, open>> /\ Kept(Peer(c))
          /\ \/ UNCHANGED todo /\ Said(c, "idle", Stats[m], n)'
             \/ todo' = Dump /\ Ready(c, "idle")'
      BY <1>2, <1>3, <1>4, <2>2, <2>4, LooksAnswer
    <3>2. Ready(p, "idle")'
      BY <1>2, <2>1, <3>1, KeptStates
    <3>3. CASE UNCHANGED todo /\ Said(c, "idle", Stats[m], n)'
      BY <1>5, <2>1, <3>1, <3>2, <3>3 DEF SpoiledLeaving, Spoiled
    <3>4. CASE todo' = Dump /\ Ready(c, "idle")'
      <4>1. AtRest(Dump)'
        BY <1>2, <3>2, <3>4 DEF AtRest
      <4> QED
        BY <1>5, <3>1, <4>1 DEF Dumping, Spoiled
    <3> QED
      BY <3>1, <3>3, <3>4
  <2>5. ASSUME NEW n, Said(c, "idle", Stats[m], n), todo = Then(Expect(c, Stats[m], Burst), f)
        PROVE  \/ UNCHANGED phase /\ (Spoiled(f)' \/ AtRest(f)')
               \/ phase' = "failed" /\ Failing'
    <3>1. /\ UNCHANGED <<board, wire, open>> /\ Kept(Peer(c))
          /\ \/ UNCHANGED <<todo, phase>> /\ Said(c, "idle", Stats[m], n)'
             \/ Ready(c, "idle")' /\ todo' = f /\ UNCHANGED phase
             \/ Ready(c, "idle")' /\ phase' = "failed" /\ UNCHANGED todo
      <4>1. /\ UNCHANGED <<board, wire, open>> /\ Kept(Peer(c))
            /\ \/ UNCHANGED <<todo, phase>> /\ Said(c, "idle", Stats[m], n)'
               \/ Ready(c, "idle")' /\ n = Burst /\ todo' = f /\ UNCHANGED phase
               \/ /\ Ready(c, "idle")' /\ n # Burst /\ Stats[m] = "I2C_TEST_END"
                  /\ todo' = PostMortem /\ UNCHANGED phase
               \/ /\ Ready(c, "idle")' /\ n # Burst /\ Stats[m] # "I2C_TEST_END"
                  /\ phase' = "failed" /\ UNCHANGED todo
        BY <1>2, <1>3, <1>4, <2>5, ReadsAny
      <4> QED
        BY <1>2, <4>1
    <3>2. Ready(p, "idle")'
      BY <1>2, <2>1, <3>1, KeptStates
    <3>3. CASE UNCHANGED <<todo, phase>> /\ Said(c, "idle", Stats[m], n)'
      BY <1>5, <2>1, <3>2, <3>3 DEF SpoiledLeaving, Spoiled
    <3>4. CASE Ready(c, "idle")' /\ todo' = f /\ UNCHANGED phase
      BY <1>2, <3>2, <3>4 DEF AtRest
    <3>5. CASE Ready(c, "idle")' /\ phase' = "failed" /\ UNCHANGED todo
      <4>1. Head(todo) = Expect(c, "SLAVE_STATS", Burst)
        <5>1. ASSUME NEW w \in Words, todo = Then(Expect(c, w, Burst), f)
              PROVE  Head(todo) = Expect(c, w, Burst)
          <6>1. c \in Board /\ Burst \in Values /\ f \in Seq(Steps)
            BY <1>2, <1>3, <1>4
          <6> HIDE DEF c
          <6> QED
            BY <5>1, <6>1, ExpectThen, Zenon
        <5> QED
          BY <1>2, <1>3, <2>5, <5>1
      <4> QED
        BY <1>1, <1>2, <1>5, <3>2, <3>5, <4>1 DEF Failing
    <3> QED
      BY <3>1, <3>3, <3>4, <3>5
  <2> QED
    BY <2>1, <2>3, <2>4, <2>5
<1>11. CASE Dumping
  BY <1>5, <1>11, DumpProceeds DEF Spoiled
<1> QED
  BY <1>6, <1>7, <1>8, <1>9, <1>10, <1>11 DEF Spoiled

\* A step of the host in a suite keeps SuiteInv, and no suite fails but the one.
LEMMA ProceedsSuite ==
    ASSUME Burst \in Nat \ {0}, TypesInv, SuiteInv, phase = "suites", Proceeds
    PROVE  SuiteInv' /\ (phase' = "suites" \/ (phase' = "failed" /\ Failing'))
<1>1. (\A y \in Board : open[y]) /\ UNCHANGED open
  BY ProceedsAlone DEF SuiteInv
<1>2. PICK f \in Scripts : InScript(f) \/ Spoiled(f)
  BY DEF SuiteInv
<1>3. CASE InScript(f)
  <2>1. f \in Seq(Steps)
    BY ScriptsUnfold
  <2>2. /\ UNCHANGED <<phase, open>>
        /\ \E g \in Scripts :
             \/ AtRest(g)'
             \/ \E b \in Board :
                  \/ \E c \in Questions : InAsking(b, c, g)'
                  \/ InMeasuring(b, g)'
                  \/ \E m \in SubMode : Serves(m, b) /\ InSession(m, b, g)'
                  \/ InNight(b, g)'
    BY <1>3, <2>1, RestProceeds, AskingProceeds, MeasuringProceeds, SessionProceeds, NightProceeds
       DEF InScript
  <2> QED
    BY <1>1, <2>2 DEF SuiteInv, InScript, Serves
<1>4. CASE Spoiled(f)
  <2>1. \/ UNCHANGED phase /\ (Spoiled(f)' \/ AtRest(f)')
        \/ phase' = "failed" /\ Failing'
    BY <1>1, <1>4, SpoiledProceeds
  <2> QED
    BY <1>1, <2>1 DEF SuiteInv, InScript
<1> QED
  BY <1>2, <1>3, <1>4
-----------------------------------------------------------------------------
\* The host that identifies.
Identifying == phase \in {"open", "pop", "gap", "listen", "reopen", "settle"}

OneAtMost(b) == out[b] = <<>> \/ \E l : out[b] = <<l>>
TwoAtMost(b) == OneAtMost(b) \/ \E k, l : out[b] = <<k, l>>

Untouched(b) ==
    /\ wire[b] = <<>> /\ rx[b] \in {"none", "q", "overrun"}
    /\ ~open[b] /\ out[b] = <<>>

\* The board that is asked: a byte of the host's before the next, and no more
\* lines than it asked for.
Asked(b) ==
    /\ open[b] <=> phase # "reopen"
    /\ wire[b] \in {<<>>, <<"q">>, <<"i">>}
    /\ phase \in {"pop", "gap"} => wire[b] # <<"i">> /\ OneAtMost(b)
    /\ phase # "gap" => wire[b] # <<"q">>
    /\ rx[b] \in {"none", "q", "overrun"} \/ (rx[b] = "i" /\ phase \notin {"pop", "gap"})
    /\ phase \in {"gap", "listen"} /\ mode[b] \in Away => wire[b] = <<"q">> \/ rx[b] # "none"
    /\ mode[b] # "idle" => out[b] = <<>>
    /\ phase \in {"reopen", "settle"} => mode[b] = "idle"
    /\ phase = "reopen" => out[b] = <<>>
    /\ TwoAtMost(b)
    /\ wire[b] = <<"i">> \/ rx[b] = "i" => OneAtMost(b) /\ wire[b] # <<"q">>
    /\ ~(wire[b] = <<"i">> /\ rx[b] = "i")

HostInv ==
    /\ phase \in {"stopped", "open", "pop", "gap", "listen", "reopen", "settle", "suites", "failed"}
    /\ phase = "stopped" => \A b \in Board : ~open[b] /\ out[b] = <<>>
    /\ phase = "stopped" => found = {}
    /\ phase \notin {"suites", "failed"} => todo = <<>> /\ suite = 0
    /\ phase = "failed" => Failing
    /\ Identifying =>
         /\ found = {} \/ found = {Peer(who)}
         /\ \A b \in found : Ready(b, "idle") /\ open[b]
         /\ \A b \in Board \ found : b # who \/ phase = "open" => Untouched(b)
         /\ phase # "open" => Asked(who)
-----------------------------------------------------------------------------
\* A board whose port is closed is not heard.
LEMMA ClosedSays ==
    ASSUME NEW b \in Board, ~open[b], NEW t, NEW v, Say(b, t, v)
    PROVE  out' = out
BY DEF Say

\* A board that is left alone stays so.
LEMMA UntouchedMoves ==
    ASSUME TypesInv, BoardInv, NEW b \in Board, Untouched(b), NEW x \in Board, Moves(x)
    PROVE  Untouched(b)'
<1>1. UNCHANGED open /\ (x = b \/ b = Peer(x))
  BY HostKept, PeerFacts
<1>2. CASE b = Peer(x)
  BY <1>1, <1>2, MovesApart DEF Apart, Untouched
<1>3. CASE x = b
  <2>1. ~Arrive(b) /\ ~Announce(b)
    BY DEF Arrive, Announce, Untouched
  <2>2. wire' = wire /\ (rx' = rx \/ rx' = [rx EXCEPT ![b] = "none"])
    BY <1>3, <2>1 DEF Moves, Executes, Boot, Discard, Reply, ServeI2c, TestI2c, ServeEcho, Initiate,
                Count, Pulse, Capture, Leave, Exchange, Edge, Finish, Doze, FallAsleep, Wake, Take,
                line
  <2>3. out' = out
    BY <1>3, <2>1, ClosedSays DEF Untouched, Moves, Executes, Boot, Discard, Reply, ServeI2c,
                TestI2c, ServeEcho, Initiate, Count, Pulse, Capture, Leave, Exchange, Edge, Finish,
                Doze, FallAsleep, Wake, Burn, line
  <2> QED
    BY <1>1, <2>2, <2>3 DEF Untouched, TypesInv
<1> QED
  BY <1>1, <1>2, <1>3

\* The board that is asked, after a step of the other one,
LEMMA AskedPeerMoves ==
    ASSUME TypesInv, NEW b \in Board, Asked(b), Moves(Peer(b))
    PROVE  Asked(b)'
<1>1. UNCHANGED <<open, phase>> /\ Peer(b) \in Board /\ Peer(Peer(b)) = b
  BY HostKept, PeerFacts
<1>2. /\ rx'[b] = rx[b] /\ wire'[b] = wire[b] /\ out'[b] = out[b]
      /\ mode'[b] = mode[b] \/ (mode[b] = "asleep" /\ mode'[b] = "woken")
  BY <1>1, MovesApart DEF Apart
<1>3. mode'[b] \in Away => mode[b] \in Away
  BY <1>2 DEF Away, Asleep
<1>4. mode'[b] # "idle" => mode[b] # "idle"
  BY <1>2
<1>5. mode[b] = "idle" => mode'[b] = "idle"
  BY <1>2
<1> QED
  BY <1>1, <1>2, <1>3, <1>4, <1>5 DEF Asked, OneAtMost, TwoAtMost

\* when it takes what it was sent,
LEMMA AskedTakes ==
    ASSUME NEW b \in Board, Asked(b), Executes(b)
    PROVE  \/ Boot(b) \/ Discard(b) \/ (rx[b] = "i" /\ Reply(b)) \/ Leave(b) \/ Exchange(b)
           \/ Edge(b) \/ Finish(b) \/ FallAsleep(b) \/ Wake(b)
<1>1. rx[b] \in {"none", "q", "overrun", "i"}
  BY DEF Asked
<1>2. {"none", "q", "overrun"} \cap DOMAIN Answer = {}
  BY DEF Answer
<1> QED
  BY <1>1, <1>2 DEF Executes, Reply, ServeI2c, TestI2c, ServeEcho, Initiate, Count, Pulse, Capture,
     Doze, Take

\* A line is one more.
LEMMA SaysOne ==
    ASSUME TypesInv, NEW b \in Board, NEW t, NEW v, Say(b, t, v)
    PROVE  /\ ~open[b] => out'[b] = out[b]
           /\ out[b] = <<>> => OneAtMost(b)'
           /\ OneAtMost(b) => TwoAtMost(b)'
<1> DEFINE l == <<t, v>>
<1>1. out'[b] = out[b] \/ out'[b] = Append(out[b], l)
  BY DEF Say, TypesInv
<1>2. ~open[b] => out'[b] = out[b]
  BY DEF Say
<1>3. out[b] = <<>> => out'[b] = <<>> \/ out'[b] = <<l>>
  BY <1>1, OneLine
<1>4. ASSUME NEW k, out[b] = <<k>>  PROVE out'[b] = <<k>> \/ out'[b] = <<k, l>>
  BY <1>1, <1>4, OneLine
<1> HIDE DEF l
<1> QED
  BY <1>2, <1>3, <1>4 DEF OneAtMost, TwoAtMost

\* and after any step of its own.
LEMMA AskedMoves ==
    ASSUME TypesInv, BoardInv, NEW b \in Board, phase \in {"pop", "gap", "listen", "reopen", "settle"},
           Asked(b), Moves(b)
    PROVE  Asked(b)'
<1>1. UNCHANGED <<open, phase>>
  BY HostKept
<1>2. <<"q">> # <<"i">> /\ <<>> # <<"i">> /\ <<>> # <<"q">>
  OBVIOUS
<1>3. CASE Arrive(b)
  <2>1. PICK c \in {"q", "i"} : wire[b] = <<c>>
    BY <1>3 DEF Asked, Arrive
  <2>2. Head(wire[b]) = c /\ Tail(wire[b]) = <<>>
    BY <2>1, OneLine
  <2>3. wire'[b] = <<>> /\ mode'[b] = mode[b] /\ out'[b] = out[b]
    BY <1>3, <2>2 DEF Arrive, TypesInv, loop
  <2>4. rx'[b] \in {"none", "overrun", c} /\ (mode[b] # "boot" => rx'[b] # "none")
    BY <1>3, <2>2 DEF Arrive, TypesInv
  <2>5. rx'[b] = "i" => wire[b] = <<"i">>
    BY <2>1, <2>4
  <2>6. mode[b] \in Away => mode[b] # "boot"
    BY DEF Away, Busy, Asleep
  <2> QED
    BY <1>1, <1>2, <2>3, <2>4, <2>5, <2>6 DEF Asked, OneAtMost, TwoAtMost
<1>4. CASE Announce(b)
  <2>1. mode[b] = "idle" /\ rx[b] = "none" /\ out[b] = <<>> /\ open[b]
        /\ mode' = mode /\ wire' = wire /\ rx' = rx
    BY <1>4 DEF Announce, board
  <2>2. OneAtMost(b)'
    BY <1>4, <2>1, SaysOne DEF Announce
  <2>3. mode[b] \notin Away
    BY <2>1 DEF Away, Busy, Asleep
  <2> QED
    BY <1>1, <2>1, <2>2, <2>3 DEF Asked, TwoAtMost
<1>5. CASE Boot(b) \/ Discard(b)
  <2>1. wire' = wire /\ out' = out /\ rx'[b] \in {"none", rx[b]}
        /\ (mode'[b] = mode[b] \/ mode'[b] = "idle") /\ mode'[b] \notin Away
    BY <1>5 DEF Boot, Discard, line, loop, Becomes, TypesInv, Away, Busy, Asleep, Polling, SubMode
  <2> QED
    BY <1>1, <2>1 DEF Asked, OneAtMost, TwoAtMost
<1>6. CASE rx[b] = "i" /\ Reply(b)
  <2>1. wire' = wire /\ rx'[b] = "none" /\ mode' = mode /\ mode[b] = "idle"
        /\ Say(b, Answer["i"], b)
    BY <1>6 DEF Reply, Take, loop, TypesInv
  <2>2. OneAtMost(b) /\ wire[b] # <<"q">> /\ wire[b] # <<"i">> /\ phase \notin {"pop", "gap"}
    BY <1>6 DEF Asked
  <2>3. TwoAtMost(b)' /\ (phase = "reopen" => out'[b] = out[b])
    BY <2>1, <2>2, SaysOne DEF Asked
  <2>4. mode[b] \notin Away
    BY <2>1 DEF Away, Busy, Asleep
  <2> QED
    BY <1>1, <2>1, <2>2, <2>3, <2>4 DEF Asked
<1>7. CASE Leave(b) \/ Finish(b) \/ Wake(b)
  <2>1. mode[b] # "idle" /\ mode'[b] = "idle" /\ wire' = wire /\ rx'[b] \in {"none", rx[b]}
    BY <1>7 DEF Leave, Finish, Wake, Becomes, TypesInv, SubMode, Busy
  <2>2. out[b] = <<>> /\ phase \notin {"reopen", "settle"}
    BY <2>1 DEF Asked
  <2>3. OneAtMost(b)'
    BY <1>7, <2>2, SaysOne DEF Leave, Finish, Wake
  <2>4. mode'[b] \notin Away
    BY <2>1 DEF Away, Busy, Asleep
  <2> QED
    BY <1>1, <2>1, <2>2, <2>3, <2>4 DEF Asked, TwoAtMost
<1>8. CASE Exchange(b) \/ Edge(b) \/ FallAsleep(b)
  <2>1. wire' = wire /\ out' = out /\ rx' = rx
    BY <1>8 DEF Exchange, Edge, FallAsleep, line
  <2>2. mode[b] \in Away /\ mode[b] # "idle" /\ mode'[b] # "idle"
    BY <1>8, PeerFacts DEF Exchange, Edge, FallAsleep, Becomes, TypesInv, Away, Busy, Asleep, Server
  <2> QED
    BY <1>1, <2>1, <2>2 DEF Asked, OneAtMost, TwoAtMost
<1> QED
  BY <1>3, <1>4, <1>5, <1>6, <1>7, <1>8, AskedTakes DEF Moves

\* A step of a board keeps HostInv.
LEMMA MovesHost ==
    ASSUME Burst \in Nat \ {0}, TypesInv, BoardInv, HostInv, NEW x \in Board, Moves(x)
    PROVE  HostInv'
<1>1. UNCHANGED <<open, phase, who, found, suite, todo>>
  BY HostKept
<1>2. CASE Identifying
  <2>1. ASSUME NEW b \in found  PROVE Ready(b, "idle")' /\ open'[b]
    <3>1. b \in Board /\ Ready(b, "idle") /\ open[b]
      BY <1>2, <2>1 DEF HostInv, TypesInv
    <3>2. CASE x = b
      BY <1>1, <3>1, <3>2, IdleMoves
    <3>3. CASE b = Peer(x)
      <4>1. mode'[b] = mode[b] /\ wire'[b] = wire[b] /\ rx'[b] = rx[b] /\ out'[b] = out[b]
        BY <3>1, <3>3, MovesApart DEF Apart, Ready, Rests
      <4> QED
        BY <1>1, <3>1, <4>1 DEF Ready, Rests, Tidy
    <3> QED
      BY <3>1, <3>2, <3>3, PeerFacts
  <2>2. ASSUME NEW b \in Board \ found, b # who \/ phase = "open"  PROVE Untouched(b)'
    BY <1>2, <2>2, UntouchedMoves DEF HostInv
  <2>3. ASSUME phase # "open"  PROVE Asked(who)'
    <3>1. Asked(who) /\ who \in Board /\ phase \in {"pop", "gap", "listen", "reopen", "settle"}
      BY <1>2, <2>3 DEF HostInv, TypesInv, Identifying
    <3>3. x = who \/ x = Peer(who)
      BY <3>1, PeerFacts
    <3>4. \A b \in Board : b = who /\ Asked(b) => Asked(b)'
      BY <3>1, <3>3, AskedMoves, AskedPeerMoves
    <3>5. who' = who
      BY <1>1
    <3> QED
      BY <3>1, <3>4, <3>5 DEF Asked, OneAtMost, TwoAtMost
  <2> QED
    BY <1>1, <1>2, <2>1, <2>2, <2>3 DEF HostInv, Identifying
<1>3. CASE phase = "stopped"
  <2>1. ASSUME NEW b \in Board  PROVE out'[b] = <<>>
    <3>1. CASE b = Peer(x)
      BY <1>3, <2>1, <3>1, MovesApart DEF Apart, HostInv
    <3>2. CASE x = b
      <4>1. ~open[b] /\ out[b] = <<>>
        BY <1>3 DEF HostInv
      <4>2. out' = out
        BY <3>2, <4>1, ClosedSays DEF Moves, Executes, Arrive, Announce, Boot, Discard, Reply, ServeI2c,
                TestI2c, ServeEcho, Initiate, Count, Pulse, Capture, Leave, Exchange, Edge, Finish,
                Doze, FallAsleep, Wake, Burn, line
      <4> QED
        BY <4>1, <4>2
    <3> QED
      BY <2>1, <3>1, <3>2, PeerFacts
  <2> QED
    BY <1>1, <1>3, <2>1 DEF HostInv, Identifying
<1>4. CASE phase = "suites"
  BY <1>1, <1>4 DEF HostInv, Identifying
<1>5. CASE phase = "failed"
  <2>1. tainted["child"] /\ "child" \in Board /\ \A b \in Board : Ready(b, "idle") /\ open[b]
    BY <1>5 DEF HostInv, Failing, Board
  <2>2. \A b \in Board : Ready(b, "idle")'
    <3>1. Ready(x, "idle")'
      BY <2>1, IdleMoves
    <3>2. Ready(Peer(x), "idle")'
      <4>1. Kept(Peer(x))
        BY <2>1, PeerKept DEF Ready, Rests
      <4> QED
        BY <2>1, <4>1, KeptStates, PeerFacts
    <3> QED
      BY <3>1, <3>2, PeerFacts
  <2>3. tainted' = tainted
    <3>1. rx[x] # "s"
      BY <2>1 DEF Ready, Rests
    <3> QED
      BY <3>1, TaintKept
  <2>4. Failing'
    BY <1>1, <1>5, <2>1, <2>2, <2>3 DEF HostInv, Failing
  <2> QED
    BY <1>1, <1>5, <2>4 DEF HostInv, Identifying
<1> QED
  BY <1>2, <1>3, <1>4, <1>5 DEF HostInv, Identifying
-----------------------------------------------------------------------------
\* The suites are numbered from one.
LEMMA SuitesLen == Len(Suites) \in Nat /\ DOMAIN Suites = 1 .. Len(Suites)
<1> DEFINE S == {Identity, I2cBridge, BothWays(UartLink), BothWays(GpioEdge),
                 BothWays(Lpm4Wake), BothWays(PwmCross), BothWays(AdcDac)}
<1>1. Suites \in Seq(S)
  BY DEF Suites
<1> HIDE DEF S
<1> QED
  BY <1>1

RigInv == TypesInv /\ BoardInv /\ HostInv /\ SuiteInv

\* BoardInv is about the boards and the bytes on their way.
LEMMA BoardsKept ==
    ASSUME BoardInv, UNCHANGED <<board, wire>>
    PROVE  BoardInv'
BY DEF BoardInv, BoardOK, ServedOK, CleanOK, Pending, board, Commands

\* The host ends or is aborted,
LEMMA StopKeeps ==
    ASSUME RigInv, Stop
    PROVE  RigInv'
<1>1. TypesInv'
  BY SuitesLen DEF RigInv, TypesInv, Stop, board, OnAll
<1>2. BoardInv'
  BY BoardsKept DEF RigInv, Stop
<1>3. HostInv' /\ SuiteInv'
  BY DEF Stop, HostInv, SuiteInv, Identifying, OnAll
<1> QED
  BY <1>1, <1>2, <1>3 DEF RigInv

\* and the next one starts, with a flash or without.
LEMMA StartKeeps ==
    ASSUME Burst \in Nat \ {0}, RigInv, NEW b \in Board, RunSuites(b)
    PROVE  RigInv'
<1>1. /\ phase = "stopped" /\ phase' = "open" /\ who' = b
      /\ UNCHANGED <<found, suite, todo, wire, out, open>> /\ StartsSlowly
  BY DEF RunSuites, Start, plan, line
<1>2. \A y \in Board : wire[y] = <<>> /\ ~open[y] /\ out[y] = <<>>
  BY <1>1 DEF StartsSlowly, Drained, RigInv, HostInv
<1>3. found = {} /\ todo = <<>> /\ suite = 0
  BY <1>1 DEF RigInv, HostInv
<1>4. CASE Flash
  <2>1. TypesInv'
    BY <1>1, <1>4 DEF RigInv, TypesInv, Flash, OnAll
  <2>2. BoardInv'
    <3>1. ASSUME NEW y \in Board
          PROVE  /\ mode'[y] = "boot" /\ rx'[y] = "none" /\ b0'[y] = "free" /\ wire'[y] = <<>>
                 /\ mode'[Peer(y)] = "boot"
      BY <1>1, <1>2, <1>4, PeerFacts DEF Flash, OnAll
    <3>2. ASSUME NEW y \in Board  PROVE BoardOK(y)'
      BY <3>1 DEF BoardOK, Away, Busy, Asleep
    <3>3. ASSUME NEW y \in Board  PROVE ServedOK(y)'
      BY <3>1 DEF ServedOK, Server
    <3>4. ASSUME NEW y \in Board  PROVE CleanOK(y)'
      BY <3>1 DEF CleanOK
    <3> QED
      BY <3>2, <3>3, <3>4 DEF BoardInv
  <2>3. \A y \in Board : Untouched(y)'
    BY <1>1, <1>2, <1>4 DEF Untouched, Flash, OnAll
  <2> QED
    BY <1>1, <1>3, <2>1, <2>2, <2>3 DEF RigInv, HostInv, Identifying, SuiteInv
<1>5. CASE UNCHANGED board
  <2>1. TypesInv'
    BY <1>1, <1>5 DEF RigInv, TypesInv, board
  <2>2. BoardInv'
    BY <1>1, <1>5, BoardsKept DEF RigInv
  <2>3. ASSUME NEW y \in Board  PROVE rx[y] \in {"none", "q", "overrun"}
    <3>1. mode[y] \in Polling \/ mode[y] \in Away \/ mode[y] = "boot"
      BY DEF RigInv, TypesInv, Away
    <3> QED
      BY <1>1, <3>1 DEF RigInv, BoardInv, BoardOK, StartsSlowly, Drained
  <2>4. \A y \in Board : Untouched(y)'
    BY <1>1, <1>2, <1>5, <2>3 DEF Untouched, board
  <2> QED
    BY <1>1, <1>3, <2>1, <2>2, <2>4 DEF RigInv, HostInv, Identifying, SuiteInv
<1> QED
  BY <1>4, <1>5 DEF RunSuites
-----------------------------------------------------------------------------
\* What identify does to the other boards: nothing.
LEMMA OthersKept ==
    ASSUME RigInv, Identifying, UNCHANGED <<board, who, found, plan>>,
           TypesInv', BoardInv', phase' \in {"pop", "gap", "listen", "reopen", "settle"},
           \A y \in Board : y # who => wire'[y] = wire[y] /\ out'[y] = out[y] /\ (open'[y] <=> open[y]),
           Asked(who)', who \notin found
    PROVE  RigInv'
<1>1. who \in Board /\ found \subseteq Board /\ (found = {} \/ found = {Peer(who)})
  BY DEF RigInv, TypesInv, HostInv
<1>2. ASSUME NEW y \in found  PROVE Ready(y, "idle")' /\ open'[y]
  <2>1. y \in Board /\ y # who /\ Ready(y, "idle") /\ open[y]
    BY <1>1, <1>2 DEF RigInv, HostInv
  <2> QED
    BY <2>1 DEF Ready, Rests, Tidy, board
<1>3. ASSUME NEW y \in Board \ found, y # who  PROVE Untouched(y)'
  <2>1. Untouched(y)
    BY <1>3 DEF RigInv, HostInv
  <2> QED
    BY <1>3, <2>1 DEF Untouched, board
<1>4. todo' = <<>> /\ suite' = 0 /\ found' = found /\ who' = who
  BY DEF RigInv, HostInv, Identifying, plan
<1>5. HostInv'
  BY <1>1, <1>2, <1>3, <1>4 DEF HostInv, Identifying
<1>6. SuiteInv'
  BY DEF SuiteInv
<1> QED
  BY <1>5, <1>6 DEF RigInv

\* The board that is asked is not one of those found.
LEMMA WhoNotFound ==
    ASSUME RigInv, Identifying
    PROVE  who \in Board /\ who \notin found /\ (phase # "open" => Asked(who))
           /\ (phase = "open" => Untouched(who))
BY PeerFacts DEF RigInv, HostInv, TypesInv

\* Each step of identify.
LEMMA OpenPortKeeps ==
    ASSUME RigInv, OpenPort
    PROVE  RigInv'
<1>1. /\ phase = "open" /\ phase' = "pop" /\ UNCHANGED <<board, plan, wire, who, found>>
      /\ open' = [open EXCEPT ![who] = TRUE] /\ out' = [out EXCEPT ![who] = <<>>]
  BY DEF OpenPort, Go
<1>2. who \in Board /\ who \notin found /\ Untouched(who) /\ Identifying
  BY <1>1, WhoNotFound DEF Identifying
<1>3. TypesInv'
  BY <1>1, <1>2 DEF RigInv, TypesInv, board, plan
<1>4. BoardInv'
  BY <1>1, BoardsKept DEF RigInv
<1>5. open'[who] /\ out'[who] = <<>> /\ wire'[who] = <<>> /\ rx'[who] \in {"none", "q", "overrun"}
  BY <1>1, <1>2 DEF RigInv, TypesInv, Untouched, board
<1>6. Asked(who)'
  <2>1. <<>> # <<"i">> /\ <<>> # <<"q">>
    OBVIOUS
  <2> QED
    BY <1>1, <1>5, <2>1 DEF Asked, OneAtMost, TwoAtMost
<1>7. \A y \in Board : y # who => wire'[y] = wire[y] /\ out'[y] = out[y] /\ (open'[y] <=> open[y])
  BY <1>1 DEF RigInv, TypesInv
<1> QED
  BY <1>1, <1>2, <1>3, <1>4, <1>6, <1>7, OthersKept

\* A byte to a board that has none under way.
LEMMA SendKeeps ==
    ASSUME TypesInv, BoardInv, NEW b \in Board, NEW c \in Commands(b), Send(b, c), UNCHANGED board,
           wire[b] = <<>>,
           mode[b] \in Away => c = "q" \/ (c = "i" /\ rx[b] # "none"),
           rx[b] \in {"none", "q", "i", "overrun"},
           c \in {"m", "t"} /\ mode[Peer(b)] \in {"slave", "echo"} => tally[Peer(b)] <= 1
    PROVE  BoardInv' /\ wire'[b] = <<c>> /\ \A y \in Board : y # b => wire'[y] = wire[y]
<1>1. wire'[b] = <<c>>
  <2>1. wire'[b] = Append(<<>>, c)
    BY DEF Send, TypesInv
  <2> QED
    BY <2>1, OneLine
<1>2. \A y \in Board : y # b => wire'[y] = wire[y]
  BY DEF Send, TypesInv
<1>3. \A d, e : <<d>> # <<>> /\ (<<d>> = <<e>> => d = e)
  OBVIOUS
<1>4. BoardOK(b)'
  <2>1. mode[b] \in Away => <<c>> \in {<<>>, <<"q">>, <<"i">>} /\ (<<c>> = <<"i">> => rx[b] # "none")
    BY <1>3
  <2> QED
    BY <1>1, <2>1 DEF BoardInv, BoardOK, board, Commands
<1>5. ServedOK(b)'
  <2>1. ASSUME NEW m \in DOMAIN Server, mode'[Peer(b)] = Server[m]
        PROVE  /\ mode'[b] = m => tally'[Peer(b)] + left'[b] <= Burst + 1
               /\ Pending(b, Drive[Server[m]])' => tally'[Peer(b)] <= 1
    <3>1. Server[m] \in {"slave", "echo"} /\ Drive[Server[m]] \in {"m", "t"}
      BY DEF Server, Drive
    <3>2. CASE <<c>> = <<Drive[Server[m]]>>
      <4>1. tally'[Peer(b)] <= 1
        BY <1>3, <2>1, <3>1, <3>2 DEF board
      <4> QED
        BY <2>1, <4>1 DEF BoardInv, ServedOK, board
    <3>3. CASE <<c>> # <<Drive[Server[m]]>>
      BY <1>1, <2>1, <3>3 DEF BoardInv, ServedOK, board, Pending
    <3> QED
      BY <3>2, <3>3
  <2> QED
    BY <2>1 DEF ServedOK
<1>6. ASSUME NEW y \in Board, y # b  PROVE BoardOK(y)' /\ ServedOK(y)'
  BY <1>2, <1>6 DEF BoardInv, BoardOK, ServedOK, Pending, board, Commands
<1>7. \A y \in Board : CleanOK(y)'
  BY DEF BoardInv, CleanOK, board
<1> QED
  BY <1>1, <1>2, <1>4, <1>5, <1>6, <1>7 DEF BoardInv

LEMMA PopKeeps ==
    ASSUME RigInv, Pop
    PROVE  RigInv'
<1>1. /\ phase = "pop" /\ phase' = "gap" /\ UNCHANGED <<board, plan, out, open, who, found>>
      /\ Send(who, "q")
  BY DEF Pop, Go
<1>2. who \in Board /\ who \notin found /\ Asked(who) /\ Identifying
  BY <1>1, WhoNotFound DEF Identifying
<1>3. wire[who] = <<>> /\ rx[who] \in {"none", "q", "overrun"} /\ OneAtMost(who) /\ open[who]
  BY <1>1, <1>2 DEF Asked
<1>4. "q" \in Commands(who) /\ "q" \notin {"m", "t"}
  BY DEF Commands, Listed
<1>5. BoardInv' /\ wire'[who] = <<"q">> /\ \A y \in Board : y # who => wire'[y] = wire[y]
  BY <1>1, <1>2, <1>3, <1>4, SendKeeps DEF RigInv
<1>6. TypesInv'
  BY <1>1 DEF RigInv, TypesInv, board, plan, Send
<1>7. Asked(who)'
  <2>1. <<"q">> # <<"i">>
    OBVIOUS
  <2> QED
    BY <1>1, <1>2, <1>3, <1>5, <2>1 DEF Asked, OneAtMost, TwoAtMost, board
<1> QED
  BY <1>1, <1>2, <1>5, <1>6, <1>7, OthersKept

LEMMA AskKeeps ==
    ASSUME RigInv, Ask
    PROVE  RigInv'
<1>1. /\ phase = "gap" /\ phase' = "listen" /\ UNCHANGED <<board, plan, out, open, who, found>>
      /\ Send(who, "i") /\ wire[who] = <<>>
  BY DEF Ask, Go, Drained
<1>2. who \in Board /\ who \notin found /\ Asked(who) /\ Identifying
  BY <1>1, WhoNotFound DEF Identifying
<1>3. rx[who] \in {"none", "q", "overrun"} /\ OneAtMost(who) /\ open[who]
      /\ (mode[who] \in Away => rx[who] # "none")
  <2>1. <<>> # <<"q">>
    OBVIOUS
  <2> QED
    BY <1>1, <1>2, <2>1 DEF Asked
<1>4. "i" \in Commands(who) /\ "i" \notin {"m", "t"}
  BY DEF Commands, Listed
<1>5. BoardInv' /\ wire'[who] = <<"i">> /\ \A y \in Board : y # who => wire'[y] = wire[y]
  BY <1>1, <1>2, <1>3, <1>4, SendKeeps DEF RigInv
<1>6. TypesInv'
  BY <1>1 DEF RigInv, TypesInv, board, plan, Send
<1>7. Asked(who)'
  <2>1. <<"q">> # <<"i">>
    OBVIOUS
  <2> QED
    BY <1>1, <1>2, <1>3, <1>5, <2>1 DEF Asked, OneAtMost, TwoAtMost, board
<1> QED
  BY <1>1, <1>2, <1>5, <1>6, <1>7, OthersKept

LEMMA IdentifiedKeeps ==
    ASSUME RigInv, Identified
    PROVE  RigInv'
<1>1. /\ phase = "listen" /\ phase' = "reopen" /\ UNCHANGED <<board, plan, wire, who, found>>
      /\ out[who] # <<>>
      /\ open' = [open EXCEPT ![who] = FALSE] /\ out' = [out EXCEPT ![who] = <<>>]
  BY DEF Identified, Go
<1>2. who \in Board /\ who \notin found /\ Asked(who) /\ Identifying
  BY <1>1, WhoNotFound DEF Identifying
<1>3. TypesInv'
  BY <1>1, <1>2 DEF RigInv, TypesInv, board, plan
<1>4. BoardInv'
  BY <1>1, BoardsKept DEF RigInv
<1>5. ~open'[who] /\ out'[who] = <<>>
  BY <1>1, <1>2 DEF RigInv, TypesInv
<1>6. Asked(who)'
  BY <1>1, <1>2, <1>5 DEF Asked, OneAtMost, TwoAtMost, board
<1>7. \A y \in Board : y # who => wire'[y] = wire[y] /\ out'[y] = out[y] /\ (open'[y] <=> open[y])
  BY <1>1 DEF RigInv, TypesInv
<1> QED
  BY <1>1, <1>2, <1>3, <1>4, <1>6, <1>7, OthersKept

LEMMA SkipLineKeeps ==
    ASSUME RigInv, SkipLine
    PROVE  RigInv'
<1>1. /\ phase = "listen" /\ phase' = "listen" /\ UNCHANGED <<board, plan, wire, who, found, open>>
      /\ out[who] # <<>> /\ out' = [out EXCEPT ![who] = Tail(@)]
  BY DEF SkipLine, Go
<1>2. who \in Board /\ who \notin found /\ Asked(who) /\ Identifying
  BY <1>1, WhoNotFound DEF Identifying
<1>3. TypesInv'
  BY <1>1, <1>2 DEF RigInv, TypesInv, board, plan
<1>4. BoardInv'
  BY <1>1, BoardsKept DEF RigInv
<1>5. out'[who] = Tail(out[who])
  BY <1>1, <1>2 DEF RigInv, TypesInv
<1>6. OneAtMost(who)' /\ mode[who] = "idle"
  <2>1. TwoAtMost(who) /\ mode[who] = "idle"
    BY <1>1, <1>2 DEF Asked
  <2>2. ASSUME NEW l, out[who] = <<l>>  PROVE out'[who] = <<>>
    BY <1>5, <2>2, OneLine
  <2>3. ASSUME NEW k, NEW l, out[who] = <<k, l>>  PROVE out'[who] = <<l>>
    BY <1>5, <2>3, OneLine
  <2> QED
    BY <1>1, <2>1, <2>2, <2>3 DEF OneAtMost, TwoAtMost
<1>7. Asked(who)'
  BY <1>1, <1>2, <1>6 DEF Asked, TwoAtMost, board
<1>8. \A y \in Board : y # who => wire'[y] = wire[y] /\ out'[y] = out[y] /\ (open'[y] <=> open[y])
  BY <1>1 DEF RigInv, TypesInv
<1> QED
  BY <1>1, <1>2, <1>3, <1>4, <1>7, <1>8, OthersKept

LEMMA RetryKeeps ==
    ASSUME RigInv, Retry
    PROVE  RigInv'
<1>1. /\ phase = "listen" /\ phase' = "pop" /\ UNCHANGED <<board, plan, wire, who, found, open, out>>
      /\ out[who] = <<>> /\ wire[who] = <<>> /\ (mode[who] \in Polling => rx[who] = "none")
  BY DEF Retry, Go, line, Drained
<1>2. who \in Board /\ who \notin found /\ Asked(who) /\ Identifying
  BY <1>1, WhoNotFound DEF Identifying
<1>3. TypesInv'
  BY <1>1, <1>2 DEF RigInv, TypesInv, board, plan
<1>4. BoardInv'
  BY <1>1, BoardsKept DEF RigInv
<1>5. rx[who] \in {"none", "q", "overrun"}
  <2>1. mode[who] \in Polling \/ mode[who] \in Away \/ mode[who] = "boot"
    BY <1>2 DEF RigInv, TypesInv, Away
  <2> QED
    BY <1>1, <1>2, <2>1 DEF RigInv, BoardInv, BoardOK
<1>6. Asked(who)'
  <2>1. <<>> # <<"i">> /\ <<>> # <<"q">>
    OBVIOUS
  <2> QED
    BY <1>1, <1>2, <1>5, <2>1 DEF Asked, OneAtMost, TwoAtMost, board
<1> QED
  BY <1>1, <1>2, <1>3, <1>4, <1>6, OthersKept

LEMMA ReopenKeeps ==
    ASSUME RigInv, Reopen
    PROVE  RigInv'
<1>1. /\ phase = "reopen" /\ phase' = "settle" /\ UNCHANGED <<board, plan, wire, out, who, found>>
      /\ open' = [open EXCEPT ![who] = TRUE]
  BY DEF Reopen, Go
<1>2. who \in Board /\ who \notin found /\ Asked(who) /\ Identifying
  BY <1>1, WhoNotFound DEF Identifying
<1>3. TypesInv'
  BY <1>1, <1>2 DEF RigInv, TypesInv, board, plan
<1>4. BoardInv'
  BY <1>1, BoardsKept DEF RigInv
<1>5. open'[who]
  BY <1>1, <1>2 DEF RigInv, TypesInv
<1>6. Asked(who)'
  BY <1>1, <1>2, <1>5 DEF Asked, OneAtMost, TwoAtMost, board
<1>7. \A y \in Board : y # who => wire'[y] = wire[y] /\ out'[y] = out[y] /\ (open'[y] <=> open[y])
  BY <1>1 DEF RigInv, TypesInv
<1> QED
  BY <1>1, <1>2, <1>3, <1>4, <1>6, <1>7, OthersKept

LEMMA SettleKeeps ==
    ASSUME RigInv, Settle
    PROVE  RigInv'
<1>1. /\ phase = "settle" /\ phase' = (IF found = {} THEN "open" ELSE "suites")
      /\ UNCHANGED <<board, plan, wire, open>> /\ out' = [out EXCEPT ![who] = <<>>]
      /\ found' = found \cup {who} /\ who' = Peer(who)
      /\ wire[who] = <<>> /\ (mode[who] \in Polling => rx[who] = "none")
  BY DEF Settle, Go, Drained
<1>2. who \in Board /\ who \notin found /\ Asked(who) /\ Identifying
  BY <1>1, WhoNotFound DEF Identifying
<1>3. TypesInv'
  BY <1>1, <1>2, PeerFacts DEF RigInv, TypesInv, board, plan
<1>4. BoardInv'
  BY <1>1, BoardsKept DEF RigInv
<1>5. mode[who] = "idle" /\ open[who] /\ rx[who] = "none"
  BY <1>1, <1>2 DEF Asked, Polling
<1>6. out'[who] = <<>> /\ \A y \in Board : y # who => out'[y] = out[y]
  BY <1>1, <1>2 DEF RigInv, TypesInv
<1>8. \A y \in Board : y = who => mode'[y] = "idle" /\ wire'[y] = <<>> /\ rx'[y] = "none"
                                   /\ out'[y] = <<>> /\ open'[y]
  BY <1>1, <1>5, <1>6 DEF board
<1>9. \A y \in Board : y = who => Ready(y, "idle")' /\ open'[y]
  BY <1>8 DEF Ready, Rests, Tidy
<1>10. todo' = <<>> /\ suite' = 0
  BY <1>1, <1>2 DEF RigInv, HostInv, plan
<1>11. CASE found = {}
  <2>1. ASSUME NEW y \in Board, y # who  PROVE Untouched(y)'
    <3>1. Untouched(y)
      BY <1>2, <1>11, <2>1 DEF RigInv, HostInv
    <3> QED
      BY <1>1, <1>6, <2>1, <3>1 DEF Untouched, board
  <2>2. found' = {who} /\ Peer(who') = who /\ phase' = "open"
    BY <1>1, <1>2, <1>11, PeerFacts
  <2>3. who \in Board
    BY <1>2
  <2>5. \A y \in Board \ found' : Untouched(y)'
    BY <2>1, <2>2
  <2>6. /\ (phase = "stopped" => found = {})'
        /\ (phase = "stopped" => \A b \in Board : ~open[b] /\ out[b] = <<>>)'
        /\ (phase \notin {"suites", "failed"} => todo = <<>> /\ suite = 0)'
        /\ (phase = "failed" => Failing)'
    BY <1>10, <2>2
  <2>7. \A y \in found' : Ready(y, "idle")' /\ open'[y]
    BY <1>9, <2>2, <2>3
  <2>8. HostInv'
    BY <2>2, <2>5, <2>6, <2>7 DEF HostInv
  <2>9. SuiteInv'
    BY <2>2 DEF SuiteInv
  <2> QED
    BY <1>3, <1>4, <2>8, <2>9 DEF RigInv
<1>12. CASE found = {Peer(who)}
  <2>1. phase' = "suites"
    BY <1>1, <1>12
  <2>2. ASSUME NEW y \in Board, y # who  PROVE Ready(y, "idle")' /\ open'[y]
    <3>1. y = Peer(who)
      BY <1>2, <2>2, PeerFacts
    <3>2. Ready(y, "idle") /\ open[y]
      BY <1>2, <1>12, <3>1 DEF RigInv, HostInv
    <3> QED
      BY <1>1, <1>6, <2>2, <3>2 DEF Ready, Rests, Tidy, board
  <2>3. AtRest(<<>>)'
    BY <1>9, <1>10, <2>2 DEF AtRest
  <2>4. SuiteInv'
    BY <1>9, <2>2, <2>3, ScriptsEmpty DEF SuiteInv, InScript
  <2> QED
    BY <1>3, <1>4, <2>1, <2>4 DEF RigInv, HostInv, Identifying
<1> QED
  BY <1>2, <1>11, <1>12 DEF RigInv, HostInv
-----------------------------------------------------------------------------
\* What the suite does next, and that its boards are ready for it.
Suits(b, c, n) ==
    /\ Ready(b, n)
    /\ c \in Commands(b)
    /\ IF c = "q" THEN n \in SubMode ELSE n = "idle"
    /\ c \in {"m", "t"} /\ mode[Peer(b)] \in {"slave", "echo"} => tally[Peer(b)] <= 1

Due ==
    \/ \E b \in Board : \E c, n : Head(todo) = SendStep(b, c) /\ Suits(b, c, n)
    \/ \E b \in Board : Head(todo) = Nap(b)
    \/ Head(todo) = GivenUp
    \/ \E b \in Board : \E t : Head(todo) = Look(b, t) /\ Coming(b, t)
    \/ \E b \in Board : \E t, v : Head(todo) = Expect(b, t, v) /\ Coming(b, t)

\* What makes an answer come: a command not yet taken,
LEMMA ToldComes ==
    ASSUME NEW b, NEW m, NEW c, NEW t, Told(b, m, c), c \notin {"none", "overrun"}, Receives(b, t)
    PROVE  Coming(b, t)
<1>1. Len(<<c>>) = 1
  BY OneLine
<1> QED
  BY <1>1 DEF Told, Coming

\* a line under way,
LEMMA SaidComes ==
    ASSUME NEW b, NEW m, NEW t, NEW v, Said(b, m, t, v)
    PROVE  Coming(b, t)
<1>1. CASE out[b] = <<<<t, v>>>>
  <2>1. 1 \in DOMAIN out[b] /\ out[b][1] = <<t, v>>
    BY <1>1
  <2>2. out[b][1][1] = t
    BY <2>1
  <2> QED
    BY <2>1, <2>2 DEF Coming
<1>2. CASE out[b] = <<<<"READY", b>>, <<t, v>>>>
  <2>1. 2 \in DOMAIN out[b] /\ out[b][2] = <<t, v>>
    BY <1>2
  <2>2. out[b][2][1] = t
    BY <2>1
  <2> QED
    BY <2>1, <2>2 DEF Coming
<1> QED
  BY <1>1, <1>2 DEF Said

\* or a burst not yet done.
LEMMA BusyComes ==
    ASSUME NEW b, NEW m \in Busy, Ready(b, m)
    PROVE  Coming(b, Result[m])
BY DEF Ready, Rests, Coming

\* The commands of a part are for the boards they are sent to.
LEMMA Calls ==
    /\ \A c \in Questions : /\ c \notin {"none", "overrun", "q", "m", "t"}
                            /\ \A b \in Board : c \in Commands(b)
                            /\ Answer[c] \notin {Stats[m] : m \in SubMode}
    /\ \A m \in SubMode, b \in Board :
          /\ Serves(m, b) => Enter[m] \in Commands(b) /\ Drive[m] \in Commands(Peer(b))
          /\ Enter[m] \notin {"none", "overrun", "q", "m", "t"}
          /\ Drive[m] \notin {"none", "overrun", "q"}
          /\ Drive[m] \in {"m", "t"} => m # "count"
          /\ Driver[m] \in Busy
          /\ {On[m], Result[Driver[m]]} \cap {Stats[k] : k \in SubMode} = {}
BY PeerFacts DEF Questions, Commands, Listed, Answer, Stats, SubMode, Serves, Enter, Drive, Driver,
      Busy, On, Result, Board, Peer

\* The head of a script.
LEMMA HeadOfThen ==
    ASSUME NEW b \in Board, NEW c \in Words, NEW v \in Values, NEW f \in Seq(Steps)
    PROVE  /\ Head(Then(SendStep(b, c), f)) = SendStep(b, c)
           /\ Head(Then(Expect(b, c, v), f)) = Expect(b, c, v)
           /\ Head(Then(Nap(b), f)) = Nap(b)
BY SendThen, ExpectThen, NapThen

\* In every part, and between two, what is next is due: at rest,
LEMMA RestDue ==
    ASSUME Burst \in Nat, NEW f \in Scripts, f # <<>>, AtRest(f)
    PROVE  Due
<1>1. PICK g \in Scripts, b \in Board :
            \/ \E c \in Questions : f = Asking(b, c, g)
            \/ f = Measuring(b, g)
            \/ \E m \in SubMode : Serves(m, b) /\ f = Session(m, b, g)
            \/ f = Night(b, g)
  BY ScriptsUnfold DEF Part
<1>2. todo = f /\ Ready(b, "idle") /\ g \in Seq(Steps) /\ b \in Values /\ TRUE \in Values /\ 0 \in Values
  BY ScriptsUnfold, ValuesAre DEF AtRest
<1>3. ASSUME NEW c \in Words, NEW h \in Seq(Steps), f = Then(SendStep(b, c), h), c \in Commands(b),
             c \notin {"q", "m", "t"}
      PROVE  Due
  <2>1. Head(todo) = SendStep(b, c)
    BY <1>2, <1>3, SendThen
  <2>2. Suits(b, c, "idle")
    BY <1>2, <1>3 DEF Suits
  <2> QED
    BY <2>1, <2>2 DEF Due
<1>4. ASSUME NEW c \in Questions, f = Asking(b, c, g)
      PROVE  Due
  <2>1. c \in Words /\ Then(Expect(b, Answer[c], b), g) \in Seq(Steps)
    BY <1>2, WordsAre, ExpectThen, Zenon
  <2> QED
    BY <1>3, <1>4, <2>1, Calls DEF Asking
<1>5. CASE f = Measuring(b, g)
  <2>1. "c" \in Words /\ "CAP" \in Words
    BY WordsAre
  <2>2. Then(Expect(b, "CAP", TRUE), g) \in Seq(Steps)
    BY <1>2, <2>1, ExpectThen
  <2> QED
    BY <1>3, <1>5, <2>1, <2>2 DEF Measuring, Commands, Listed
<1>6. ASSUME NEW m \in SubMode, Serves(m, b), f = Session(m, b, g)
      PROVE  Due
  <2>1. Enter[m] \in Words /\ Then(Expect(b, On[m], 0), Driving(m, b, g)) \in Seq(Steps)
    BY <1>2, WordsAre, SessionSeqs
  <2> QED
    BY <1>3, <1>6, <2>1, Calls DEF Session
<1>7. CASE f = Night(b, g)
  <2>1. "w" \in Words /\ Then(Expect(b, "SLEEPING", 0), Napping(b, g)) \in Seq(Steps)
    BY <1>2, WordsAre, NightSeqs
  <2> QED
    BY <1>3, <1>7, <2>1 DEF Night, Commands, Listed
<1> QED
  BY <1>1, <1>4, <1>5, <1>6, <1>7

\* (an expectation is due when its answer comes)
LEMMA ExpectDue ==
    ASSUME NEW b \in Board, NEW t \in Words, NEW v \in Values, NEW g \in Seq(Steps),
           todo = Then(Expect(b, t, v), g), Coming(b, t)
    PROVE  Due
<1>1. Head(todo) = Expect(b, t, v)
  BY ExpectThen, Zenon
<1> QED
  BY <1>1 DEF Due

\* in a question,
LEMMA AskingDue ==
    ASSUME NEW b \in Board, NEW c \in Questions, NEW f \in Seq(Steps), InAsking(b, c, f)
    PROVE  Due
<1>1. Answer[c] \in Words /\ b \in Values
  BY WordsAre, ValuesAre
<1>2. c \notin {"none", "overrun"} /\ Answer[c] \notin {Stats[m] : m \in SubMode}
  BY Calls
<1>3. ASSUME Told(b, "idle", c)  PROVE Coming(b, Answer[c])
  <2>1. Receives(b, Answer[c])
    BY <1>2, <1>3 DEF Receives, Told
  <2> QED
    BY <1>2, <1>3, <2>1, ToldComes, Zenon
<1>4. Said(b, "idle", Answer[c], b) => Coming(b, Answer[c])
  BY SaidComes
<1> QED
  BY <1>1, <1>3, <1>4, ExpectDue DEF InAsking

\* a measurement,
LEMMA MeasuringDue ==
    ASSUME NEW b \in Board, NEW f \in Scripts, InMeasuring(b, f)
    PROVE  Due
<1>1. f \in Seq(Steps) /\ "CAP" \in Words /\ TRUE \in Values
  BY ScriptsUnfold, WordsAre, ValuesAre
<1>2. "CAP" \notin {Stats[m] : m \in SubMode} /\ "measuring" \in Busy /\ Result["measuring"] = "CAP"
  BY DEF Stats, SubMode, Busy, Result
<1>3. ASSUME Told(b, "idle", "c")  PROVE Coming(b, "CAP")
  <2>1. Receives(b, "CAP") /\ "c" \notin {"none", "overrun"}
    BY <1>2, <1>3 DEF Receives, Told
  <2> QED
    BY <1>3, <2>1, ToldComes, Zenon
<1>4. Said(b, "idle", "CAP", TRUE) => Coming(b, "CAP")
  BY SaidComes
<1>5. Ready(b, "measuring") => Coming(b, "CAP")
  BY <1>2, BusyComes
<1> QED
  BY <1>1, <1>3, <1>4, <1>5, ExpectDue DEF InMeasuring

\* a session,
LEMMA SessionDue ==
    ASSUME Burst \in Nat, NEW b \in Board, NEW m \in SubMode, Serves(m, b), NEW f \in Scripts,
           InSession(m, b, f)
    PROVE  Due
<1> DEFINE p == Peer(b)
<1>1. /\ On[m] \in Words /\ Drive[m] \in Words
      /\ Result[Driver[m]] \in Words /\ Stats[m] \in Words /\ "q" \in Words
  BY WordsAre
<1>2. 0 \in Values /\ Burst \in Values /\ TRUE \in Values /\ p \in Board /\ Peer(p) = b
  BY ValuesAre, PeerFacts
<1>3. f \in Seq(Steps)
  BY ScriptsUnfold
<1>4. /\ Leaving(m, b, f) \in Seq(Steps) /\ Driven(m, b, f) \in Seq(Steps)
      /\ Driving(m, b, f) \in Seq(Steps)
      /\ Then(Expect(b, Stats[m], Burst), f) \in Seq(Steps)
  BY <1>3, SessionSeqs
<1>5. CASE Entering(m, b, f)
  <2>1. Told(b, "idle", Enter[m]) => Coming(b, On[m])
    <3>1. Enter[m] \notin {"none", "overrun"} /\ On[m] \notin {Stats[k] : k \in SubMode}
      BY Calls
    <3> QED
      BY <3>1, ToldComes DEF Receives, Told
  <2>2. Coming(b, On[m])
    BY <1>5, <2>1, SaidComes DEF Entering
  <2> QED
    BY <1>1, <1>2, <1>4, <1>5, <2>2, ExpectDue DEF Entering
<1>6. CASE Entered(m, b, f)
  <2>1. todo = Then(SendStep(p, Drive[m]), Driven(m, b, f)) /\ Ready(p, "idle")
        /\ Counted(m, b) = 0
    BY <1>6 DEF Entered, Driving
  <2>2. Head(todo) = SendStep(p, Drive[m])
    BY <1>1, <1>2, <1>4, <2>1, SendThen
  <2>3. Drive[m] \in {"m", "t"} => tally[b] <= 1
    BY <2>1, Calls DEF Counted
  <2>4. Suits(p, Drive[m], "idle")
    BY <1>2, <2>1, <2>3, Calls DEF Suits
  <2> QED
    BY <1>2, <2>2, <2>4 DEF Due
<1>7. CASE InDrive(m, b, f)
  <2>1. Told(p, "idle", Drive[m]) => Coming(p, Result[Driver[m]])
    <3>1. Drive[m] \notin {"none", "overrun"} /\ Result[Driver[m]] \notin {Stats[k] : k \in SubMode}
      BY Calls
    <3> QED
      BY <3>1, ToldComes DEF Receives, Told
  <2>2. Ready(p, Driver[m]) => Coming(p, Result[Driver[m]])
    BY Calls, BusyComes
  <2>3. Coming(p, Result[Driver[m]])
    BY <1>7, <2>1, <2>2, SaidComes DEF InDrive
  <2> QED
    BY <1>1, <1>2, <1>4, <1>7, <2>3, ExpectDue DEF InDrive, Driven
<1>8. CASE Served(m, b, f)
  <2>1. todo = Then(SendStep(b, "q"), Then(Expect(b, Stats[m], Burst), f)) /\ Ready(b, m)
    BY <1>8 DEF Served, Leaving
  <2>2. Head(todo) = SendStep(b, "q")
    BY <1>1, <1>4, <2>1, SendThen
  <2>3. Suits(b, "q", m)
    BY <2>1 DEF Suits, Commands, Listed
  <2> QED
    BY <2>2, <2>3 DEF Due
<1>9. CASE InLeaving(m, b, f)
  <2>1. Told(b, m, "q") => Coming(b, Stats[m])
    BY ToldComes DEF Receives, Told
  <2>2. Coming(b, Stats[m])
    BY <1>9, <2>1, SaidComes DEF InLeaving
  <2> QED
    BY <1>1, <1>2, <1>3, <1>9, <2>2, ExpectDue DEF InLeaving
<1> QED
  BY <1>5, <1>6, <1>7, <1>8, <1>9 DEF InSession

\* and a night.
LEMMA NightDue ==
    ASSUME NEW b \in Board, NEW f \in Scripts, InNight(b, f)
    PROVE  Due
<1> DEFINE p == Peer(b)
<1>1. "1" \in Words /\ "SLEEPING" \in Words /\ "PULSED" \in Words /\ "WOKE" \in Words
  BY WordsAre
<1>2. 0 \in Values /\ 1 \in Values /\ TRUE \in Values /\ p \in Board /\ Peer(p) = b
  BY ValuesAre, PeerFacts
<1>3. f \in Seq(Steps)
  BY ScriptsUnfold
<1>4. /\ Woken(b, f) \in Seq(Steps) /\ Waking(b, f) \in Seq(Steps)
      /\ Then(Expect(p, "PULSED", TRUE), Woken(b, f)) \in Seq(Steps)
      /\ Napping(b, f) \in Seq(Steps)
  BY <1>3, NightSeqs
<1>5. {"SLEEPING", "PULSED", "WOKE"} \cap {Stats[k] : k \in SubMode} = {}
  BY DEF Stats, SubMode
<1>6. CASE Dozing(b, f)
  <2>1. Told(b, "idle", "w") => Coming(b, "SLEEPING")
    BY <1>5, ToldComes DEF Receives, Told
  <2>2. Coming(b, "SLEEPING")
    BY <1>6, <2>1, SaidComes DEF Dozing
  <2> QED
    BY <1>1, <1>2, <1>4, <1>6, <2>2, ExpectDue DEF Dozing
<1>7. CASE Resting(b, f)
  <2>1. Head(todo) = Nap(b)
    BY <1>4, <1>7, NapThen DEF Resting, Napping
  <2> QED
    BY <2>1 DEF Due
<1>8. CASE Sleeping(b, f)
  <2>1. /\ todo = Then(SendStep(p, "1"), Then(Expect(p, "PULSED", TRUE), Woken(b, f)))
        /\ Ready(p, "idle")
    BY <1>8 DEF Sleeping, Waking
  <2>2. Head(todo) = SendStep(p, "1")
    BY <1>1, <1>2, <1>4, <2>1, SendThen
  <2>3. Suits(p, "1", "idle")
    BY <2>1 DEF Suits, Commands, Listed
  <2> QED
    BY <1>2, <2>2, <2>3 DEF Due
<1>9. CASE InWaking(b, f)
  <2>1. ASSUME Told(p, "idle", "1")  PROVE Coming(p, "PULSED")
    <3>1. Receives(p, "PULSED") /\ "1" \notin {"none", "overrun"}
      BY <1>5, <2>1 DEF Receives, Told
    <3> QED
      BY <2>1, <3>1, ToldComes, Zenon
  <2>2. Ready(p, "pulsing") => Coming(p, "PULSED")
    BY BusyComes DEF Busy, Result
  <2>3. Coming(p, "PULSED")
    BY <1>9, <2>1, <2>2, SaidComes DEF InWaking
  <2> QED
    BY <1>1, <1>2, <1>4, <1>9, <2>3, ExpectDue DEF InWaking
<1>10. CASE InWoken(b, f)
  <2>1. Coming(b, "WOKE")
    BY <1>10, SaidComes DEF InWoken, Awake, Ready, Rests, Coming
  <2> QED
    BY <1>1, <1>2, <1>3, <1>10, <2>1, ExpectDue DEF InWoken, Woken
<1> QED
  BY <1>6, <1>7, <1>8, <1>9, <1>10 DEF InNight

\* The session of a child taken up with something latched, and its end:
LEMMA DumpDue ==
    ASSUME Dumping
    PROVE  Due
<1> DEFINE g == <<GivenUp>>
           h == Asking("child", "B", g)
<1>1. /\ "child" \in Board /\ "parent" \in Board /\ "B" \in Questions
      /\ g \in Seq(Steps) /\ h \in Seq(Steps) /\ Dump = Asking("parent", "B", h)
  BY DumpSeqs DEF Dump
<1>2. CASE AtRest(g)
  <2>1. Head(g) = GivenUp
    OBVIOUS
  <2> QED
    BY <1>2, <2>1 DEF AtRest, Due
<1> HIDE DEF g, h
<1>3. ASSUME NEW b \in Board, NEW k \in Seq(Steps), AtRest(Asking(b, "B", k))  PROVE Due
  <2>1. "B" \in Words /\ Then(Expect(b, Answer["B"], b), k) \in Seq(Steps)
    BY <1>1, WordsAre, ValuesAre, ExpectThen, Zenon
  <2>2. Head(todo) = SendStep(b, "B")
    BY <1>3, <2>1, SendThen DEF AtRest, Asking
  <2>3. Suits(b, "B", "idle")
    BY <1>1, <1>3, Calls DEF Suits, AtRest
  <2> QED
    BY <2>2, <2>3 DEF Due
<1>4. CASE AtRest(Dump) \/ AtRest(h)
  BY <1>1, <1>3, <1>4 DEF h
<1>5. CASE InAsking("parent", "B", h) \/ InAsking("child", "B", g)
  BY <1>1, <1>5, AskingDue
<1> QED
  BY <1>2, <1>4, <1>5 DEF Dumping, g, h

LEMMA SpoiledDue ==
    ASSUME Burst \in Nat, NEW f \in Scripts, Spoiled(f)
    PROVE  Due
<1> DEFINE c == "child"
           p == "parent"
           m == "slave"
<1>1. /\ c \in Board /\ p \in Board /\ Peer(c) = p /\ Peer(p) = c /\ m \in SubMode
      /\ On[m] = "SLAVE_ON" /\ Drive[m] = "m" /\ Driver[m] = "testing" /\ "testing" \in Busy
      /\ Result[Driver[m]] = "I2C_TEST_END" /\ Stats[m] = "SLAVE_STATS" /\ Serves(m, c)
  BY DEF Board, Peer, SubMode, On, Drive, Driver, Result, Stats, Serves, Busy
<1>2. /\ On[m] \in Words /\ Drive[m] \in Words /\ Result[Driver[m]] \in Words
      /\ Stats[m] \in Words /\ "q" \in Words
      /\ 0 \in Values /\ Burst \in Values /\ TRUE \in Values
      /\ f \in Seq(Steps) /\ Leaving(m, c, f) \in Seq(Steps) /\ Driven(m, c, f) \in Seq(Steps)
      /\ Driving(m, c, f) \in Seq(Steps) /\ Then(Expect(c, Stats[m], Burst), f) \in Seq(Steps)
      /\ Looking \in Seq(Steps) /\ Dump \in Seq(Steps)
  BY <1>1, WordsAre, ValuesAre, ScriptsUnfold, SessionSeqs, DumpSeqs
<1>3. CASE SpoiledEntering(f)
  <2>1. todo = Then(Expect(c, On[m], 0), Driving(m, c, f)) /\ Said(c, m, On[m], 0)
    BY <1>3 DEF SpoiledEntering
  <2> QED
    BY <1>1, <1>2, <2>1, SaidComes, ExpectDue
<1>4. CASE SpoiledEntered(f)
  <2>1. todo = Then(SendStep(p, Drive[m]), Driven(m, c, f)) /\ Ready(p, "idle") /\ tally[c] <= 1
    BY <1>1, <1>4 DEF SpoiledEntered, Driving
  <2>2. Head(todo) = SendStep(p, Drive[m])
    BY <1>1, <1>2, <2>1, SendThen
  <2>3. Suits(p, Drive[m], "idle")
    BY <1>1, <2>1, Calls DEF Suits
  <2> QED
    BY <1>1, <2>2, <2>3 DEF Due
<1>5. CASE SpoiledDrive(f)
  <2>1. todo = Then(Expect(p, Result[Driver[m]], TRUE), Leaving(m, c, f))
    BY <1>1, <1>5 DEF SpoiledDrive, Driven
  <2>2. Told(p, "idle", "m") => Coming(p, Result[Driver[m]])
    <3>1. Result[Driver[m]] \notin {Stats[k] : k \in SubMode} /\ "m" \notin {"none", "overrun"}
      BY <1>1, Calls
    <3> QED
      BY <3>1, ToldComes DEF Receives, Told
  <2>3. Ready(p, "testing") => Coming(p, Result[Driver[m]])
    BY <1>1, BusyComes
  <2>4. (\E v : Said(p, "idle", "I2C_TEST_END", v)) => Coming(p, Result[Driver[m]])
    BY <1>1, SaidComes
  <2>5. Coming(p, Result[Driver[m]])
    BY <1>5, <2>2, <2>3, <2>4 DEF SpoiledDrive
  <2> QED
    BY <1>1, <1>2, <2>1, <2>5, ExpectDue
<1>6. CASE SpoiledServed(f)
  <2>1. Ready(c, m)
    BY <1>6 DEF SpoiledServed
  <2>2. PICK h \in {Then(Expect(c, Stats[m], Burst), f), Looking} : todo = Then(SendStep(c, "q"), h)
    BY <1>6, PostMortemIs DEF SpoiledServed, Leaving
  <2>3. Head(todo) = SendStep(c, "q")
    <3>1. h \in Seq(Steps)
      BY <1>2
    <3> QED
      BY <1>1, <1>2, <2>2, <3>1, SendThen
  <2>4. Suits(c, "q", m)
    BY <1>1, <2>1 DEF Suits, Commands, Listed
  <2> QED
    BY <1>1, <2>3, <2>4 DEF Due
<1>7. CASE SpoiledLeaving(f)
  <2>1. Told(c, m, "q") => Coming(c, Stats[m])
    BY <1>1, ToldComes DEF Receives, Told
  <2>2. (\E n : Said(c, "idle", Stats[m], n)) => Coming(c, Stats[m])
    BY SaidComes
  <2>3. Coming(c, Stats[m])
    BY <1>7, <2>1, <2>2 DEF SpoiledLeaving
  <2>4. CASE todo = Then(Expect(c, Stats[m], Burst), f)
    BY <1>1, <1>2, <2>3, <2>4, ExpectDue
  <2>5. CASE todo = Looking
    <3>1. Head(todo) = Look(c, "SLAVE_STATS")
      BY <2>5, DumpSeqs, LookThen, Zenon DEF Looking
    <3> QED
      BY <1>1, <2>3, <3>1 DEF Due
  <2> QED
    BY <1>7, <2>4, <2>5 DEF SpoiledLeaving
<1>8. CASE Dumping
  BY <1>8, DumpDue
<1> QED
  BY <1>3, <1>4, <1>5, <1>6, <1>7, <1>8 DEF Spoiled

\* So that the host in a suite has something due until the script ends.
LEMMA SuiteDue ==
    ASSUME Burst \in Nat, SuiteInv, phase = "suites", todo # <<>>
    PROVE  Due
<1>1. PICK f \in Scripts : InScript(f) \/ Spoiled(f)
  BY DEF SuiteInv
<1>2. (AtRest(f) => f # <<>>) /\ f \in Seq(Steps)
  BY ScriptsUnfold DEF AtRest
<1>3. InScript(f) => Due
  BY <1>2, RestDue, AskingDue, MeasuringDue, SessionDue, NightDue DEF InScript
<1> QED
  BY <1>1, <1>3, SpoiledDue
-----------------------------------------------------------------------------
\* A step of the host in a suite keeps the types,
LEMMA ProceedsTypes ==
    ASSUME TypesInv, Proceeds
    PROVE  TypesInv'
<1>1. UNCHANGED <<board, open, who, found>>
  BY DEF Proceeds, SendCommand, Sleep500, ReadLine, GiveUp, BeginSuite, Doing, line
<1>2. DOMAIN wire' = Board /\ DOMAIN out' = Board
  BY DEF TypesInv, Proceeds, SendCommand, Send, Sleep500, ReadLine, GiveUp, BeginSuite, line
<1>3. suite' \in 0 .. Len(Suites)
  BY SuitesLen DEF TypesInv, Proceeds, SendCommand, Sleep500, ReadLine, GiveUp, BeginSuite, Doing
<1> QED
  BY <1>1, <1>2, <1>3 DEF TypesInv, board

\* the boards, since the board it sends to is ready,
LEMMA ProceedsBoards ==
    ASSUME Burst \in Nat, TypesInv, BoardInv, SuiteInv, Proceeds
    PROVE  BoardInv'
<1>1. CASE Sleep500 \/ ReadLine \/ GiveUp \/ \E s \in DOMAIN Suites : BeginSuite(s)
  BY <1>1, BoardsKept DEF Sleep500, ReadLine, GiveUp, BeginSuite, Doing, line
<1>2. CASE SendCommand
  <2>1. /\ phase = "suites" /\ todo # <<>> /\ Head(todo).act = "send" /\ UNCHANGED board
        /\ Send(Head(todo).on, Head(todo).what)
    BY <1>2 DEF SendCommand, Doing
  <2>2. PICK b \in Board : \E c, n : Head(todo) = SendStep(b, c) /\ Suits(b, c, n)
    <3>1. Due
      BY <2>1, SuiteDue
    <3> QED
      BY <2>1, <3>1 DEF Due, Expect, Look, Nap, GivenUp
  <2>3. PICK c, n : Head(todo) = SendStep(b, c) /\ Suits(b, c, n)
    BY <2>2
  <2>4. Send(b, c) /\ c \in Commands(b) /\ UNCHANGED board
    BY <2>1, <2>3, StepFields DEF Suits
  <2>5. /\ wire[b] = <<>> /\ rx[b] = "none" /\ mode[b] \notin Away
        /\ (c \in {"m", "t"} /\ mode[Peer(b)] \in {"slave", "echo"} => tally[Peer(b)] <= 1)
    BY <2>3 DEF Suits, Ready, Rests, Away, Busy, Asleep, SubMode
  <2> QED
    BY <2>4, <2>5, SendKeeps
<1> QED
  BY <1>1, <1>2 DEF Proceeds

\* and with SuiteInv the whole.
LEMMA ProceedsKeeps ==
    ASSUME Burst \in Nat \ {0}, RigInv, Proceeds
    PROVE  RigInv'
<1>1. phase = "suites"
  BY DEF Proceeds, SendCommand, Sleep500, ReadLine, GiveUp, BeginSuite, Doing
<1>2. /\ TypesInv' /\ BoardInv' /\ SuiteInv'
      /\ phase' = "suites" \/ (phase' = "failed" /\ Failing')
  BY <1>1, ProceedsTypes, ProceedsBoards, ProceedsSuite DEF RigInv
<1>3. HostInv'
  BY <1>2 DEF HostInv, Identifying
<1> QED
  BY <1>2, <1>3 DEF RigInv
-----------------------------------------------------------------------------
\* The invariant holds of two boards that were just powered,
LEMMA InitRig ==
    ASSUME Burst \in Nat \ {0}, Init
    PROVE  RigInv
<1>1. /\ \A b \in Board : /\ mode[b] = "boot" /\ rx[b] = "none" /\ b0[b] = "free" /\ wire[b] = <<>>
                          /\ out[b] = <<>> /\ ~open[b]
      /\ phase = "stopped" /\ found = {} /\ suite = 0 /\ todo = <<>>
  BY DEF Init, PoweredUp, OnAll
<1>2. TypesInv
  BY SuitesLen DEF Init, PoweredUp, OnAll, TypesInv, Board, Command
<1>3. BoardInv
  <2>1. \A b \in Board : mode[Peer(b)] = "boot"
    BY <1>1, PeerFacts
  <2> QED
    BY <1>1, <2>1 DEF BoardInv, BoardOK, ServedOK, CleanOK, Away, Busy, Asleep, Server
<1>4. HostInv /\ SuiteInv
  BY <1>1 DEF HostInv, SuiteInv, Identifying
<1> QED
  BY <1>2, <1>3, <1>4 DEF RigInv

\* of a state in which nothing happens,
LEMMA StandsStill ==
    ASSUME SuiteInv, UNCHANGED vars
    PROVE  SuiteInv'
<1>1. UNCHANGED <<phase, todo, open, edges, tally, tainted>>
  BY DEF vars
<1>2. ASSUME NEW b  PROVE Kept(b) /\ edges'[b] = edges[b] /\ left'[b] = left[b] /\ good'[b] = good[b]
  BY DEF vars, Kept
<1>3. \A f : AtRest(f) => AtRest(f)'
  BY <1>1, <1>2, KeptStates DEF AtRest
<1>4. \A b, c, f : InAsking(b, c, f) => InAsking(b, c, f)'
  BY <1>1, <1>2, KeptStates DEF InAsking
<1>5. \A b, f : InMeasuring(b, f) => InMeasuring(b, f)'
  BY <1>1, <1>2, KeptStates DEF InMeasuring
<1>6. ASSUME NEW m, NEW b, NEW f  PROVE InSession(m, b, f) => InSession(m, b, f)'
  <2>1. Entering(m, b, f) => Entering(m, b, f)'
    BY <1>1, <1>2, KeptStates DEF Entering
  <2>2. Entered(m, b, f) => Entered(m, b, f)'
    BY <1>1, <1>2, KeptStates DEF Entered
  <2>3. InDrive(m, b, f) => InDrive(m, b, f)'
    BY <1>1, <1>2, KeptStates DEF InDrive
  <2>4. Served(m, b, f) => Served(m, b, f)'
    BY <1>1, <1>2, KeptStates DEF Served
  <2>5. InLeaving(m, b, f) => InLeaving(m, b, f)'
    BY <1>1, <1>2, KeptStates DEF InLeaving
  <2> QED
    BY <2>1, <2>2, <2>3, <2>4, <2>5 DEF InSession
<1>7. ASSUME NEW b, NEW f  PROVE InNight(b, f) => InNight(b, f)'
  <2>1. Awake(b) => Awake(b)'
    BY <1>2, KeptStates DEF Awake
  <2>2. Dozing(b, f) => Dozing(b, f)'
    BY <1>1, <1>2, KeptStates DEF Dozing
  <2>3. Resting(b, f) => Resting(b, f)'
    BY <1>1, <1>2, KeptStates DEF Resting
  <2>4. Sleeping(b, f) => Sleeping(b, f)'
    BY <1>1, <1>2, KeptStates DEF Sleeping
  <2>5. InWaking(b, f) => InWaking(b, f)'
    BY <1>1, <1>2, <2>1, KeptStates DEF InWaking
  <2>6. InWoken(b, f) => InWoken(b, f)'
    BY <1>1, <1>2, <2>1, KeptStates DEF InWoken
  <2> QED
    BY <2>2, <2>3, <2>4, <2>5, <2>6 DEF InNight
<1>8. ASSUME NEW f  PROVE InScript(f) => InScript(f)'
  BY <1>3, <1>4, <1>5, <1>6, <1>7 DEF InScript, Serves
<1>9. ASSUME NEW f  PROVE Spoiled(f) => Spoiled(f)'
  <2>1. Dumping => Dumping'
    BY <1>3, <1>4 DEF Dumping
  <2>2. SpoiledEntering(f) => SpoiledEntering(f)'
    BY <1>1, <1>2, KeptStates DEF SpoiledEntering
  <2>3. SpoiledEntered(f) => SpoiledEntered(f)'
    BY <1>1, <1>2, KeptStates DEF SpoiledEntered
  <2>4. SpoiledDrive(f) => SpoiledDrive(f)'
    BY <1>1, <1>2, KeptStates DEF SpoiledDrive
  <2>5. SpoiledServed(f) => SpoiledServed(f)'
    BY <1>1, <1>2, KeptStates DEF SpoiledServed
  <2>6. SpoiledLeaving(f) => SpoiledLeaving(f)'
    BY <1>1, <1>2, KeptStates DEF SpoiledLeaving
  <2> QED
    BY <1>1, <2>1, <2>2, <2>3, <2>4, <2>5, <2>6 DEF Spoiled
<1> QED
  BY <1>1, <1>8, <1>9 DEF SuiteInv

\* and after every step.
LEMMA NextRig ==
    ASSUME Burst \in Nat \ {0}, RigInv, [Next]_vars
    PROVE  RigInv'
<1>1. CASE Next
  <2>1. CASE OpenPort \/ Pop \/ Ask \/ Identified \/ SkipLine \/ Retry \/ Reopen \/ Settle
    BY <2>1, OpenPortKeeps, PopKeeps, AskKeeps, IdentifiedKeeps, SkipLineKeeps, RetryKeeps,
       ReopenKeeps, SettleKeeps
  <2>2. CASE Proceeds
    BY <2>2, ProceedsKeeps
  <2>3. CASE Passed \/ Failed \/ Abort
    BY <2>3, StopKeeps DEF Passed, Failed, Abort
  <2>4. ASSUME NEW b \in Board, RunSuites(b)  PROVE RigInv'
    BY <2>4, StartKeeps
  <2>5. ASSUME NEW b \in Board, Moves(b)  PROVE RigInv'
    BY <2>5, MovesTypes, MovesBoards, MovesHost, MovesSuite DEF RigInv
  <2> QED
    BY <1>1, <2>1, <2>2, <2>3, <2>4, <2>5 DEF Next, HostRuns, Proceeds, Moves
<1>2. CASE UNCHANGED vars
  <2>1. TypesInv'
    BY <1>2 DEF vars, RigInv, TypesInv
  <2>2. BoardInv'
    BY <1>2, BoardsKept DEF vars, board, RigInv
  <2>3. HostInv'
    BY <1>2 DEF vars, RigInv, HostInv, Identifying, Failing, Ready, Rests, Tidy, Untouched, Asked,
        OneAtMost, TwoAtMost
  <2>4. SuiteInv'
    BY <1>2, StandsStill DEF RigInv
  <2> QED
    BY <2>1, <2>2, <2>3, <2>4 DEF RigInv
<1> QED
  BY <1>1, <1>2

\* The inductive invariant holds of every behaviour of boards and hosts, for
\* bursts of every length.
THEOREM RigAlways ==
    ASSUME Burst \in Nat \ {0}
    PROVE  Spec => []RigInv
<1>1. Init => RigInv
  BY InitRig
<1>2. RigInv /\ [Next]_vars => RigInv'
  BY NextRig
<1> QED
  BY <1>1, <1>2, PTL DEF Spec

LEMMA RigVerdicts ==
    ASSUME RigInv
    PROVE  VerdictsHonest
BY DEF RigInv, HostInv, Failing, VerdictsHonest

LEMMA RigHears ==
    ASSUME Burst \in Nat \ {0}, RigInv
    PROVE  CommandsHeard
<1>1. SUFFICES ASSUME phase = "suites", todo # <<>>
               PROVE  LET s == Head(todo) IN
                        /\ s.act = "send" => Clean(s.on, s.what)
                        /\ s.act \in {"expect", "look"} => Coming(s.on, s.what)
  BY DEF CommandsHeard
<1>2. Due
  BY <1>1, SuiteDue DEF RigInv
<1>3. ASSUME NEW b \in Board, NEW c, NEW n, Head(todo) = SendStep(b, c), Suits(b, c, n)
      PROVE  Clean(b, c)
  <2>1. wire[b] = <<>> /\ rx[b] = "none" /\ mode[b] = n
        /\ IF c = "q" THEN n \in SubMode ELSE n = "idle"
    BY <1>3 DEF Suits, Ready, Rests
  <2>2. \A k \in DOMAIN out[b] : out[b][k][1] = "READY"
    <3>1. out[b] = <<>> \/ out[b] = <<<<"READY", b>>>>
      BY <1>3 DEF Suits, Ready, Tidy
    <3>2. \A k \in DOMAIN <<>> : FALSE
      OBVIOUS
    <3>3. \A k \in DOMAIN <<<<"READY", b>>>> : <<<<"READY", b>>>>[k] = <<"READY", b>>
      OBVIOUS
    <3>4. <<"READY", b>>[1] = "READY"
      OBVIOUS
    <3> QED
      BY <3>1, <3>2, <3>3, <3>4, Zenon
  <2> QED
    BY <2>1, <2>2 DEF Clean
<1>4. CASE \E b \in Board : \E c, n : Head(todo) = SendStep(b, c) /\ Suits(b, c, n)
  BY <1>3, <1>4, StepFields
<1>5. CASE \E b \in Board : Head(todo) = Nap(b)
  BY <1>5, StepFields
<1>6. CASE \E b \in Board : \E t, v : Head(todo) = Expect(b, t, v) /\ Coming(b, t)
  BY <1>6, StepFields
<1>7. CASE \E b \in Board : \E t : Head(todo) = Look(b, t) /\ Coming(b, t)
  BY <1>7, StepFields
<1>8. CASE Head(todo) = GivenUp
  BY <1>8, StepFields
<1> QED
  BY <1>2, <1>4, <1>5, <1>6, <1>7, <1>8 DEF Due

\* No board has more than two lines under way,
LEMMA FewLines ==
    ASSUME NEW b
    PROVE  /\ \A m : Ready(b, m) => TwoAtMost(b)
           /\ \A m, c : Told(b, m, c) => TwoAtMost(b)
           /\ \A m, t, v : Said(b, m, t, v) => TwoAtMost(b)
           /\ Untouched(b) => TwoAtMost(b)
           /\ Asked(b) => TwoAtMost(b)
           /\ Awake(b) => TwoAtMost(b)
           /\ TwoAtMost(b) => Len(out[b]) <= 2
<1>1. Tidy(b) => TwoAtMost(b)
  BY DEF Tidy, TwoAtMost, OneAtMost
<1>2. \A t, v : out[b] = <<<<t, v>>>> \/ out[b] = <<<<"READY", b>>, <<t, v>>>> => TwoAtMost(b)
  BY Zenon DEF TwoAtMost, OneAtMost
<1>3. ASSUME NEW m, NEW t, NEW v, Said(b, m, t, v)  PROVE TwoAtMost(b)
  <2>1. out[b] = <<<<t, v>>>> \/ out[b] = <<<<"READY", b>>, <<t, v>>>>
    BY <1>3 DEF Said
  <2> QED
    BY <1>2, <2>1, Zenon
<1>4. \A m : Ready(b, m) => TwoAtMost(b)
  BY <1>1, Zenon DEF Ready
<1>5. ASSUME TwoAtMost(b)  PROVE Len(out[b]) <= 2
  <2>1. Len(out[b]) = 0 \/ Len(out[b]) = 1 \/ Len(out[b]) = 2
    BY <1>5, OneLine, Zenon DEF TwoAtMost, OneAtMost
  <2>2. 0 <= 2 /\ 1 <= 2 /\ 2 <= 2
    OBVIOUS
  <2> QED
    BY <2>1, <2>2, Zenon
<1>6. \A m, c : Told(b, m, c) => TwoAtMost(b)
  BY <1>1, Zenon DEF Told
<1> QED
  BY <1>3, <1>4, <1>5, <1>6, Zenon DEF Untouched, Asked, Awake, TwoAtMost, OneAtMost

\* in a suite,
LEMMA SuiteLines ==
    ASSUME SuiteInv, phase = "suites", NEW y \in Board
    PROVE  TwoAtMost(y)
<1>1. PICK f \in Scripts : InScript(f) \/ Spoiled(f)
  BY DEF SuiteInv
<1>2. CASE AtRest(f)
  BY <1>2, FewLines DEF AtRest
<1>3. ASSUME NEW b \in Board, TwoAtMost(b), TwoAtMost(Peer(b))
      PROVE  TwoAtMost(y)
  BY <1>3, PeerFacts
<1>4. ASSUME NEW b \in Board, NEW c \in Questions, NEW g, InAsking(b, c, g)
      PROVE  TwoAtMost(y)
  <2>1. TwoAtMost(b) /\ TwoAtMost(Peer(b))
    BY <1>4, FewLines, Zenon DEF InAsking
  <2> QED
    BY <1>3, <2>1
<1>5. ASSUME NEW b \in Board, InMeasuring(b, f)
      PROVE  TwoAtMost(y)
  <2>1. TwoAtMost(b) /\ TwoAtMost(Peer(b))
    BY <1>5, FewLines, Zenon DEF InMeasuring
  <2> QED
    BY <1>3, <2>1
<1>6. ASSUME NEW b \in Board, NEW m \in SubMode, InSession(m, b, f)
      PROVE  TwoAtMost(y)
  <2>1. TwoAtMost(b) /\ TwoAtMost(Peer(b))
    BY <1>6, FewLines, Zenon DEF InSession, Entering, Entered, InDrive, Served, InLeaving
  <2> QED
    BY <1>3, <2>1
<1>7. ASSUME NEW b \in Board, InNight(b, f)
      PROVE  TwoAtMost(y)
  <2>1. TwoAtMost(b) /\ TwoAtMost(Peer(b))
    BY <1>7, FewLines, Zenon DEF InNight, Dozing, Resting, Sleeping, InWaking, InWoken
  <2> QED
    BY <1>3, <2>1
<1>8. CASE Spoiled(f)
  <2>1. "child" \in Board /\ "parent" \in Board /\ Peer("child") = "parent"
        /\ Peer("parent") = "child" /\ "B" \in Questions
    BY DEF Board, Peer, Questions
  <2>2. CASE Dumping
    <3>1. AtRest(Dump) \/ AtRest(Asking("child", "B", <<GivenUp>>)) \/ AtRest(<<GivenUp>>)
             => TwoAtMost(y)
      BY FewLines DEF AtRest
    <3> QED
      BY <1>4, <2>1, <2>2, <3>1 DEF Dumping
  <2>3. CASE ~Dumping
    <3>1. TwoAtMost("child") /\ TwoAtMost("parent")
      BY <1>8, <2>3, FewLines, Zenon DEF Spoiled, SpoiledEntering, SpoiledEntered, SpoiledDrive,
         SpoiledServed, SpoiledLeaving
    <3> QED
      BY <1>3, <2>1, <3>1
  <2> QED
    BY <2>2, <2>3
<1> QED
  BY <1>1, <1>2, <1>4, <1>5, <1>6, <1>7, <1>8 DEF InScript

\* or elsewhere.
LEMMA RigTypes ==
    ASSUME Burst \in Nat \ {0}, RigInv
    PROVE  TypeOK
<1>1. ASSUME NEW b \in Board  PROVE Len(wire[b]) <= 2
  <2>1. wire[b] = <<>> \/ \E c : wire[b] = <<c>>
    BY DEF RigInv, BoardInv, BoardOK
  <2>2. Len(wire[b]) = 0 \/ Len(wire[b]) = 1
    BY <2>1, OneLine, Zenon
  <2>3. 0 <= 2 /\ 1 <= 2 /\ 2 <= 2
    OBVIOUS
  <2> QED
    BY <2>2, <2>3, Zenon
<1>2. ASSUME NEW b \in Board  PROVE Len(out[b]) <= 2
  <2>1. CASE phase = "stopped"
    BY <2>1, OneLine DEF RigInv, HostInv
  <2>2. CASE Identifying
    <3>1. CASE b \in found
      BY <2>2, <3>1, FewLines DEF RigInv, HostInv
    <3>2. CASE b \notin found
      BY <2>2, <3>2, FewLines DEF RigInv, HostInv
    <3> QED
      BY <3>1, <3>2
  <2>3. CASE phase = "suites"
    BY <2>3, SuiteLines, FewLines DEF RigInv
  <2>4. CASE phase = "failed"
    BY <2>4, FewLines DEF RigInv, HostInv, Failing
  <2> QED
    BY <2>1, <2>2, <2>3, <2>4 DEF RigInv, HostInv, Identifying
<1>3. phase \in {"stopped", "open", "pop", "gap", "listen", "reopen", "settle",
                 "suites", "failed", "brand"}
  BY DEF RigInv, HostInv
<1> QED
  BY <1>1, <1>2, <1>3 DEF RigInv, TypesInv, TypeOK
-----------------------------------------------------------------------------
\* Every variable keeps its type, no more than two bytes or lines are under way,
\* and no tally outgrows the burst by more than the STOP a slave found latched
\* when it was taken up (two_board_fixture.rs).
THEOREM RigTypesCorrect ==
    ASSUME Burst \in Nat \ {0}
    PROVE  Spec => []TypeOK
<1>1. RigInv => TypeOK
  BY RigTypes
<1> QED
  BY <1>1, RigAlways, PTL

\* Whatever the host before left behind, a suite sends each command to a board
\* that is ready for it, and waits only for an answer that is coming
\* (boards.rs:103-107, 163-165).
THEOREM RigHeard ==
    ASSUME Burst \in Nat \ {0}
    PROVE  Spec => []CommandsHeard
<1>1. RigInv => CommandsHeard
  BY RigHears
<1> QED
  BY <1>1, RigAlways, PTL

\* Of all suites only the I2C bridge can fail for what an aborted host left
\* behind, and only if the child's slave was taken up with something latched
\* (suites.rs, two_board_fixture.rs:306).
THEOREM RigHonest ==
    ASSUME Burst \in Nat \ {0}
    PROVE  Spec => []VerdictsHonest
<1>1. RigInv => VerdictsHonest
  BY RigVerdicts
<1> QED
  BY <1>1, RigAlways, PTL

\* The panic that a hand at a terminal can bring about (two_board_fixture.rs: s
\* takes eUSCI_B0 from a board that was master, and m then finds it gone) is out
\* of reach of the hosts: their suites send s and m to different boards.
THEOREM SuitesNeverPanic ==
    ASSUME Burst \in Nat \ {0}
    PROVE  Spec => []AnswersEveryCommand
<1>1. RigInv => AnswersEveryCommand
  BY DEF RigInv, TypesInv, AnswersEveryCommand, Polling, SubMode, Busy, Asleep
<1> QED
  BY <1>1, RigAlways, PTL
=============================================================================
