------------------------------- MODULE AdcDma --------------------------------
(***************************************************************************)
(* The converter of src/hal/src/adc.rs: single conversions, waited for or  *)
(* left to themselves, repeated ones drained by DMA, and sequences drained *)
(* by CPU or by DMA; with the DMA calls only they use, the scrub of the    *)
(* trigger latch and the bounded wait of src/hal/src/dma.rs.               *)
(*                                                                         *)
(* The converter's DMA trigger is a latch, set by a completed conversion   *)
(* and reset by nothing but a transfer it triggered itself (adc.rs:566).   *)
(* A channel that waits for its rise is deaf as long as it is set.         *)
(*                                                                         *)
(* A result is the pair of the call it was converted for and its number in *)
(* it.  PromptChannel is the timing budget of adc.rs:592: a result is      *)
(* moved before the next conversion completes.                             *)
(***************************************************************************)
EXTENDS Integers, Sequences, DmaChannel

CONSTANTS MaxLen,    \* the longest buffer, and sequence: one at least
          MaxCalls   \* bound: how many calls the program makes

VARIABLES
    pc,          \* where the CPU is: "idle" between two calls
    kind, n,     \* the call
    id,          \* its number
    got,         \* the results it collected
    answer,      \* what it returned: "ok", or "incomplete"
    enc, busy,   \* ADC12ENC, ADC12BUSY
    slot,        \* the MEMx the running conversion will fill
    owner,       \* the call it was started by
    count,       \* conversions completed since
    mem, ifg,    \* MEMx, and the set of x whose ADC12IFGx is up
    latch,       \* the DMA trigger
    ch,          \* the DMA channel
    seen,        \* DMAIFG as disarm read it
    torn         \* history: it rose between that read and the write

cpu == <<pc, kind, n, id, got, answer>>
converter == <<enc, busy, slot, owner, count, mem, ifg>>
dma == <<latch, ch>>
rewrite == <<seen, torn>>
vars == <<pc, kind, n, id, got, answer, enc, busy, slot, owner, count, mem, ifg,
          latch, ch, seen, torn>>

Slot == 1 .. MaxLen
Nothing == <<0, 0>>

Init ==
    /\ pc = "idle" /\ kind = "single" /\ n = 1
    /\ id = 0 /\ got = <<>> /\ answer = "ok"
    /\ enc = FALSE /\ busy = FALSE /\ slot = 1
    /\ owner = 0 /\ count = 0
    /\ mem = [x \in Slot |-> Nothing] /\ ifg = {}
    /\ latch = FALSE
    /\ ch = IdleChannel
    /\ seen = FALSE /\ torn = FALSE
-----------------------------------------------------------------------------
\* Silicon: a conversion completes.  The repeated mode goes on as long as
\* ADC12ENC is set, a sequence up to its last member.
PromptChannel == ~ch.edge

Convert ==
    /\ busy
    /\ PromptChannel
    /\ mem' = [mem EXCEPT ![slot] = <<owner, count + 1>>]
    /\ ifg' = ifg \cup {slot}
    /\ count' = IF count < MaxLen + 1 THEN count + 1 ELSE count
    /\ ch' = IF latch THEN ch ELSE Triggered(ch)
    /\ latch' = TRUE
    /\ IF kind \in {"sequence", "sequence_dma"} /\ slot < n
         THEN slot' = slot + 1 /\ UNCHANGED busy
         ELSE busy' = (kind = "repeated" /\ enc) /\ UNCHANGED slot
    /\ UNCHANGED <<cpu, enc, owner, rewrite>>

\* The word the channel reads clears its flag and resets the latch.
From == IF kind = "repeated" THEN 1 ELSE NextItem(ch)

Collect ==
    /\ ch.edge
    /\ got' = Append(got, mem[From])
    /\ ifg' = ifg \ {From}
    /\ latch' = FALSE
    /\ ch' = Moved(ch)
    /\ torn' = (torn \/ (pc = "disarm" /\ ch.left = 1))
    /\ UNCHANGED <<pc, kind, n, id, answer, enc, busy, slot, owner, count, mem,
                   seen>>
-----------------------------------------------------------------------------
\* A conversion that was started and left to itself is over before the next
\* call; and collected before the next start, which does not drain IFG0 and
\* would take the old result for its own.  This asks it of the caller: the code
\* refuses no second start (adc.rs:529-537).
Settled(k) == kind = "started" => ~busy /\ (k = "started" => got # <<>>)

\* program and program_sequence: ADC12ENC cleared, the channels and the mode
\* selected.
Program(k, len, next) ==
    /\ pc = "idle"
    /\ id < MaxCalls
    /\ Settled(k)
    /\ id' = id + 1
    /\ kind' = k /\ n' = len
    /\ got' = <<>> /\ answer' = "ok"
    /\ enc' = FALSE /\ slot' = 1
    /\ seen' = FALSE /\ torn' = FALSE
    /\ pc' = next
    /\ UNCHANGED <<busy, owner, count, mem, ifg, dma>>

\* convert, which waits for its result, and start_conversion, which does not.
Single(k) == Program(k, 1, "go")

\* read_repeated_dma_inner.  With an empty buffer it does nothing at all.
Repeated(len) == Program("repeated", len, "scrub")

\* read_sequence and read_sequence_dma, for a valid list of members.
Sequence(len) == Program("sequence", len, "drain")

SequenceDma(len) == Program("sequence_dma", len, "scrub")

Step(from, to) ==
    /\ pc = from
    /\ pc' = to
    /\ UNCHANGED <<kind, n, id>>

\* (mutation: a latch that is set left as it is)
ScrubForgotten ==
    /\ Step("scrub", IF kind = "repeated" THEN "arm" ELSE "drain")
    /\ UNCHANGED <<got, answer, converter, dma, rewrite>>

\* consume_stale_trigger_word: a level-sensitive transfer of MEM0, which
\* fires if the latch is set; the channel is free afterwards.
Scrub ==
    /\ Step("scrub", IF kind = "repeated" THEN "arm" ELSE "drain")
    /\ ifg' = IF latch THEN ifg \ {1} ELSE ifg
    /\ latch' = FALSE
    /\ ch' = IdleChannel
    /\ UNCHANGED <<got, answer, enc, busy, slot, owner, count, mem, rewrite>>

DrainMems ==
    /\ Step("drain", IF kind = "sequence" THEN "go" ELSE "arm")
    /\ ifg' = ifg \ (1 .. n)
    /\ UNCHANGED <<got, answer, enc, busy, slot, owner, count, mem, dma, rewrite>>

Arm ==
    /\ Step("arm", "go")
    /\ ch' = Armed(n)
    /\ UNCHANGED <<got, answer, converter, latch, rewrite>>

\* ADC12ENC and ADC12SC in one write.
Go ==
    /\ Step("go", CASE kind = "single" -> "wait"
                    [] kind = "started" -> "idle"
                    [] kind = "sequence" -> "last_flag"
                    [] kind = "repeated" -> "wait_done"
                    [] kind = "sequence_dma" -> "poll")
    /\ enc' = TRUE
    /\ busy' = TRUE
    /\ owner' = IF busy THEN owner ELSE id
    /\ count' = IF busy THEN count ELSE 0
    /\ UNCHANGED <<got, answer, slot, mem, ifg, dma, rewrite>>

\* MEM0 is read once ADC12BUSY is clear.
ReadSingle ==
    /\ Step("wait", "idle")
    /\ ~busy
    /\ got' = <<mem[1]>>
    /\ ifg' = ifg \ {1}
    /\ UNCHANGED <<answer, enc, busy, slot, owner, count, mem, dma, rewrite>>

\* read_result, once conversion_pending says so or the ADC12 vector fired.
ReadStarted ==
    /\ kind = "started" /\ got = <<>>
    /\ Step("idle", "idle")
    /\ 1 \in ifg
    /\ got' = <<mem[1]>>
    /\ ifg' = ifg \ {1}
    /\ UNCHANGED <<answer, enc, busy, slot, owner, count, mem, dma, rewrite>>

\* read_sequence_inner: the last member's flag says that all are in.
ReadSequence ==
    /\ Step("last_flag", "stop")
    /\ n \in ifg
    /\ got' = SubSeq(mem, 1, n)
    /\ ifg' = ifg \ (1 .. n)
    /\ UNCHANGED <<answer, enc, busy, slot, owner, count, mem, dma, rewrite>>

WaitDone ==
    /\ Step("wait_done", "stop")
    /\ IsDone(ch)
    /\ ch' = DoneCleared(ch)
    /\ UNCHANGED <<got, answer, converter, latch, rewrite>>

\* wait_done_bounded: a poll finds the flag, or the last one that is allowed
\* does not.
Poll ==
    /\ Step("poll", IF IsDone(ch) THEN "clear" ELSE "give_up")
    /\ UNCHANGED <<got, answer, converter, dma, rewrite>>

\* disarm: DMAxCTL is read, and written back without DMAEN.
DisarmRead ==
    /\ Step("give_up", "disarm")
    /\ seen' = IsDone(ch)
    /\ UNCHANGED <<got, answer, converter, dma, torn>>

DisarmWrite ==
    /\ Step("disarm", "recheck")
    /\ ch' = [Disarmed(ch) EXCEPT !.done = seen]
    /\ UNCHANGED <<got, answer, converter, latch, rewrite>>

\* (mutation: a timeout is a failure, whatever the flag says by now)
RecheckForgotten ==
    /\ Step("recheck", "stop")
    /\ answer' = "incomplete"
    /\ UNCHANGED <<got, converter, dma, rewrite>>

\* dma.rs:697: a transfer completed since the last poll is reported as such.
Recheck ==
    /\ Step("recheck", IF IsDone(ch) THEN "clear" ELSE "stop")
    /\ answer' = IF IsDone(ch) THEN "ok" ELSE "incomplete"
    /\ UNCHANGED <<got, converter, dma, rewrite>>

ClearDone ==
    /\ Step("clear", "stop")
    /\ ch' = DoneCleared(ch)
    /\ UNCHANGED <<got, answer, converter, latch, rewrite>>

Stop ==
    /\ Step("stop", "halt")
    /\ enc' = FALSE
    /\ UNCHANGED <<got, answer, busy, slot, owner, count, mem, ifg, dma, rewrite>>

Leftover ==
    CASE kind = "repeated" -> {1}
      [] kind = "sequence_dma" /\ answer = "incomplete" -> 1 .. n
      [] OTHER -> {}

\* (mutation: the conversion in flight not waited for)
HaltAtOnce ==
    /\ Step("halt", "idle")
    /\ ifg' = ifg \ Leftover
    /\ UNCHANGED <<got, answer, enc, busy, slot, owner, count, mem, dma, rewrite>>

\* The conversion in flight ends, and what it and an abandoned drain left
\* behind is read away.
Halt ==
    /\ Step("halt", "idle")
    /\ ~busy
    /\ ifg' = ifg \ Leftover
    /\ UNCHANGED <<got, answer, enc, busy, slot, owner, count, mem, dma, rewrite>>

Call ==
    \/ \E k \in {"single", "started"} : Single(k)
    \/ \E len \in 1 .. MaxLen : Repeated(len) \/ Sequence(len) \/ SequenceDma(len)

InCall ==
    \/ Scrub \/ DrainMems \/ Arm \/ Go
    \/ ReadSingle \/ ReadSequence
    \/ WaitDone \/ Poll \/ DisarmRead \/ DisarmWrite \/ Recheck \/ ClearDone
    \/ Stop \/ Halt

Hardware == Convert \/ Collect

Next == Call \/ InCall \/ ReadStarted \/ Hardware

Spec == Init /\ [][Next]_vars
-----------------------------------------------------------------------------
TypeOK ==
    /\ pc \in {"idle", "scrub", "drain", "arm", "go", "wait", "last_flag",
               "wait_done", "poll", "give_up", "disarm", "recheck", "clear",
               "stop", "halt"}
    /\ kind \in {"single", "started", "repeated", "sequence", "sequence_dma"}
    /\ n \in 1 .. MaxLen /\ id \in 0 .. MaxCalls /\ owner \in 0 .. id
    /\ Len(got) <= n /\ answer \in {"ok", "incomplete"}
    /\ {enc, busy, latch, seen, torn} \subseteq BOOLEAN
    /\ slot \in Slot /\ ifg \subseteq Slot
    /\ ch \in ChannelType(MaxLen)

\* A call that reports success returns the results of its own conversions, in
\* the order they were made: never one an earlier call left in MEMx, and none
\* is skipped; and nothing of it is left flagged, running or armed for the
\* calls that follow (adc.rs:566-598, 650-653, 859-877).
OwnResults ==
    pc = "idle" /\ id > 0 /\ answer = "ok" =>
        \/ kind = "started" /\ got \in {<<>>, <<<<id, 1>>>>}
        \/ /\ got = [i \in 1 .. n |-> <<id, i>>]
           /\ ifg = {} /\ ~busy /\ ~ch.en

\* dma.rs:696-697: the bounded wait reports an incomplete transfer only if it
\* is.  The rewrite of DMAxCTL is not atomic, though: a last transfer between
\* its read and its write has its DMAIFG overwritten, and that alone makes
\* the report wrong.
HonestReport ==
    pc = "idle" /\ answer = "incomplete" => (Len(got) = n <=> torn)

\* Every call returns, whatever the calls before it left in the latch: the
\* channel of an unbounded wait is never deaf.
CallsReturn == pc # "idle" ~> pc = "idle"
=============================================================================
