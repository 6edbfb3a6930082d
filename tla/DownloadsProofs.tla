----------------------------- MODULE DownloadsProofs -----------------------------
(* Proofs about a ticket and its streams, for any number of streams, any     *)
(* size, any touch interval and any idle window.                             *)
EXTENDS Downloads, TLAPS

\* The mark never passes a block that did not go out, and whoever may end the
\* ticket, or has, saw the mark at the end of the file.
MarkIsCovered == \A b \in Blocks : b < delivered => WentOut(b)
RetiringSawTheEnd ==
    (completed \/ \E s \in Streams : stream[s].pc = "retiring") => delivered = Size

IInv ==
    /\ TypeOK
    /\ MarkIsCovered
    /\ RetiringSawTheEnd
    /\ WholeStreamEndsTicket

\* What a stream is made of.
LEMMA StreamFields ==
    ASSUME stream \in [Streams -> StreamRecord], NEW s \in Streams
    PROVE  /\ stream[s] \in StreamRecord
           /\ stream[s].start \in Blocks
           /\ stream[s].end \in Blocks
           /\ stream[s].pos \in 0 .. Size
           /\ stream[s].since_touch \in 0 .. TouchEvery - 1
           /\ stream[s].times \in Seq(0 .. Horizon)
           /\ stream[s].overrun \in Nat
BY DEF StreamRecord

\* At start nothing is delivered and nothing is over.
LEMMA InitIInv == Init => IInv
<1> SUFFICES ASSUME Init PROVE IInv
  OBVIOUS
<1> USE DownloadAssumption
<1>1. NewStream \in StreamRecord /\ NewStream.pc = "new"
  BY DEF NewStream, StreamRecord, Blocks
<1>2. \A s \in Streams : stream[s].pc = "new"
  BY <1>1 DEF Init
<1>3. TypeOK
  <2>1. now \in 0 .. Horizon /\ idle_until \in Nat /\ delivered \in 0 .. Size
    BY DEF Init
  <2>2. stream \in [Streams -> StreamRecord]
    BY <1>1 DEF Init
  <2>3. held \in BOOLEAN /\ linked \in BOOLEAN /\ completed \in BOOLEAN
    BY DEF Init
  <2> QED
    BY <2>1, <2>2, <2>3 DEF TypeOK
<1>4. MarkIsCovered
  BY DEF Init, MarkIsCovered, Blocks
<1>5. RetiringSawTheEnd /\ WholeStreamEndsTicket
  BY <1>2 DEF Init, RetiringSawTheEnd, WholeStreamEndsTicket
<1> QED
  BY <1>3, <1>4, <1>5 DEF IInv

\* Moving a stream's pc keeps its type.
LEMMA PcKeepsType ==
    ASSUME TypeOK, NEW s \in Streams,
           NEW pc \in {"new", "opening", "sending", "retiring", "done", "cut"},
           Becomes(s, pc)
    PROVE  stream' \in [Streams -> StreamRecord]
BY ZenonT(30) DEF Becomes, TypeOK, StreamRecord

\* A step of one stream that keeps the ranges, and whether they ran to their end,
\* and leaves the mark alone, keeps what the mark says.
LEMMA CoverKept ==
    ASSUME IInv, delivered' = delivered,
           \A s \in Streams : RanToTheEnd(s) =>
               /\ RanToTheEnd(s)'
               /\ stream'[s].start = stream[s].start
               /\ stream'[s].end = stream[s].end
    PROVE  MarkIsCovered'
BY DEF IInv, MarkIsCovered, WentOut, RanToTheEnd

--------------------------------------------------------------------------------

\* Every step keeps the types.
LEMMA TypeKept == TypeOK /\ [Next]_vars => TypeOK'
<1> SUFFICES ASSUME TypeOK, [Next]_vars PROVE TypeOK'
  OBVIOUS
<1> USE DownloadAssumption
<1>1. CASE Tick
  BY <1>1 DEF Tick, TypeOK
<1>2. CASE Sweep
  BY <1>2 DEF Sweep, TypeOK
<1>3. CASE Unlink
  BY <1>3 DEF Unlink, TypeOK
<1>4. ASSUME NEW s \in Streams, Move(s) PROVE TypeOK'
  <2>1. ASSUME NEW start \in Blocks, NEW end \in Blocks, CheckoutHits(s, start, end)
        PROVE  TypeOK'
    <3>1. start \in 0 .. Size
      BY DEF Blocks
    <3> DEFINE r == [stream[s] EXCEPT !.pc = "opening", !.start = start, !.end = end,
                                      !.pos = start]
    <3>2. r \in StreamRecord
      BY <3>1, StreamFields DEF TypeOK, StreamRecord
    <3>3. stream' = [stream EXCEPT ![s] = r]
      BY <2>1 DEF CheckoutHits
    <3>4. stream' \in [Streams -> StreamRecord]
      BY <3>2, <3>3 DEF TypeOK
    <3> QED
      BY <2>1, <3>4 DEF CheckoutHits, TypeOK
  <2>2. CheckoutMisses(s) => TypeOK'
    BY PcKeepsType DEF CheckoutMisses, TypeOK
  <2>3. Open(s) => TypeOK'
    BY PcKeepsType DEF Open, TypeOK
  <2>4. OpenFails(s) => TypeOK'
    BY PcKeepsType DEF OpenFails, TypeOK
  <2>5. ASSUME NEW n \in 0 .. TouchEvery - 1, ~AtEnd(s), HandOn(s, n)
        PROVE  stream' \in [Streams -> StreamRecord]
    <3>1. stream[s].pos + 1 \in 0 .. Size
      BY <2>5, StreamFields DEF AtEnd, TypeOK, Blocks
    <3>2. (IF held THEN 0 ELSE stream[s].overrun + 1) \in Nat
      BY StreamFields DEF TypeOK
    <3>3. Append(stream[s].times, now) \in Seq(0 .. Horizon)
      BY StreamFields DEF TypeOK
    <3> DEFINE r == [stream[s] EXCEPT !.pos = @ + 1, !.since_touch = n,
                                      !.times = Append(@, now),
                                      !.overrun = IF held THEN 0 ELSE @ + 1]
    <3>4. r \in StreamRecord
      BY <3>1, <3>2, <3>3, StreamFields DEF TypeOK, StreamRecord
    <3>5. stream' = [stream EXCEPT ![s] = r]
      BY <2>5 DEF HandOn
    <3> QED
      BY <3>4, <3>5 DEF TypeOK
  <2>6. Block(s) \/ BlockTouches(s) => TypeOK'
    <3>1. ASSUME Block(s) PROVE TypeOK'
      <4>1. stream[s].since_touch + 1 \in 0 .. TouchEvery - 1
        BY <3>1, StreamFields DEF Block, TouchDue, TypeOK
      <4>2. stream' \in [Streams -> StreamRecord]
        BY <2>5, <3>1, <4>1 DEF Block
      <4> QED
        BY <3>1, <4>2 DEF Block, TypeOK
    <3>2. ASSUME BlockTouches(s) PROVE TypeOK'
      <4>1. stream' \in [Streams -> StreamRecord]
        BY <2>5, <3>2 DEF BlockTouches
      <4> QED
        BY <3>2, <4>1 DEF BlockTouches, TypeOK
    <3> QED
      BY <3>1, <3>2
  <2>7. TouchFails(s) => TypeOK'
    BY PcKeepsType DEF TouchFails, TypeOK
  <2>8. Report(s) => TypeOK'
    <3> SUFFICES ASSUME Report(s) PROVE TypeOK'
      OBVIOUS
    <3>1. delivered' \in 0 .. Size
      BY StreamFields DEF Report, Mark, TypeOK, Blocks
    <3>2. stream' \in [Streams -> StreamRecord]
      BY PcKeepsType DEF Report
    <3> QED
      BY <3>1, <3>2 DEF Report, TypeOK
  <2>9. Complete(s) => TypeOK'
    BY PcKeepsType DEF Complete, TypeOK
  <2>10. Stop(s) => TypeOK'
    BY PcKeepsType DEF Stop, TypeOK
  <2> QED
    BY <1>4, <2>1, <2>2, <2>3, <2>4, <2>6, <2>7, <2>8, <2>9, <2>10
       DEF Move
<1>5. CASE UNCHANGED vars
  BY <1>5 DEF vars, TypeOK
<1> QED
  BY <1>1, <1>2, <1>3, <1>4, <1>5 DEF Next

--------------------------------------------------------------------------------

\* What most steps do to a stream: they change neither its range nor its pc.
SameRange(s) ==
    /\ stream'[s].pc = stream[s].pc
    /\ stream'[s].start = stream[s].start
    /\ stream'[s].end = stream[s].end

\* A step that moves neither the mark nor any stream's range keeps the invariant.
LEMMA QuietStep ==
    ASSUME IInv, delivered' = delivered, completed' = completed, (held' => held),
           \A s \in Streams : SameRange(s)
    PROVE  MarkIsCovered' /\ RetiringSawTheEnd' /\ WholeStreamEndsTicket'
<1>1. MarkIsCovered'
  BY CoverKept DEF SameRange, RanToTheEnd
<1> QED
  BY <1>1 DEF IInv, RetiringSawTheEnd, WholeStreamEndsTicket, SameRange

\* A stream that has not run to its end may stop or begin.
LEMMA BeginOrStop ==
    ASSUME IInv, delivered' = delivered, completed' = completed, (held' => held),
           NEW s \in Streams,
           ~RanToTheEnd(s),
           stream'[s].pc \in {"opening", "sending", "cut"},
           \A t \in Streams \ {s} : stream'[t] = stream[t]
    PROVE  MarkIsCovered' /\ RetiringSawTheEnd' /\ WholeStreamEndsTicket'
<1>1. \A t \in Streams : RanToTheEnd(t) =>
          RanToTheEnd(t)' /\ stream'[t].start = stream[t].start /\ stream'[t].end = stream[t].end
  BY DEF RanToTheEnd
<1>2. MarkIsCovered'
  BY <1>1, CoverKept
<1>3. \A t \in Streams : stream'[t].pc \in {"retiring", "done"} => t # s
  OBVIOUS
<1> QED
  BY <1>2, <1>3 DEF IInv, RetiringSawTheEnd, WholeStreamEndsTicket

\* delivered moves the mark over blocks that have just gone out.
LEMMA ReportKeeps ==
    ASSUME IInv, NEW s \in Streams, Report(s)
    PROVE  MarkIsCovered' /\ RetiringSawTheEnd' /\ WholeStreamEndsTicket'
<1> USE DownloadAssumption
<1>1. /\ stream[s].start \in Blocks
      /\ stream[s].end \in Blocks
      /\ delivered \in 0 .. Size
      /\ stream \in [Streams -> StreamRecord]
  BY StreamFields DEF IInv, TypeOK
<1>2. /\ \A t \in Streams \ {s} : stream'[t] = stream[t]
      /\ stream'[s].start = stream[s].start
      /\ stream'[s].end = stream[s].end
      /\ stream'[s].pc = IF held /\ Mark(s) >= Size THEN "retiring" ELSE "done"
  BY <1>1 DEF Report, Becomes, StreamRecord
<1>3. RanToTheEnd(s)' /\ ~RanToTheEnd(s)
  BY <1>2 DEF Report, Sending, RanToTheEnd
<1>4. delivered' \in {delivered, Mark(s)} /\ Mark(s) \in 0 .. Size /\ delivered <= Mark(s)
  BY <1>1 DEF Report, Mark, Blocks
<1>5. \A b \in Blocks : WentOut(b) => WentOut(b)'
  BY <1>2, <1>3 DEF WentOut, RanToTheEnd
<1>6. \A b \in Blocks : b < delivered' => b < delivered \/ b \in stream[s].start .. stream[s].end
  BY <1>1, <1>4 DEF Mark, Blocks
<1>7. MarkIsCovered'
  <2> SUFFICES ASSUME NEW b \in Blocks, b < delivered' PROVE WentOut(b)'
    BY DEF MarkIsCovered, Blocks
  <2>1. CASE b < delivered
    BY <1>5, <2>1 DEF IInv, MarkIsCovered
  <2>2. CASE b \in stream[s].start .. stream[s].end
    BY <1>2, <1>3, <2>2 DEF WentOut
  <2> QED
    BY <1>6, <2>1, <2>2
<1>8. RetiringSawTheEnd'
  <2>1. delivered = Size => delivered' = Size
    BY <1>1, <1>4
  <2>2. stream'[s].pc = "retiring" => delivered' = Size
    BY <1>2, <1>4 DEF Report
  <2> QED
    BY <1>2, <2>1, <2>2 DEF IInv, RetiringSawTheEnd, Report
<1>9. WholeStreamEndsTicket'
  <2>1. stream[s].start = 0 /\ stream[s].end = Size - 1 => Mark(s) >= Size
    BY <1>1 DEF Mark, Blocks
  <2>2. held' = held
    BY DEF Report
  <2> QED
    BY <1>2, <2>1, <2>2 DEF IInv, WholeStreamEndsTicket
<1> QED
  BY <1>7, <1>8, <1>9

\* complete ends a ticket whose mark is at the end.
LEMMA CompleteKeeps ==
    ASSUME IInv, NEW s \in Streams, Complete(s)
    PROVE  MarkIsCovered' /\ RetiringSawTheEnd' /\ WholeStreamEndsTicket'
<1>1. stream \in [Streams -> StreamRecord]
  BY DEF IInv, TypeOK
<1>2. /\ \A t \in Streams \ {s} : stream'[t] = stream[t]
      /\ stream'[s].start = stream[s].start
      /\ stream'[s].end = stream[s].end
      /\ stream'[s].pc = "done"
  BY <1>1 DEF Complete, Becomes, StreamRecord
<1>3. MarkIsCovered'
  BY <1>2, CoverKept DEF Complete, RanToTheEnd
<1>4. delivered' = Size
  BY DEF Complete, IInv, RetiringSawTheEnd
<1>5. held' = FALSE
  BY DEF Complete
<1> QED
  BY <1>3, <1>4, <1>5 DEF RetiringSawTheEnd, WholeStreamEndsTicket

\* Every step keeps the invariant.
LEMMA StepKeeps == IInv /\ [Next]_vars => IInv'
<1> SUFFICES ASSUME IInv, [Next]_vars PROVE IInv'
  OBVIOUS
<1>1. TypeOK /\ stream \in [Streams -> StreamRecord]
  BY DEF IInv, TypeOK
<1>2. TypeOK'
  BY <1>1, TypeKept
<1> DEFINE Kept == MarkIsCovered' /\ RetiringSawTheEnd' /\ WholeStreamEndsTicket'
<1>3. Tick \/ Sweep \/ Unlink \/ UNCHANGED vars => Kept
  BY QuietStep DEF Tick, Sweep, Unlink, vars, SameRange
<1>4. ASSUME NEW s \in Streams, Move(s) PROVE Kept
  <2>1. ASSUME NEW start \in Blocks, NEW end \in Blocks, CheckoutHits(s, start, end)
        PROVE  Kept
    <3>1. /\ \A t \in Streams \ {s} : stream'[t] = stream[t]
          /\ stream'[s].pc = "opening"
      BY <1>1, <2>1 DEF CheckoutHits, StreamRecord
    <3> QED
      BY <2>1, <3>1, BeginOrStop DEF CheckoutHits, RanToTheEnd
  <2>2. ASSUME NEW pc \in {"sending", "cut"}, Becomes(s, pc),
               stream[s].pc \in {"new", "opening", "sending"},
               delivered' = delivered, completed' = completed, (held' => held)
        PROVE  Kept
    <3>1. /\ \A t \in Streams \ {s} : stream'[t] = stream[t]
          /\ stream'[s].pc = pc
      BY <1>1, <2>2 DEF Becomes, StreamRecord
    <3> QED
      BY <2>2, <3>1, BeginOrStop DEF RanToTheEnd
  <2>3. CheckoutMisses(s) \/ Open(s) \/ OpenFails(s) \/ TouchFails(s) \/ Stop(s) => Kept
    BY <2>2 DEF CheckoutMisses, Open, OpenFails, TouchFails, Stop, Sending
  <2>4. ASSUME \A t \in Streams : SameRange(t),
               delivered' = delivered, completed' = completed, held' = held
        PROVE  Kept
    BY <2>4, QuietStep
  <2>5. Block(s) \/ BlockTouches(s) => Kept
    <3>1. \A since : HandOn(s, since) => \A t \in Streams : SameRange(t)
      BY <1>1 DEF HandOn, SameRange, StreamRecord
    <3> QED
      BY <2>4, <3>1 DEF Block, BlockTouches
  <2> QED
    BY <1>4, <2>1, <2>3, <2>5, ReportKeeps, CompleteKeeps DEF Move
<1> QED
  BY <1>2, <1>3, <1>4 DEF Next, IInv

\* The inductive invariant holds in every reachable state.
THEOREM Invariance == Spec => []IInv
BY InitIInv, StepKeeps, PTL DEF Spec

\* The types hold.
THEOREM TypeCorrect == Spec => []TypeOK
<1>1. IInv => TypeOK
  BY DEF IInv
<1> QED
  BY <1>1, Invariance, PTL

\* No download ends the ticket before every block went out in a range that was
\* sent to its end, whatever ranges are asked for and however streams interleave.
THEOREM NothingRetiresEarly == Spec => []RetiredOnlyWhenAllWentOut
<1>1. IInv => RetiredOnlyWhenAllWentOut
  BY DownloadAssumption
     DEF IInv, MarkIsCovered, RetiringSawTheEnd, RetiredOnlyWhenAllWentOut, Blocks
<1> QED
  BY <1>1, Invariance, PTL

\* One response that sent the whole file is enough to end the ticket.
THEOREM WholeIsEnough == Spec => []WholeStreamEndsTicket
<1>1. IInv => WholeStreamEndsTicket
  BY DEF IInv
<1> QED
  BY <1>1, Invariance, PTL

--------------------------------------------------------------------------------
(* A receiver who is fast enough keeps the ticket.                         *)

\* The clock readings of s's blocks are in order and not ahead of the clock, and
\* the last touch of s, since_touch blocks back, left its deadline to the ticket.
TimesInOrder(s) ==
    LET times == stream[s].times IN
    \A i, j \in 1 .. Len(times) : i <= j => times[i] <= times[j]
NotAhead(s) == \A i \in 1 .. Len(stream[s].times) : stream[s].times[i] <= now
LastTouch(s) == Len(stream[s].times) - stream[s].since_touch
TouchCounts(s) ==
    LastTouch(s) >= 1 => stream[s].times[LastTouch(s)] + TicketIdle <= idle_until

TouchInv ==
    /\ TypeOK
    /\ idle_until <= now + TicketIdle
    /\ \A s \in Streams :
           LastTouch(s) >= 0 /\ TimesInOrder(s) /\ NotAhead(s) /\ TouchCounts(s)

\* A stream that hands nothing on keeps its times.
SameTimes(s) ==
    stream'[s].times = stream[s].times /\ stream'[s].since_touch = stream[s].since_touch

\* A stream that sends nothing keeps the times of its blocks, and what its last touch did.
LEMMA TimesKept ==
    ASSUME TouchInv, TypeOK', now <= now', idle_until <= idle_until', NEW s \in Streams,
           SameTimes(s)
    PROVE  (LastTouch(s) >= 0 /\ TimesInOrder(s) /\ NotAhead(s) /\ TouchCounts(s))'
<1>1. /\ stream[s].times \in Seq(0 .. Horizon)
      /\ stream[s].since_touch \in 0 .. TouchEvery - 1
      /\ now \in Nat /\ now' \in Nat
      /\ idle_until \in Nat /\ idle_until' \in Nat
  BY DownloadAssumption, StreamFields DEF TouchInv, TypeOK
<1> DEFINE times == stream[s].times
<1>2. Len(times) \in Nat /\ \A i \in 1 .. Len(times) : times[i] \in Nat
  BY SMTT(30), <1>1, DownloadAssumption
<1>3. LastTouch(s)' = LastTouch(s) /\ LastTouch(s) \in Int
  BY <1>1, <1>2, DownloadAssumption DEF SameTimes, LastTouch
<1>4. TimesInOrder(s)'
  BY DEF TouchInv, TimesInOrder, SameTimes
<1>5. NotAhead(s)'
  BY <1>1, <1>2 DEF TouchInv, NotAhead, SameTimes
<1>6. TouchCounts(s)'
  <2> SUFFICES ASSUME LastTouch(s) >= 1
               PROVE  times[LastTouch(s)] + TicketIdle <= idle_until'
    BY <1>3 DEF TouchCounts, SameTimes
  <2>1. LastTouch(s) \in 1 .. Len(times)
    BY SMTT(30), <1>1, <1>2, DownloadAssumption DEF LastTouch
  <2>2. times[LastTouch(s)] \in Nat /\ times[LastTouch(s)] + TicketIdle <= idle_until
    BY <1>2, <2>1 DEF TouchInv, TouchCounts
  <2> QED
    BY SMTT(30), <1>1, <2>2, DownloadAssumption
<1> QED
  BY <1>3, <1>4, <1>5, <1>6 DEF TouchInv

\* A stream that hands a block on adds the present to its times.
LEMMA TimesGrow ==
    ASSUME TouchInv, TypeOK', now' = now, NEW s \in Streams,
           NEW n \in {0, stream[s].since_touch + 1},
           stream'[s].times = Append(stream[s].times, now),
           stream'[s].since_touch = n,
           idle_until' = IF n = 0 THEN now + TicketIdle ELSE idle_until
    PROVE  (LastTouch(s) >= 0 /\ TimesInOrder(s) /\ NotAhead(s) /\ TouchCounts(s))'
<1>1. /\ stream[s].times \in Seq(0 .. Horizon)
      /\ stream[s].since_touch \in Nat
      /\ now \in 0 .. Horizon /\ idle_until \in Nat /\ TicketIdle \in Nat
  BY DownloadAssumption, StreamFields DEF TouchInv, TypeOK
<1> DEFINE times == stream[s].times
           new == Append(times, now)
<1>2. /\ Len(times) \in Nat
      /\ \A i \in 1 .. Len(times) : times[i] \in Nat
      /\ Len(new) = Len(times) + 1
      /\ \A i \in 1 .. Len(times) : new[i] = times[i]
      /\ new[Len(times) + 1] = now
  <2>1. Len(times) \in Nat /\ Horizon \in Nat
    BY <1>1, DownloadAssumption
  <2>2. Len(new) = Len(times) + 1
    BY <1>1
  <2>3. \A i \in 1 .. Len(times) : new[i] = times[i]
    BY <1>1
  <2>4. new[Len(times) + 1] = now
    BY <1>1
  <2>5. \A i \in 1 .. Len(times) : times[i] \in Nat
    BY SMTT(30), <1>1, <2>1
  <2> QED
    BY <2>1, <2>2, <2>3, <2>4, <2>5
<1>3. \A i \in 1 .. Len(new) : i \in 1 .. Len(times) \/ i = Len(times) + 1
  BY <1>2
<1>4. \A i \in 1 .. Len(times) : times[i] <= now
  BY DEF TouchInv, NotAhead
<1> HIDE DEF new
<1>5. TimesInOrder(s)'
  <2> SUFFICES ASSUME NEW i \in 1 .. Len(new), NEW j \in 1 .. Len(new), i <= j
               PROVE  new[i] <= new[j]
    BY DEF TimesInOrder, new
  <2>1. CASE j \in 1 .. Len(times)
    <3>1. i \in 1 .. Len(times)
      BY <1>2, <2>1
    <3> QED
      BY <1>2, <2>1, <3>1 DEF TouchInv, TimesInOrder
  <2>2. CASE j = Len(times) + 1
    BY <1>1, <1>2, <1>3, <1>4, <2>2
  <2> QED
    BY <1>3, <2>1, <2>2
<1>6. \A i \in 1 .. Len(new) : new[i] <= now
  BY <1>1, <1>2, <1>3, <1>4
<1>7. NotAhead(s)'
  BY <1>6 DEF NotAhead, new
<1>8. LastTouch(s)' = Len(new) - n
  BY DEF LastTouch, new
<1>9. LastTouch(s) \in Int /\ LastTouch(s) >= 0 /\ LastTouch(s) = Len(times) - stream[s].since_touch
  BY <1>1, <1>2 DEF TouchInv, LastTouch
<1>10. LastTouch(s)' >= 0 /\ TouchCounts(s)'
  <2>1. CASE n = 0
    <3>1. LastTouch(s)' = Len(times) + 1
      BY <1>2, <1>8, <2>1
    <3>2. stream'[s].times[LastTouch(s)'] = now
      BY <1>2, <3>1 DEF new
    <3> QED
      BY <1>1, <1>2, <2>1, <3>1, <3>2 DEF TouchCounts
  <2>2. CASE n = stream[s].since_touch + 1
    <3>1. LastTouch(s)' = LastTouch(s) /\ n # 0
      BY SMTT(30), <1>1, <1>2, <1>8, <1>9, <2>2
    <3>2. LastTouch(s) >= 1 => LastTouch(s) \in 1 .. Len(times)
      BY <1>1, <1>2, <1>9
    <3>3. LastTouch(s) >= 1 => stream'[s].times[LastTouch(s)'] = times[LastTouch(s)]
      BY <1>2, <3>1, <3>2 DEF new
    <3> QED
      BY <1>9, <3>1, <3>3 DEF TouchInv, TouchCounts
  <2> QED
    BY <2>1, <2>2
<1> QED
  BY <1>5, <1>7, <1>10

\* At start no block has gone out.
LEMMA InitTouchInv == Init => TouchInv
<1> SUFFICES ASSUME Init PROVE TouchInv
  OBVIOUS
<1>1. TypeOK
  BY InitIInv DEF IInv
<1>2. \A s \in Streams : stream[s].times = << >> /\ stream[s].since_touch = 0
  BY DEF Init, NewStream
<1>3. Len(<< >>) = 0
  OBVIOUS
<1>4. ASSUME NEW s \in Streams
      PROVE  Len(stream[s].times) = 0 /\ stream[s].since_touch = 0
  <2>1. stream[s].times = << >> /\ stream[s].since_touch = 0
    BY <1>2
  <2> QED
    BY ONLY <1>3, <2>1
<1>5. ASSUME NEW s \in Streams
      PROVE  LastTouch(s) = 0 /\ TimesInOrder(s) /\ NotAhead(s) /\ TouchCounts(s)
  <2> DEFINE n == Len(stream[s].times)
  <2>1. n = 0 /\ stream[s].since_touch = 0
    BY <1>4
  <2>2. LastTouch(s) = n - stream[s].since_touch
    BY DEF LastTouch
  <2>3. LastTouch(s) = 0
    BY ONLY <2>1, <2>2
  <2>4. 1 .. n = {}
    BY ONLY <2>1
  <2> QED
    BY <2>3, <2>4 DEF TimesInOrder, NotAhead, TouchCounts
<1>6. idle_until <= now + TicketIdle
  BY DownloadAssumption DEF Init
<1> QED
  BY <1>1, <1>5, <1>6 DEF TouchInv

\* Every step keeps the invariant of the touches.
LEMMA TouchKept == TouchInv /\ [Next]_vars => TouchInv'
<1> SUFFICES ASSUME TouchInv, [Next]_vars PROVE TouchInv'
  OBVIOUS
<1> DEFINE Good(s) == LastTouch(s) >= 0 /\ TimesInOrder(s) /\ NotAhead(s) /\ TouchCounts(s)
<1>1. /\ TypeOK /\ TypeOK'
      /\ stream \in [Streams -> StreamRecord]
      /\ now \in Nat /\ idle_until \in Nat /\ TicketIdle \in Nat
      /\ idle_until <= now + TicketIdle
  BY TypeKept, DownloadAssumption DEF TouchInv, TypeOK
<1>2. ASSUME idle_until' \in {idle_until, now + TicketIdle}, now' = now \/ now' = now + 1,
             \A s \in Streams : SameTimes(s)
      PROVE  TouchInv'
  <2>1. now <= now' /\ idle_until <= idle_until' /\ idle_until' <= now' + TicketIdle
    BY <1>1, <1>2
  <2>2. \A s \in Streams : Good(s)'
    BY <1>1, <1>2, <2>1, TimesKept
  <2> QED
    BY <1>1, <2>1, <2>2 DEF TouchInv
<1>3. Tick \/ Sweep \/ Unlink \/ UNCHANGED vars => TouchInv'
  <2>1. Tick \/ Sweep \/ Unlink \/ UNCHANGED vars => stream' = stream /\ idle_until' = idle_until
    BY DEF Tick, Sweep, Unlink, vars
  <2>2. Tick \/ Sweep \/ Unlink \/ UNCHANGED vars => now' = now \/ now' = now + 1
    BY DEF Tick, Sweep, Unlink, vars
  <2> QED
    BY <1>2, <2>1, <2>2 DEF SameTimes
<1>4. ASSUME NEW s \in Streams, Move(s) PROVE TouchInv'
  <2>1. ASSUME NEW pc, Becomes(s, pc), now' = now, idle_until' = idle_until
        PROVE  TouchInv'
    <3>1. \A t \in Streams : SameTimes(t)
      BY <1>1, <2>1 DEF Becomes, SameTimes, StreamRecord
    <3> QED
      BY <1>2, <2>1, <3>1
  <2>2. ASSUME NEW start, NEW end, CheckoutHits(s, start, end) PROVE TouchInv'
    <3>1. \A t \in Streams : SameTimes(t)
      BY <1>1, <2>2 DEF CheckoutHits, SameTimes, StreamRecord
    <3> QED
      BY <1>2, <2>2, <3>1 DEF CheckoutHits
  <2>3. CheckoutMisses(s) \/ Open(s) \/ OpenFails(s) \/ TouchFails(s) \/ Stop(s) => TouchInv'
    BY <2>1 DEF CheckoutMisses, Open, OpenFails, TouchFails, Stop
  <2>4. Report(s) \/ Complete(s) => TouchInv'
    BY <2>1 DEF Report, Complete
  <2>5. ASSUME NEW n \in {0, stream[s].since_touch + 1}, HandOn(s, n), now' = now,
               idle_until' = IF n = 0 THEN now + TicketIdle ELSE idle_until
        PROVE  TouchInv'
    <3>1. \A t \in Streams \ {s} : SameTimes(t)
      BY <1>1, <2>5 DEF HandOn, SameTimes, StreamRecord
    <3>2. /\ stream'[s].times = Append(stream[s].times, now)
          /\ stream'[s].since_touch = n
      BY <1>1, <2>5 DEF HandOn, StreamRecord
    <3>3. now <= now' /\ idle_until <= idle_until' /\ idle_until' <= now' + TicketIdle
      BY <1>1, <2>5
    <3>4. \A t \in Streams \ {s} : Good(t)'
      BY <1>1, <3>1, <3>3, TimesKept
    <3>5. Good(s)'
      BY <1>1, <2>5, <3>2, TimesGrow
    <3> QED
      BY <1>1, <3>3, <3>4, <3>5 DEF TouchInv
  <2>6. Block(s) => TouchInv'
    <3>1. stream[s].since_touch + 1 # 0
      BY <1>1, StreamFields, DownloadAssumption
    <3> QED
      BY <2>5, <3>1 DEF Block
  <2>7. BlockTouches(s) => TouchInv'
    BY <2>5 DEF BlockTouches
  <2> QED
    BY <1>4, <2>2, <2>3, <2>4, <2>6, <2>7 DEF Move
<1> QED
  BY <1>3, <1>4 DEF Next

\* A sweep meets only a ticket whose deadline has come, and each stream's last touch
\* was within its TouchEvery latest blocks.
LEMMA SweptIsSlow ==
    ASSUME TouchInv, Next, NEW s \in Streams, SweptWhileSending(s),
           Len(stream[s].times) >= TouchEvery
    PROVE  now - Recent(s, TouchEvery) >= TicketIdle
<1> DEFINE times == stream[s].times
<1>1. /\ times \in Seq(0 .. Horizon) /\ Len(times) \in Nat
      /\ stream[s].since_touch \in 0 .. TouchEvery - 1
      /\ now \in Nat /\ idle_until \in Nat /\ TicketIdle \in Nat /\ TouchEvery \in Nat \ {0}
  BY DownloadAssumption, StreamFields DEF TouchInv, TypeOK
<1>2. idle_until <= now
  <2>1. held /\ ~held' /\ ~completed'
    BY DEF SweptWhileSending
  <2>2. ~Tick /\ ~Unlink
    BY <2>1 DEF Tick, Unlink
  <2>3. Sweep => idle_until <= now
    BY DEF Sweep, Expired
  <2>4. ASSUME NEW t \in Streams, Move(t) PROVE idle_until <= now
    BY <2>1, <2>4
       DEF Move, CheckoutHits, CheckoutMisses, Expired, Open, OpenFails, Block, BlockTouches,
           TouchFails, Stop, Report, Complete
  <2> QED
    BY <2>2, <2>3, <2>4 DEF Next
<1>3. /\ LastTouch(s) \in 1 .. Len(times)
      /\ Len(times) + 1 - TouchEvery \in 1 .. Len(times)
      /\ Len(times) + 1 - TouchEvery <= LastTouch(s)
  BY <1>1 DEF LastTouch
<1>4. times[Len(times) + 1 - TouchEvery] <= times[LastTouch(s)]
  BY <1>3 DEF TouchInv, TimesInOrder
<1>5. times[LastTouch(s)] + TicketIdle <= idle_until
  BY <1>3 DEF TouchInv, TouchCounts
<1>6. \A i \in 1 .. Len(times) : times[i] \in Nat
  BY SMTT(30), <1>1, DownloadAssumption
<1>7. times[Len(times) + 1 - TouchEvery] \in Nat /\ times[LastTouch(s)] \in Nat
  BY <1>3, <1>6
<1>8. Recent(s, TouchEvery) = times[Len(times) + 1 - TouchEvery]
  BY DEF Recent
<1> HIDE DEF times
<1> QED
  BY <1>1, <1>2, <1>4, <1>5, <1>7, <1>8

\* A receiver who took the bytes between two touches within the idle window is not
\* swept out from under the download.
THEOREM FastEnoughKeepsTicket == Spec => FastEnoughIsNotSwept
<1>1. TouchInv /\ [Next]_vars =>
        [\A s \in Streams : SweptWhileSending(s) /\ Len(stream[s].times) >= TouchEvery
            => now - Recent(s, TouchEvery) >= TicketIdle]_vars
  BY SweptIsSlow
<1> QED
  BY <1>1, InitTouchInv, TouchKept, PTL DEF Spec, FastEnoughIsNotSwept

--------------------------------------------------------------------------------
\* A stream whose ticket is gone has handed on no more blocks since than it did since its
\* last touch, for that touch still found the ticket.
OverrunIsRecent == \A s \in Streams : stream[s].overrun <= stream[s].since_touch

\* At start nothing was handed on.
LEMMA InitOverrun == Init => TypeOK /\ OverrunIsRecent
<1>1. Init => TypeOK
  BY InitIInv DEF IInv
<1>2. Init => OverrunIsRecent
  <2> SUFFICES ASSUME Init, NEW s \in Streams PROVE stream[s].overrun <= stream[s].since_touch
    BY DEF OverrunIsRecent
  <2>1. stream[s].overrun = 0 /\ stream[s].since_touch = 0
    BY DEF Init, NewStream
  <2> QED
    BY <2>1
<1> QED
  BY <1>1, <1>2

\* A block counts in both, or finds the ticket.
LEMMA StepKeepsOverrun == TypeOK /\ OverrunIsRecent /\ [Next]_vars => OverrunIsRecent'
<1> SUFFICES ASSUME TypeOK, OverrunIsRecent, [Next]_vars PROVE OverrunIsRecent'
  OBVIOUS
<1>1. stream \in [Streams -> StreamRecord]
  BY DEF TypeOK
<1>2. \A s \in Streams : stream[s].overrun \in Nat /\ stream[s].since_touch \in Nat
                         /\ stream[s].overrun <= stream[s].since_touch
  BY <1>1, StreamFields, DownloadAssumption DEF OverrunIsRecent
<1>3. Tick \/ Sweep \/ Unlink \/ UNCHANGED vars => OverrunIsRecent'
  <2>1. Tick \/ Sweep \/ Unlink \/ UNCHANGED vars => stream' = stream
    BY DEF Tick, Sweep, Unlink, vars
  <2> QED
    BY <2>1 DEF OverrunIsRecent
<1>4. ASSUME NEW s \in Streams, Move(s) PROVE OverrunIsRecent'
  <2>1. ASSUME NEW pc, Becomes(s, pc) PROVE OverrunIsRecent'
    BY <1>1, <1>2, <2>1 DEF Becomes, OverrunIsRecent, StreamRecord
  <2>2. ASSUME NEW start, NEW end, CheckoutHits(s, start, end) PROVE OverrunIsRecent'
    BY <1>1, <1>2, <2>2 DEF CheckoutHits, OverrunIsRecent, StreamRecord
  <2>3. ASSUME NEW n \in Nat, HandOn(s, n), held \/ n = stream[s].since_touch + 1
        PROVE  OverrunIsRecent'
    <3>1. /\ stream'[s].overrun = IF held THEN 0 ELSE stream[s].overrun + 1
          /\ stream'[s].since_touch = n
      BY <1>1, <2>3 DEF HandOn, StreamRecord
    <3>2. \A t \in Streams \ {s} : stream'[t] = stream[t]
      BY <1>1, <2>3 DEF HandOn
    <3>3. stream'[s].overrun <= stream'[s].since_touch
      BY <1>2, <2>3, <3>1
    <3> QED
      BY <1>2, <3>2, <3>3 DEF OverrunIsRecent
  <2>4. Block(s) => OverrunIsRecent'
    BY <1>2, <2>3 DEF Block
  <2>5. BlockTouches(s) => OverrunIsRecent'
    BY <2>3 DEF BlockTouches
  <2>6. CheckoutMisses(s) \/ Open(s) \/ OpenFails(s) \/ TouchFails(s) \/ Stop(s) \/ Report(s) \/ Complete(s)
            => OverrunIsRecent'
    BY <2>1 DEF CheckoutMisses, Open, OpenFails, TouchFails, Stop, Report, Complete
  <2> QED
    BY <1>4, <2>2, <2>4, <2>5, <2>6 DEF Move
<1> QED
  BY <1>3, <1>4 DEF Next

\* A stream that outlives its ticket stops at its next touch: it hands on fewer blocks of
\* a file whose bytes are given back than lie between two touches.
THEOREM OverrunEnds == Spec => []OverrunIsBounded
<1>1. TypeOK /\ OverrunIsRecent => OverrunIsBounded
  <2> SUFFICES ASSUME TypeOK, OverrunIsRecent, NEW s \in Streams PROVE stream[s].overrun < TouchEvery
    BY DEF OverrunIsBounded
  <2>1. stream[s].since_touch \in 0 .. TouchEvery - 1 /\ stream[s].overrun \in Nat
    BY StreamFields DEF TypeOK
  <2>2. stream[s].overrun <= stream[s].since_touch
    BY DEF OverrunIsRecent
  <2> QED
    BY <2>1, <2>2, DownloadAssumption
<1> QED
  BY <1>1, InitOverrun, TypeKept, StepKeepsOverrun, PTL DEF Spec
================================================================================
