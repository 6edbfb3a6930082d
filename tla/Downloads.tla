-------------------------------- MODULE Downloads --------------------------------
(***************************************************************************)
(* One ticket and the responses that stream its file: download_file and    *)
(* _stream_file of main.py over checkout, touch, delivered, complete and   *)
(* the sweep of filestore.py.                                              *)
(*                                                                         *)
(* A stream runs in worker threads, so anything may happen between two of  *)
(* its blocks, and a receiver may take the next block whenever it likes.   *)
(* The file is counted in blocks; once opened it can be read although it   *)
(* is unlinked.                                                            *)
(***************************************************************************)
EXTENDS Integers, Sequences

CONSTANTS
    Streams,        \* the GETs of the ticket
    Size,           \* blocks of the file
    TouchEvery,     \* blocks between two touches of the ticket
    TicketIdle,     \* idle window of a ticket
    Horizon         \* bound: the clock stops here

ASSUME DownloadAssumption ==
    /\ {Size, TouchEvery, TicketIdle} \subseteq Nat \ {0}
    /\ Horizon \in Nat

VARIABLES
    now,
    held,           \* the ticket is in _tickets
    idle_until,     \* _Ticket.idle_until
    delivered,      \* _Ticket.delivered
    linked,         \* the file is on the volume
    stream,         \* the responses
    completed       \* history: complete found the ticket

vars == <<now, held, idle_until, delivered, linked, stream, completed>>

Blocks == 0 .. Size - 1

\* What download_file and _stream_file keep of one response; `pos` is the next
\* block to read.  History: the times at which its blocks went out, and how many
\* did after the ticket had gone.
StreamRecord ==
    [pc : {"new", "opening", "sending", "retiring", "done", "cut"},
     start : Blocks, end : Blocks, pos : 0 .. Size,
     since_touch : 0 .. TouchEvery - 1,
     times : Seq(0 .. Horizon), overrun : Nat]

NewStream ==
    [pc |-> "new", start |-> 0, end |-> 0, pos |-> 0,
     since_touch |-> 0, times |-> << >>, overrun |-> 0]

Init ==
    /\ now = 0
    /\ held = TRUE                   \* take has just opened the ticket
    /\ idle_until = TicketIdle
    /\ delivered = 0
    /\ linked = TRUE
    /\ stream = [s \in Streams |-> NewStream]
    /\ completed = FALSE

Becomes(s, pc) == stream' = [stream EXCEPT ![s].pc = pc]

--------------------------------------------------------------------------------
(* The clock, the sweeper, the unlinks outside the lock.                   *)

\* download_file does not wait between checkout and open.
Tick ==
    /\ now < Horizon
    /\ \A s \in Streams : stream[s].pc # "opening"
    /\ now' = now + 1
    /\ UNCHANGED <<held, idle_until, delivered, linked, stream, completed>>

Expired == idle_until <= now

Sweep ==
    /\ held
    /\ Expired
    /\ held' = FALSE
    /\ UNCHANGED <<now, idle_until, delivered, linked, stream, completed>>

\* mutant: a swept ticket's path is not kept for the unlink
Unlink_AfterComplete ==
    /\ ~held /\ completed /\ linked
    /\ linked' = FALSE
    /\ UNCHANGED <<now, held, idle_until, delivered, stream, completed>>

Unlink ==
    /\ ~held
    /\ linked
    /\ linked' = FALSE
    /\ UNCHANGED <<now, held, idle_until, delivered, stream, completed>>

--------------------------------------------------------------------------------
(* download_file: checkout, then open, then the response begins.           *)

\* Bound: nothing pushes a deadline past the horizon.
InTime == now + TicketIdle <= Horizon

\* Any range parse_range may return: a whole file, a resume, a probe of the tail.
CheckoutHits(s, start, end) ==
    /\ stream[s].pc = "new"
    /\ InTime
    /\ start <= end
    /\ held
    /\ ~Expired
    /\ idle_until' = now + TicketIdle
    /\ stream' = [stream EXCEPT ![s].pc = "opening", ![s].start = start,
                                ![s].end = end, ![s].pos = start]
    /\ UNCHANGED <<now, held, delivered, linked, completed>>

\* checkout purges first, so an expired ticket goes here.
CheckoutMisses(s) ==
    /\ stream[s].pc = "new"
    /\ ~held \/ Expired
    /\ held' = FALSE
    /\ Becomes(s, "cut")
    /\ UNCHANGED <<now, idle_until, delivered, linked, completed>>

Open(s) ==
    /\ stream[s].pc = "opening"
    /\ linked
    /\ Becomes(s, "sending")
    /\ UNCHANGED <<now, held, idle_until, delivered, linked, completed>>

\* The file is gone or unreadable (404), or the range is none of this file's (416).
OpenFails(s) ==
    /\ stream[s].pc = "opening"
    /\ Becomes(s, "cut")
    /\ UNCHANGED <<now, held, idle_until, delivered, linked, completed>>

--------------------------------------------------------------------------------
(* _stream_file: block by block, then delivered, then complete.            *)

Sending(s) == stream[s].pc = "sending"
AtEnd(s) == stream[s].pos > stream[s].end
TouchDue(s) == stream[s].since_touch + 1 >= TouchEvery

HandOn(s, since_touch) ==
    stream' = [stream EXCEPT ![s].pos = @ + 1,
                             ![s].since_touch = since_touch,
                             ![s].times = Append(@, now),
                             ![s].overrun = IF held THEN 0 ELSE @ + 1]

Block(s) ==
    /\ Sending(s)
    /\ ~AtEnd(s)
    /\ ~TouchDue(s)
    /\ HandOn(s, stream[s].since_touch + 1)
    /\ UNCHANGED <<now, held, idle_until, delivered, linked, completed>>

\* mutant: the answer of touch is not looked at
BlockTouches_IgnoresAnswer(s) ==
    /\ Sending(s) /\ ~AtEnd(s) /\ TouchDue(s) /\ InTime
    /\ idle_until' = IF held THEN now + TicketIdle ELSE idle_until
    /\ HandOn(s, 0)
    /\ UNCHANGED <<now, held, delivered, linked, completed>>

\* mutant: touch finds the ticket but leaves its deadline
BlockTouches_NoPush(s) ==
    /\ Sending(s) /\ ~AtEnd(s) /\ TouchDue(s) /\ held /\ InTime
    /\ HandOn(s, 0)
    /\ UNCHANGED <<now, held, idle_until, delivered, linked, completed>>

BlockTouches(s) ==
    /\ Sending(s)
    /\ ~AtEnd(s)
    /\ TouchDue(s)
    /\ held
    /\ InTime
    /\ idle_until' = now + TicketIdle
    /\ HandOn(s, 0)
    /\ UNCHANGED <<now, held, delivered, linked, completed>>

\* The ticket was swept or completed meanwhile: the block just read is not sent.
TouchFails(s) ==
    /\ Sending(s)
    /\ ~AtEnd(s)
    /\ TouchDue(s)
    /\ ~held
    /\ Becomes(s, "cut")
    /\ UNCHANGED <<now, held, idle_until, delivered, linked, completed>>

\* The connection breaks and the generator is dropped at a yield, or a read fails
\* or finds nothing and it returns: delivered is not called.
Stop(s) ==
    /\ Sending(s)
    /\ Becomes(s, "cut")
    /\ UNCHANGED <<now, held, idle_until, delivered, linked, completed>>

\* mutant: the rule "did this response end at the last byte"
Mark_AnyRange(s) == IF delivered < stream[s].end + 1 THEN stream[s].end + 1 ELSE delivered

\* mutant: the mark one byte short
Mark_OneShort(s) ==
    IF stream[s].start <= delivered /\ delivered < stream[s].end
    THEN stream[s].end ELSE delivered

\* delivered moves the mark only for a range that continues it.
Mark(s) ==
    IF stream[s].start <= delivered /\ delivered < stream[s].end + 1
    THEN stream[s].end + 1
    ELSE delivered

Report(s) ==
    /\ Sending(s)
    /\ AtEnd(s)
    /\ delivered' = IF held THEN Mark(s) ELSE delivered
    /\ Becomes(s, IF held /\ Mark(s) >= Size THEN "retiring" ELSE "done")
    /\ UNCHANGED <<now, held, idle_until, linked, completed>>

Complete(s) ==
    /\ stream[s].pc = "retiring"
    /\ held' = FALSE
    /\ completed' = (completed \/ held)
    /\ Becomes(s, "done")
    /\ UNCHANGED <<now, idle_until, delivered, linked>>

Move(s) ==
    \/ \E start, end \in Blocks : CheckoutHits(s, start, end)
    \/ CheckoutMisses(s)
    \/ Open(s)
    \/ OpenFails(s)
    \/ Block(s)
    \/ BlockTouches(s)
    \/ TouchFails(s)
    \/ Stop(s)
    \/ Report(s)
    \/ Complete(s)

Next ==
    \/ Tick
    \/ Sweep
    \/ Unlink
    \/ \E s \in Streams : Move(s)

\* Time passes, the sweeper goes round, a path taken off the books is unlinked,
\* and download_file goes on from checkout to open.  No receiver is obliged to read.
Spec ==
    /\ Init
    /\ [][Next]_vars
    /\ WF_vars(Tick)
    /\ WF_vars(Sweep)
    /\ WF_vars(Unlink)
    /\ \A s \in Streams : WF_vars(Open(s) \/ OpenFails(s))

--------------------------------------------------------------------------------
(* Properties.                                                             *)

TypeOK ==
    /\ now \in 0 .. Horizon
    /\ held \in BOOLEAN
    /\ idle_until \in Nat
    /\ delivered \in 0 .. Size
    /\ linked \in BOOLEAN
    /\ stream \in [Streams -> StreamRecord]
    /\ completed \in BOOLEAN

\* The blocks that went out in a range sent to its last byte.
RanToTheEnd(s) == stream[s].pc \in {"retiring", "done"}
WentOut(b) == \E s \in Streams : RanToTheEnd(s) /\ b \in stream[s].start .. stream[s].end

\* A download ends the ticket only when every block of the file went out in a
\* range that was sent to its end: not by a probe for the tail, not by a stream
\* that was cut, not by ranges with a hole between them (_stream_file, delivered).
RetiredOnlyWhenAllWentOut == completed => \A b \in Blocks : WentOut(b)

\* Once one response has sent the whole file and returned, the ticket is gone,
\* whatever other streams did meanwhile (delivered, complete).
WholeStreamEndsTicket ==
    \A s \in Streams :
        stream[s].pc = "done" /\ stream[s].start = 0 /\ stream[s].end = Size - 1 => ~held

\* A stream that outlives its ticket stops at its next touch: what it still hands
\* on comes from a file whose bytes are already given back (_stream_file, touch).
OverrunIsBounded == \A s \in Streams : stream[s].overrun < TouchEvery

\* When stream s handed on the nth block before its next one.
Recent(s, n) == stream[s].times[Len(stream[s].times) + 1 - n]

SweptWhileSending(s) == held /\ ~held' /\ ~completed' /\ Sending(s)

\* A receiver who took the bytes between two touches within the idle window is not
\* swept out, however unevenly they came (_stream_file, touch, the sweeps).
FastEnoughIsNotSwept ==
    [][\A s \in Streams :
         SweptWhileSending(s) /\ Len(stream[s].times) >= TouchEvery
            => now - Recent(s, TouchEvery) >= TicketIdle]_vars

\* A ticket is not swept out from under a receiver to whom bytes went within the
\* idle window (the comment on _TOUCH_EVERY_BYTES).
MovingIsNotSwept ==
    [][\A s \in Streams :
         SweptWhileSending(s) /\ Len(stream[s].times) >= 1
            => now - Recent(s, 1) >= TicketIdle]_vars

\* The file leaves the volume, however its streams end (complete, the sweep).
TicketEnds == <>[]~linked
================================================================================
