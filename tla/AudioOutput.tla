---------------------------- MODULE AudioOutput ----------------------------
(***************************************************************************)
(* PcmAudioOutputTrack of media/audio.py: the provider's audio on its way  *)
(* to the caller.                                                          *)
(*                                                                         *)
(* AudioRuntimeBridge pushes pieces of any length, interrupts when the     *)
(* caller speaks, and closes.  The WebRTC sender, once it is connected,    *)
(* calls recv in a loop until recv raises, the connection is lost or the   *)
(* peer connection is closed.  A sample is its number, Silence what close  *)
(* pads with.  One unit of time, and of next_pts, is the duration of a     *)
(* frame.                                                                  *)
(***************************************************************************)
EXTENDS Integers, Sequences, SequencesExt

CONSTANTS
    FrameSamples,   \* _frame_samples
    MaxSamples,     \* bound: the samples the provider sends
    MaxTime,        \* bound: how long the provider may be silent
    Prompt          \* the event loop and the WebRTC sender never delay recv

ASSUME FrameAssumption == FrameSamples \in Nat \ {0}
ASSUME BoundsAssumption == MaxSamples \in Nat /\ MaxTime \in Nat
ASSUME PromptAssumption == Prompt \in BOOLEAN

Silence    == 0
EndOfTrack == << >>     \* the None that close puts at the end of the queue

VARIABLES
    pushed,     \* how many samples were accepted
    pending,    \* _pending_pcm
    chunks,     \* _chunks
    closed,     \* _closed
    nextPts,    \* _next_pts
    started,    \* _started_at is not None
    startedAt,  \* _started_at, once it is set
    inHand,     \* the frame recv waits with, as a sequence of length 0 or 1
    due,        \* when recv's sleep ends
    sender,     \* what the WebRTC sender does
    now,        \* time.monotonic()
    played,     \* history: the frames recv returned, with their times
    silenced,   \* history: how many samples had been pushed at the last interrupt
    playedThen  \* history: how many frames had been returned by then

input == <<pushed, pending, closed>>
clock == <<nextPts, started, startedAt, inHand, due, sender>>
past  == <<played, silenced, playedThen>>
vars  == <<input, chunks, clock, now, past>>

\* "idle" until it is connected, "ended" when recv has raised MediaStreamError.
SenderStates == {"idle", "running", "stopped", "ended"}

Init ==
    /\ pushed = 0 /\ pending = << >> /\ closed = FALSE
    /\ chunks = << >>
    /\ nextPts = 0 /\ started = FALSE /\ startedAt = 0
    /\ inHand = << >> /\ due = 0 /\ sender = "idle"
    /\ now = 0
    /\ played = << >> /\ silenced = 0 /\ playedThen = 0

-----------------------------------------------------------------------------
(* The bridge *)

Frames(pcm) ==
    [i \in 1..(Len(pcm) \div FrameSamples) |->
        SubSeq(pcm, (i - 1) * FrameSamples + 1, i * FrameSamples)]

\* Mutant of Rest: the loop runs while there is more than a frame.
RestKept(pcm) ==
    IF pcm # << >> /\ Len(pcm) % FrameSamples = 0
    THEN SubSeq(pcm, Len(pcm) - FrameSamples + 1, Len(pcm))
    ELSE SubSeq(pcm, Len(pcm) - (Len(pcm) % FrameSamples) + 1, Len(pcm))

Rest(pcm) == SubSeq(pcm, Len(pcm) - (Len(pcm) % FrameSamples) + 1, Len(pcm))

PushPcm(n) ==
    /\ ~closed
    /\ n \in 1..(MaxSamples - pushed)
    /\ pushed' = pushed + n
    /\ LET pcm == pending \o [i \in 1..n |-> pushed + i]
       IN  chunks' = chunks \o Frames(pcm) /\ pending' = Rest(pcm)
    /\ UNCHANGED <<closed, clock, now, past>>

\* Mutant of Interrupt: the piece of a frame that is pending is not discarded.
InterruptKeepsPending ==
    /\ ~closed
    /\ chunks' = << >>
    /\ started' = TRUE /\ startedAt' = now - nextPts
    /\ silenced' = pushed /\ playedThen' = Len(played)
    /\ UNCHANGED <<input, nextPts, inHand, due, sender, now, played>>

\* What has not reached recv is discarded, and the next frame is due at once.
Interrupt ==
    /\ ~closed
    /\ chunks' = << >> /\ pending' = << >>
    /\ started' = TRUE /\ startedAt' = now - nextPts
    /\ silenced' = pushed /\ playedThen' = Len(played)
    /\ UNCHANGED <<pushed, closed, nextPts, inHand, due, sender, now, played>>

Padded(pcm) == pcm \o [i \in 1..(FrameSamples - Len(pcm)) |-> Silence]

\* Mutant of Close: the rest that is no whole frame is dropped.
CloseDropsRest ==
    /\ ~closed
    /\ closed' = TRUE
    /\ pending' = << >>
    /\ chunks' = Append(chunks, EndOfTrack)
    /\ UNCHANGED <<pushed, clock, now, past>>

\* Mutant of Close: the end marker is put before the padded rest.
CloseMarksFirst ==
    /\ ~closed
    /\ closed' = TRUE
    /\ pending' = << >>
    /\ chunks' = chunks \o <<EndOfTrack>>
                        \o (IF pending = << >> THEN << >> ELSE <<Padded(pending)>>)
    /\ UNCHANGED <<pushed, clock, now, past>>

\* close, by the bridge or by WebRtcSession: a second call changes nothing.
Close ==
    /\ ~closed
    /\ closed' = TRUE
    /\ pending' = << >>
    /\ chunks' = chunks \o (IF pending = << >> THEN << >> ELSE <<Padded(pending)>>)
                        \o <<EndOfTrack>>
    /\ UNCHANGED <<pushed, clock, now, past>>

-----------------------------------------------------------------------------
(* recv, in the WebRTC sender's loop *)

CanTake   == sender = "running" /\ inHand = << >> /\ chunks # << >>
CanReturn == sender = "running" /\ inHand # << >> /\ now >= due

TakeFrame ==
    /\ CanTake /\ Head(chunks) # EndOfTrack
    /\ chunks' = Tail(chunks)
    /\ inHand' = <<Head(chunks)>>
    /\ \/ ~started /\ started' = TRUE /\ startedAt' = now /\ due' = now
       \/ started /\ due' = startedAt + nextPts /\ UNCHANGED <<started, startedAt>>
    /\ UNCHANGED <<input, nextPts, sender, now, past>>

ReturnFrame ==
    /\ CanReturn
    /\ played' = Append(played, [pcm |-> Head(inHand), at |-> now])
    /\ nextPts' = nextPts + 1
    /\ inHand' = << >>
    /\ UNCHANGED <<input, chunks, started, startedAt, due, sender, now, silenced, playedThen>>

EndTrack ==
    /\ CanTake /\ Head(chunks) = EndOfTrack
    /\ chunks' = Tail(chunks)
    /\ sender' = "ended"
    /\ UNCHANGED <<input, nextPts, started, startedAt, inHand, due, now, past>>

\* The transport is connected, which may never happen.
SenderStarts ==
    /\ sender = "idle"
    /\ sender' = "running"
    /\ UNCHANGED <<input, chunks, nextPts, started, startedAt, inHand, due, now, past>>

\* The peer connection is closed, as WebRtcSession does right after the track,
\* or lost.  A recv that sleeps is cancelled and never returns its frame.
SenderStops ==
    /\ sender \in {"idle", "running"}
    /\ sender' = "stopped"
    /\ UNCHANGED <<input, chunks, nextPts, started, startedAt, inHand, due, now, past>>

\* Time passes for as long as recv sleeps, and otherwise up to the bound.
Tick ==
    /\ now < MaxTime \/ (sender = "running" /\ inHand # << >> /\ now < due)
    /\ Prompt => ~CanTake /\ ~CanReturn
    /\ now' = now + 1
    /\ UNCHANGED <<input, chunks, clock, past>>

-----------------------------------------------------------------------------

Next ==
    \/ \E n \in 1..MaxSamples : PushPcm(n)
    \/ Interrupt \/ Close
    \/ TakeFrame \/ ReturnFrame \/ EndTrack
    \/ SenderStarts \/ SenderStops
    \/ Tick

\* While it runs the WebRTC sender calls recv, and a sleep ends; nothing makes
\* the sender start or stop, the provider speak or the bridge close.
Fairness == WF_vars(TakeFrame) /\ WF_vars(ReturnFrame) /\ WF_vars(EndTrack) /\ WF_vars(Tick)

Spec == Init /\ [][Next]_vars /\ Fairness

-----------------------------------------------------------------------------
(* Properties *)

IsFrame(f) == Len(f) = FrameSamples /\ \A i \in DOMAIN f : f[i] \in 0..pushed

TypeOK ==
    /\ pushed \in 0..MaxSamples
    /\ Len(pending) < FrameSamples /\ \A i \in DOMAIN pending : pending[i] \in 1..pushed
    /\ \A i \in DOMAIN chunks : chunks[i] = EndOfTrack \/ IsFrame(chunks[i])
    /\ \A i \in DOMAIN inHand : IsFrame(inHand[i])
    /\ closed \in BOOLEAN /\ sender \in SenderStates
    /\ nextPts \in Nat /\ now \in Nat /\ due \in Int
    /\ started \in BOOLEAN /\ startedAt \in Int

\* Everything that was returned or may still be, in order of its arrival.
Line == [i \in DOMAIN played |-> played[i].pcm] \o inHand \o chunks \o <<pending>>

\* Sample s is in one of the frames.
Holds(line, s) == \E f \in DOMAIN line : \E i \in DOMAIN line[f] : line[f][i] = s

\* From a sample to a later one, in the same frame or in a later one, numbers grow.
Ascending(line) ==
    \A f, g \in DOMAIN line : \A i \in DOMAIN line[f] : \A j \in DOMAIN line[g] :
        /\ f < g \/ (f = g /\ i < j)
        /\ line[f][i] # Silence /\ line[g][j] # Silence
        => line[f][i] < line[g][j]

\* Cutting the pieces into frames, discarding and padding never repeats or
\* reorders a sample, and loses none that came after the last interrupt.
SpokenInOrder == Ascending(Line) /\ \A s \in (silenced + 1)..pushed : Holds(Line, s)

\* After an interrupt the caller hears at most one frame from before it: the one
\* recv already had in hand.
InterruptSilences ==
    \A i \in DOMAIN played :
        i > playedThen + 1 =>
            \A j \in DOMAIN played[i].pcm : played[i].pcm[j] \notin 1..silenced

\* A closed track lets the sender go although the peer connection stays open (the
\* report failed, so the session was not closed): recv raises, wherever it was,
\* and only after it has returned everything that was left, the padded rest too.
NothingLeft == chunks = << >> /\ inHand = << >> /\ pending = << >>

EndsPlayed == sender = "ended" => NothingLeft

TrackEnds ==
    closed /\ sender = "running" ~> sender = "stopped" \/ (sender = "ended" /\ NothingLeft)

\* audio.py:82 "a paced aiortc audio track": frames leave one frame duration
\* apart when nothing delays recv, not counting those around an interrupt.
Paced ==
    \A i \in (playedThen + 2)..(Len(played) - 1) : played[i + 1].at > played[i].at

=============================================================================
