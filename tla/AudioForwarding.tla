--------------------------- MODULE AudioForwarding ---------------------------
(***************************************************************************)
(* The caller's audio on its way to the provider: PcmAudioInput of         *)
(* media/audio.py between the track consumer of media/webrtc.py, which     *)
(* pushes frames, and the sender task of RealtimeRuntime, which takes      *)
(* chunks and sends them.                                                  *)
(*                                                                         *)
(* A frame is its number.  The resampler may hold frames back until a      *)
(* later frame, or the flush in close, gives it enough samples.            *)
(***************************************************************************)
EXTENDS RealtimeRuntime, Sequences, SequencesExt

CONSTANT MaxFrames  \* bound: how many frames the caller sends

ASSUME MaxFramesAssumption == MaxFrames \in Nat

EndOfChunks == 0    \* the None that close puts at the end of the queue

VARIABLES
    frames,     \* how many frames were accepted
    held,       \* accepted frames still inside the resampler
    queue,      \* PcmAudioInput._chunks
    inHand,     \* the chunk the sender is sending, as a sequence of length 0 or 1
    forwarded   \* history: what the provider took, oldest first

audioVars == <<frames, held, queue, inHand, forwarded>>

AudioInit ==
    /\ Init
    /\ frames = 0
    /\ held = << >> /\ queue = << >> /\ inHand = << >> /\ forwarded = << >>

AllFrames == [i \in 1..frames |-> i]

-----------------------------------------------------------------------------
(* PcmAudioInput *)

\* Mutant of PushFrame: what the resampler held comes out behind the new frame.
PushFrameOvertaking ==
    /\ ~inputClosed
    /\ frames < MaxFrames
    /\ frames' = frames + 1
    /\ \/ queue' = queue \o <<frames'>> \o held /\ held' = << >>
       \/ held' = Append(held, frames') /\ UNCHANGED queue
    /\ UNCHANGED <<inHand, forwarded, vars>>

\* push_frame, called by the track consumer: a closed input drops the frame.
PushFrame ==
    /\ ~inputClosed
    /\ frames < MaxFrames
    /\ frames' = frames + 1
    /\ \/ queue' = queue \o held \o <<frames'>> /\ held' = << >>
       \/ held' = Append(held, frames') /\ UNCHANGED queue
    /\ UNCHANGED <<inHand, forwarded, vars>>

\* Mutant of FlushInput: what the resampler holds is not flushed.
FlushNothing ==
    /\ queue' = IF inputClosed THEN queue ELSE Append(queue, EndOfChunks)
    /\ UNCHANGED <<held, frames, inHand, forwarded>>

\* close: the resampler is flushed and the chunks are ended, once.
FlushInput ==
    /\ \/ inputClosed /\ UNCHANGED <<queue, held>>
       \/ ~inputClosed /\ queue' = queue \o held \o <<EndOfChunks>> /\ held' = << >>
    /\ UNCHANGED <<frames, inHand, forwarded>>

-----------------------------------------------------------------------------
(* The sender: "async for chunk in audio" *)

\* Mutant of TakeChunk: the next chunk is taken while one is being sent.
TakeChunkEarly ==
    /\ sender = "running"
    /\ queue # << >> /\ Head(queue) # EndOfChunks
    /\ inHand' = Append(inHand, Head(queue))
    /\ queue' = Tail(queue)
    /\ UNCHANGED <<frames, held, forwarded, vars>>

TakeChunk ==
    /\ sender = "running" /\ inHand = << >>
    /\ queue # << >> /\ Head(queue) # EndOfChunks
    /\ inHand' = <<Head(queue)>>
    /\ queue' = Tail(queue)
    /\ UNCHANGED <<frames, held, forwarded, vars>>

ChunkSent ==
    /\ sender = "running" /\ inHand # << >>
    /\ forwarded' = forwarded \o inHand
    /\ inHand' = << >>
    /\ UNCHANGED <<frames, held, queue, vars>>

ChunkRefused ==
    /\ inHand # << >>
    /\ SenderRaises /\ UNCHANGED inputClosed
    /\ inHand' = << >>
    /\ UNCHANGED <<frames, held, queue, forwarded>>

ChunksEnd ==
    /\ inHand = << >>
    /\ queue # << >> /\ Head(queue) = EndOfChunks
    /\ SenderReturns /\ UNCHANGED inputClosed
    /\ queue' = Tail(queue)
    /\ UNCHANGED <<frames, held, inHand, forwarded>>

\* A cancelled sender drops the chunk it was sending; the queue keeps the rest.
SendCancelled ==
    /\ SenderCancelled /\ UNCHANGED inputClosed
    /\ inHand' = << >>
    /\ UNCHANGED <<frames, held, queue, forwarded>>

AudioNext ==
    \/ PushFrame \/ TakeChunk \/ ChunkSent \/ ChunkRefused \/ ChunksEnd \/ SendCancelled
    \/ (Start \/ DriverStep \/ Finalize) /\ UNCHANGED <<inputClosed, audioVars>>
    \/ (DriverLeaves \/ Environment) /\ FlushInput

\* The fairness of the run is enough: nothing obliges the provider to take audio.
AudioSpec == AudioInit /\ [][AudioNext]_<<vars, audioVars>> /\ Fairness

-----------------------------------------------------------------------------
(* Properties *)

AudioTypeOK ==
    /\ TypeOK
    /\ frames \in 0..MaxFrames
    /\ \A s \in {held, queue, inHand, forwarded} : s \in Seq(0..MaxFrames)
    /\ Len(inHand) <= 1

\* The queue without the end of the chunks.
QueuedChunks == IF queue # << >> /\ Last(queue) = EndOfChunks THEN Front(queue) ELSE queue

\* While the sender is at work no frame is lost, repeated or overtaken on its
\* way through the resampler, the queue and the sender, and the end of the
\* chunks is behind them all.
NothingLost ==
    sender \in {"none", "running", "cancelling"} =>
        forwarded \o inHand \o QueuedChunks \o held = AllFrames

\* What the provider has is a beginning of what the caller said, also after
\* the sender was cancelled or refused, and all of it when the sender returns.
ForwardedInOrder ==
    /\ IsPrefix(forwarded, AllFrames)
    /\ sender = "returned" => forwarded = AllFrames

=============================================================================
