----------------------- MODULE AudioForwardingProofs -----------------------
(***************************************************************************)
(* Theorems about a realtime run with the caller's audio, for any set of   *)
(* failures of the provider, any number of frames and however the run      *)
(* ends.                                                                   *)
(*                                                                         *)
(* The audio only restricts when the sender acts: every step of AudioNext  *)
(* is a step of the run or leaves it alone (RunOfAudio), so the run keeps  *)
(* the invariant of RealtimeRuntimeProofs.                                 *)
(*                                                                         *)
(* A frame is its number, so each place on the way of the frames holds an  *)
(* interval of them (Stretch).  The invariant DeliveryInv says that the    *)
(* intervals are adjacent, except behind a sender that was cancelled or    *)
(* refused, and that the end of the chunks is behind all of them.          *)
(***************************************************************************)
EXTENDS AudioForwarding, RealtimeRuntimeProofs, SequenceTheorems

-----------------------------------------------------------------------------
(* The audio restricts the run *)

\* Every step of the audio is a step of the run or leaves the run alone.
LEMMA RunOfAudio == AudioNext => [Next]_vars
BY DEF AudioNext, PushFrame, TakeChunk, ChunkSent, ChunkRefused, ChunksEnd, SendCancelled,
       Next, SenderStep

\* Whatever the provider, the caller and the tasks that cancel the run do, the
\* strengthened invariant holds.
THEOREM AudioRunInvariance == AudioSpec => []RunInv
<1>1. AudioInit => RunInv
  BY InitRunInv DEF AudioInit
<1>2. RunInv /\ [AudioNext]_<<vars, audioVars>> => RunInv'
  BY NextRunInv, RunOfAudio
<1> QED BY <1>1, <1>2, PTL DEF AudioSpec

\* The sender never runs without an open connection, and never outlives the run.
THEOREM SenderIsConfined == AudioSpec => []SenderInsideConnection
BY RunFacts, AudioRunInvariance, PTL

\* A run leaves its connection open only in the three ways LeakIsExplained lists.
THEOREM LeaksAreExplained == AudioSpec => []LeakIsExplained
BY RunFacts, AudioRunInvariance, PTL

\* A run that was cancelled is never reported as a completed scenario.
THEOREM CancellationIsSeen == AudioSpec => []CancelledNeverCompletes
BY RunFacts, AudioRunInvariance, PTL

-----------------------------------------------------------------------------
(* What the provider takes is what the caller said *)

\* The frames after frame a up to frame b.
Stretch(a, b) == [i \in 1..(b - a) |-> a + i]

\* The sender has not lost a chunk.
Intact == sender \in {"none", "running", "cancelling", "returned"}

\* What is in the queue behind the frames.
Ends == IF inputClosed /\ sender # "returned" THEN <<EndOfChunks>> ELSE << >>

\* The provider took the frames up to a, the sender those up to b, and those up
\* to c have left the resampler.
Places(a, b, c) ==
    /\ a <= b /\ b <= c /\ c <= frames
    /\ forwarded = Stretch(0, a)
    /\ inHand = IF Intact THEN Stretch(a, b) ELSE << >>
    /\ Intact => b <= a + 1
    /\ queue = Stretch(b, c) \o Ends
    /\ held = Stretch(c, frames)
    /\ inputClosed => c = frames
    /\ sender = "returned" => a = frames

DeliveryInv ==
    /\ frames \in 0..MaxFrames
    /\ sender = "returned" => inputClosed
    /\ \E a, b, c \in Nat : Places(a, b, c)

-----------------------------------------------------------------------------
(* Stretches *)

\* A stretch is a sequence of the frames in it.
LEMMA StretchType ==
    ASSUME NEW a \in Nat, NEW b \in Nat, a <= b
    PROVE  /\ Stretch(a, b) \in Seq((a + 1)..b) /\ Stretch(a, b) \in Seq(Nat)
           /\ Len(Stretch(a, b)) = b - a
           /\ DOMAIN Stretch(a, b) = 1..(b - a)
           /\ \A i \in 1..(b - a) : Stretch(a, b)[i] = a + i
<1>1. b - a \in Nat
  OBVIOUS
<1>2. \A i \in 1..(b - a) : a + i \in (a + 1)..b /\ a + i \in Nat
  OBVIOUS
<1> QED BY <1>1, <1>2 DEF Stretch

\* A sequence that lists the frames from a to b is their stretch.
LEMMA StretchIs ==
    ASSUME NEW S, NEW s \in Seq(S), NEW a \in Nat, NEW b \in Nat, a <= b,
           Len(s) = b - a, \A i \in 1..(b - a) : s[i] = a + i
    PROVE  s = Stretch(a, b)
<1>1. s = [i \in 1..(b - a) |-> s[i]]
  OBVIOUS
<1> QED BY <1>1 DEF Stretch

\* Adjacent stretches make one.
LEMMA StretchJoin ==
    ASSUME NEW a \in Nat, NEW b \in Nat, NEW c \in Nat, a <= b, b <= c
    PROVE  Stretch(a, b) \o Stretch(b, c) = Stretch(a, c)
<1> DEFINE s == Stretch(a, b)
           t == Stretch(b, c)
           n == b - a
           m == c - b
<1>1. s \in Seq(Nat) /\ Len(s) = n /\ \A i \in 1..n : s[i] = a + i
  BY StretchType
<1>2. t \in Seq(Nat) /\ Len(t) = m /\ \A i \in 1..m : t[i] = b + i
  BY StretchType
<1>3. n \in Nat /\ m \in Nat /\ n + m = c - a /\ b = a + n
  OBVIOUS
<1> HIDE DEF s, t, n, m
<1>4. /\ s \o t \in Seq(Nat) /\ Len(s \o t) = n + m
      /\ \A i \in 1..(n + m) : (s \o t)[i] = IF i <= n THEN s[i] ELSE t[i - n]
  <2>1. /\ s \o t \in Seq(Nat) /\ Len(s \o t) = Len(s) + Len(t)
        /\ \A i \in 1..(Len(s) + Len(t)) :
               (s \o t)[i] = IF i <= Len(s) THEN s[i] ELSE t[i - Len(s)]
    BY <1>1, <1>2, ConcatProperties, Zenon
  <2> QED BY <1>1, <1>2, <2>1, Zenon
<1>5. ASSUME NEW i \in 1..(n + m) PROVE (s \o t)[i] = a + i
  <2>1. CASE i <= n
    BY <1>1, <1>3, <1>4, <2>1
  <2>2. CASE i > n
    <3>1. i - n \in 1..m /\ b + (i - n) = a + i /\ ~(i <= n)
      BY <1>3, <2>2
    <3>2. (s \o t)[i] = t[i - n]
      BY <1>4, <3>1, Zenon
    <3>3. t[i - n] = b + (i - n)
      BY <1>2, <3>1, Zenon
    <3> QED BY <3>1, <3>2, <3>3
  <2>3. i <= n \/ i > n
    BY <1>3
  <2> QED BY <2>1, <2>2, <2>3, Zenon
<1>6. a <= c /\ Len(s \o t) = c - a /\ \A i \in 1..(c - a) : (s \o t)[i] = a + i
  BY <1>3, <1>4, <1>5
<1>7. s \o t = Stretch(a, c)
  BY <1>4, <1>6, StretchIs
<1> QED BY <1>7 DEF s, t

\* The next frame alone, and no frame at all.
LEMMA StretchSmall ==
    ASSUME NEW a \in Nat
    PROVE  Stretch(a, a + 1) = <<a + 1>> /\ Stretch(a, a) = << >>
<1>1. <<a + 1>> \in Seq(Nat) /\ Len(<<a + 1>>) = 1 /\ <<a + 1>>[1] = a + 1
  OBVIOUS
<1>2. (a + 1) - a = 1 /\ a <= a + 1 /\ a + 1 \in Nat /\ \A i \in 1..1 : i = 1
  OBVIOUS
<1>3. Stretch(a, a + 1) = <<a + 1>>
  BY <1>1, <1>2, StretchIs
<1>4. << >> \in Seq(Nat) /\ Len(<< >>) = 0 /\ a - a = 0 /\ a <= a /\ 1..0 = {}
  OBVIOUS
<1>5. Stretch(a, a) = << >>
  BY <1>4, StretchIs
<1> QED BY <1>3, <1>5

\* What the sender takes from a stretch.
LEMMA StretchHead ==
    ASSUME NEW a \in Nat, NEW b \in Nat, a < b, NEW e \in {<< >>, <<EndOfChunks>>}
    PROVE  LET q == Stretch(a, b) \o e
           IN  /\ q # << >> /\ Head(q) = a + 1
               /\ Tail(q) = Stretch(a + 1, b) \o e
<1> DEFINE r == Stretch(a + 1, b)
           t == r \o e
<1>0. a + 1 \in Nat /\ a <= a + 1 /\ a + 1 <= b
  OBVIOUS
<1>1. Stretch(a, b) = <<a + 1>> \o r
  BY <1>0, StretchJoin, StretchSmall
<1>2. r \in Seq(Nat) /\ e \in Seq(Nat) /\ <<a + 1>> \in Seq(Nat)
  <2>1. r \in Seq(Nat)
    BY <1>0, StretchType
  <2>2. << >> \in Seq(Nat) /\ <<0>> \in Seq(Nat)
    OBVIOUS
  <2>3. e \in Seq(Nat)
    BY <2>2, Zenon DEF EndOfChunks
  <2> QED BY <2>1, <2>3
<1> HIDE DEF r
<1>3. (<<a + 1>> \o r) \o e = <<a + 1>> \o t
  BY <1>2, ConcatAssociative
<1>4. t \in Seq(Nat)
  BY <1>2, ConcatProperties
<1> HIDE DEF t
<1>5. /\ <<a + 1>> \o t # << >> /\ Head(<<a + 1>> \o t) = a + 1
      /\ Tail(<<a + 1>> \o t) = t
  <2>1. /\ Len(<<a + 1>> \o t) = 1 + Len(t) /\ (<<a + 1>> \o t)[1] = a + 1
        /\ Len(t) \in Nat /\ \A i \in 1..Len(t) : (<<a + 1>> \o t)[i + 1] = t[i]
    BY <1>4
  <2>2. <<a + 1>> \o t \in Seq(Nat) /\ <<a + 1>> \o t # << >>
    BY <1>2, <1>4, <2>1, ConcatProperties
  <2> QED BY <1>4, <2>1, <2>2
<1> QED BY <1>1, <1>3, <1>5 DEF t, r

-----------------------------------------------------------------------------
(* The invariant is inductive *)

\* A run moves its sender without losing what the sender had, unless the sender
\* itself ends.
LEMMA SenderMoves ==
    ASSUME RunInv, Start \/ DriverStep \/ Finalize \/ DriverLeaves \/ Environment
    PROVE  \/ sender' = sender
           \/ /\ sender \in {"none", "running", "cancelling"}
              /\ sender' \in {"none", "running", "cancelling"}
<1> USE DEF SenderLive
<1>1. CASE Start \/ ConnectionOpens \/ ConnectFails \/ Configured \/ ConfigureFails \/ ErrorEvent
  <2>1. sender' = sender \/ (gen = "configuring" /\ Configured)
    BY <1>1 DEF Start, ConnectionOpens, ConnectFails, Configured, ConfigureFails, ErrorEvent
  <2> QED BY <1>1, <2>1 DEF Configured, RunInv, TypeOK, StageInv
<1>2. ASSUME NEW how, Cleanup(how)
      PROVE  \/ sender' = sender
             \/ /\ sender \in {"none", "running", "cancelling"}
                /\ sender' \in {"none", "running", "cancelling"}
  BY <1>2 DEF Cleanup
<1>3. CASE StreamEnds \/ StreamRaises \/ Finalize
  BY <1>2, <1>3 DEF StreamEnds, StreamRaises, Finalize
<1>4. CASE CancelArrives
  BY <1>2, <1>4 DEF CancelArrives
<1>5. CASE Joined \/ CloseReturns \/ CloseRaises
  BY <1>5 DEF Joined, CloseReturns, CloseRaises
<1>6. CASE Environment
  BY <1>6 DEF Environment, Cancel, runVars
<1> QED BY <1>1, <1>3, <1>4, <1>5, <1>6 DEF DriverStep, DriverLeaves

\* Nothing was said before the run begins.
LEMMA InitDelivery == AudioInit => DeliveryInv
<1> SUFFICES ASSUME AudioInit PROVE DeliveryInv
  OBVIOUS
<1>1. /\ frames = 0 /\ sender = "none" /\ ~inputClosed
      /\ held = << >> /\ queue = << >> /\ inHand = << >> /\ forwarded = << >>
  BY DEF AudioInit, Init
<1>2. Stretch(0, 0) = << >> /\ << >> \o << >> = << >>
  BY StretchSmall
<1>3. Places(0, 0, 0)
  BY <1>1, <1>2 DEF Places, Intact, Ends
<1> QED BY <1>1, <1>3, MaxFramesAssumption DEF DeliveryInv

\* A frame goes to the end of what the resampler holds, or with it to the end
\* of the queue.
LEMMA PushFrameKeeps ==
    ASSUME DeliveryInv, PushFrame
    PROVE  DeliveryInv'
<1>1. PICK a \in Nat, b \in Nat, c \in Nat : Places(a, b, c)
  BY DEF DeliveryInv
<1>2. /\ ~inputClosed /\ frames \in 0..MaxFrames /\ frames < MaxFrames /\ frames' = frames + 1
      /\ UNCHANGED <<inHand, forwarded, sender, inputClosed>>
      /\ sender # "returned" /\ Ends = << >> /\ Ends' = << >> /\ (Intact' <=> Intact)
  BY DEF PushFrame, DeliveryInv, vars, runVars, Ends, Intact
<1>3. PICK n \in Nat : n = frames
  BY <1>2
<1>4. n + 1 \in Nat /\ frames' = n + 1 /\ frames' \in 0..MaxFrames /\ n <= n + 1
  BY <1>2, <1>3, MaxFramesAssumption
<1>5. a <= b /\ b <= c /\ c <= n /\ c <= n + 1 /\ b <= n /\ b <= n + 1 /\ n + 1 <= n + 1
  BY <1>1, <1>3 DEF Places
<1>6. Stretch(b, c) \in Seq(Nat) /\ queue = Stretch(b, c)
  BY <1>1, <1>2, <1>5, StretchType DEF Places
<1>7. held = Stretch(c, n) /\ held \in Seq(Nat) /\ Stretch(n, n + 1) = <<n + 1>>
  BY <1>1, <1>3, <1>5, StretchType, StretchSmall DEF Places
<1>8. CASE held' = Append(held, frames') /\ UNCHANGED queue
  <2>1. held' = held \o <<n + 1>>
    BY <1>4, <1>7, <1>8
  <2>2. held' = Stretch(c, n + 1)
    <3>1. held' = Stretch(c, n) \o Stretch(n, n + 1)
      BY <1>7, <2>1
    <3> QED BY <1>4, <1>5, <3>1, StretchJoin
  <2>3. Places(a, b, c)'
    BY <1>1, <1>2, <1>4, <1>5, <1>8, <2>2 DEF Places
  <2> QED BY <1>2, <1>4, <2>3 DEF DeliveryInv
<1>9. CASE queue' = queue \o held \o <<frames'>> /\ held' = << >>
  <2>1. queue \o held = Stretch(b, n)
    BY <1>5, <1>6, <1>7, StretchJoin
  <2>2. queue' = Stretch(b, n) \o Stretch(n, n + 1)
    BY <1>4, <1>7, <1>9, <2>1
  <2>3. queue' = Stretch(b, n + 1)
    BY <1>4, <1>5, <2>2, StretchJoin
  <2>4. queue' = Stretch(b, n + 1) \o << >>
    <3>1. Stretch(b, n + 1) \in Seq(Nat)
      BY <1>4, <1>5, StretchType
    <3> QED BY <2>3, <3>1
  <2>5. held' = Stretch(n + 1, n + 1)
    BY <1>4, <1>9, StretchSmall
  <2>6. Places(a, b, n + 1)'
    BY <1>1, <1>2, <1>4, <1>5, <2>4, <2>5 DEF Places
  <2> QED BY <1>2, <1>4, <2>6 DEF DeliveryInv
<1> QED BY <1>8, <1>9 DEF PushFrame

\* Of an intact sender with nothing in hand, the next frame is in the queue.
LEMMA EmptyHand ==
    ASSUME NEW a \in Nat, NEW b \in Nat, NEW c \in Nat, Places(a, b, c),
           Intact, inHand = << >>
    PROVE  a = b
<1>1. a <= b /\ Stretch(a, b) = << >>
  BY DEF Places
<1>2. b - a = Len(<< >>)
  BY <1>1, StretchType
<1> QED BY <1>2

\* The sender takes the next frame, or the end of the chunks behind the last.
LEMMA TakeKeeps ==
    ASSUME DeliveryInv, TakeChunk \/ ChunksEnd
    PROVE  DeliveryInv'
<1>1. PICK a \in Nat, b \in Nat, c \in Nat : Places(a, b, c)
  BY DEF DeliveryInv
<1>2. /\ sender = "running" /\ inHand = << >> /\ queue # << >> /\ queue' = Tail(queue)
      /\ UNCHANGED <<frames, held, forwarded, inputClosed>>
  BY DEF TakeChunk, ChunksEnd, SenderReturns, vars, runVars
<1>3. a = b /\ Intact /\ b <= c /\ c <= frames /\ frames \in Nat
  <2>1. Intact /\ frames \in Nat
    BY <1>2 DEF Intact, DeliveryInv
  <2>2. a = b
    BY <1>1, <1>2, <2>1, EmptyHand
  <2> QED BY <1>1, <2>1, <2>2 DEF Places
<1>4. Ends \in {<< >>, <<EndOfChunks>>} /\ queue = Stretch(b, c) \o Ends
  BY <1>1 DEF Ends, Places
<1>5. b < c => Head(queue) = b + 1 /\ queue' = Stretch(b + 1, c) \o Ends
  BY <1>2, <1>4, StretchHead
<1>6. b = c => queue = Ends
  <2>1. << >> \o Ends = Ends
    BY DEF Ends, EndOfChunks
  <2> QED BY <1>4, <2>1, StretchSmall
<1>7. CASE TakeChunk
  <2>1. Head(queue) # EndOfChunks /\ inHand' = <<Head(queue)>> /\ UNCHANGED sender
    BY <1>7 DEF TakeChunk, vars, runVars
  <2>2. b < c
    <3>1. <<EndOfChunks>> # << >> /\ Head(<<EndOfChunks>>) = EndOfChunks
      OBVIOUS
    <3>2. b # c
      BY <1>2, <1>4, <1>6, <2>1, <3>1
    <3> QED BY <1>3, <3>2
  <2>3. inHand' = Stretch(a, b + 1)
    BY <1>3, <1>5, <2>1, <2>2, StretchSmall
  <2>4. Ends' = Ends /\ Intact'
    BY <1>2, <2>1 DEF Ends, Intact
  <2>5. a <= b + 1 /\ b + 1 <= c /\ b + 1 <= a + 1 /\ b + 1 \in Nat
    BY <1>3, <2>2
  <2>6. Places(a, b + 1, c)'
    BY <1>1, <1>2, <1>5, <2>1, <2>2, <2>3, <2>4, <2>5 DEF Places
  <2> QED BY <1>2, <2>1, <2>5, <2>6 DEF DeliveryInv
<1>8. CASE ChunksEnd
  <2>1. Head(queue) = EndOfChunks /\ inputClosed /\ sender' = "returned" /\ UNCHANGED inHand
    BY <1>8 DEF ChunksEnd, SenderReturns
  <2>2. b = c
    <3>1. ~(b < c)
      BY <1>5, <2>1 DEF EndOfChunks
    <3> QED BY <1>3, <3>1
  <2>3. c = frames
    BY <1>1, <2>1 DEF Places
  <2>4. queue = <<EndOfChunks>> /\ queue' = << >>
    <3>1. queue = <<EndOfChunks>>
      BY <1>2, <1>4, <1>6, <2>2
    <3>2. Tail(<<EndOfChunks>>) = << >>
      OBVIOUS
    <3> QED BY <1>2, <3>1, <3>2
  <2>5. Ends' = << >> /\ Intact' /\ << >> \o << >> = << >>
    BY <2>1 DEF Ends, Intact
  <2>6. Stretch(b, c) = << >>
    BY <2>2, StretchSmall
  <2>7. Places(a, b, c)'
    BY <1>1, <1>2, <1>3, <2>1, <2>2, <2>3, <2>4, <2>5, <2>6 DEF Places
  <2> QED BY <1>2, <2>1, <2>7 DEF DeliveryInv
<1> QED BY <1>7, <1>8

\* The provider takes the chunk the sender had, or the sender ends with it.
LEMMA SendKeeps ==
    ASSUME DeliveryInv, ChunkSent \/ ChunkRefused \/ SendCancelled
    PROVE  DeliveryInv'
<1>1. PICK a \in Nat, b \in Nat, c \in Nat : Places(a, b, c)
  BY DEF DeliveryInv
<1>2. sender \in {"running", "cancelling"} /\ inHand' = << >>
      /\ UNCHANGED <<frames, held, queue, inputClosed>>
  BY DEF ChunkSent, ChunkRefused, SendCancelled, SenderRaises, SenderCancelled, vars, runVars
<1>3. Intact /\ a <= b /\ b <= c
  BY <1>1, <1>2 DEF Intact, Places
<1>4. CASE ChunkSent
  <2>1. UNCHANGED sender /\ forwarded' = forwarded \o inHand
    BY <1>4 DEF ChunkSent, vars, runVars
  <2>2. forwarded' = Stretch(0, b) /\ Stretch(b, b) = << >>
    <3>1. forwarded' = Stretch(0, a) \o Stretch(a, b)
      BY <1>1, <1>3, <2>1 DEF Places
    <3>2. 0 \in Nat /\ 0 <= a
      OBVIOUS
    <3> QED BY <1>3, <3>1, <3>2, StretchJoin, StretchSmall
  <2>3. Ends' = Ends /\ Intact' /\ b <= b /\ b <= b + 1
    BY <1>2, <1>3, <2>1 DEF Ends, Intact
  <2>4. Places(b, b, c)'
    BY <1>1, <1>2, <1>3, <2>1, <2>2, <2>3 DEF Places
  <2> QED BY <1>2, <2>1, <2>4 DEF DeliveryInv
<1>5. CASE ChunkRefused \/ SendCancelled
  <2>1. sender' \in {"raised", "cancelled"} /\ UNCHANGED forwarded
    BY <1>5 DEF ChunkRefused, SendCancelled, SenderRaises, SenderCancelled
  <2>2. Ends' = Ends /\ ~Intact'
    BY <1>2, <2>1 DEF Ends, Intact
  <2>3. Places(a, b, c)'
    BY <1>1, <1>2, <2>1, <2>2 DEF Places
  <2> QED BY <1>2, <2>1, <2>3 DEF DeliveryInv
<1> QED BY <1>4, <1>5

\* The rest of the run leaves the frames where they are.
LEMMA RunKeeps ==
    ASSUME DeliveryInv, UNCHANGED <<inputClosed, audioVars>>,
           \/ sender' = sender
           \/ /\ sender \in {"none", "running", "cancelling"}
              /\ sender' \in {"none", "running", "cancelling"}
    PROVE  DeliveryInv'
<1>1. PICK a \in Nat, b \in Nat, c \in Nat : Places(a, b, c)
  BY DEF DeliveryInv
<1>2. Ends' = Ends /\ (Intact' <=> Intact) /\ (sender' = "returned" <=> sender = "returned")
  BY DEF Ends, Intact, audioVars
<1>3. Places(a, b, c)'
  BY <1>1, <1>2 DEF Places, audioVars
<1> QED BY <1>2, <1>3 DEF DeliveryInv, audioVars

\* Closing the input flushes what the resampler held in front of the end.
LEMMA FlushKeeps ==
    ASSUME RunInv, DeliveryInv, DriverLeaves \/ Environment, FlushInput
    PROVE  DeliveryInv'
<1>0. \/ sender' = sender
      \/ /\ sender \in {"none", "running", "cancelling"}
         /\ sender' \in {"none", "running", "cancelling"}
  BY SenderMoves
<1>1. inputClosed' = TRUE
  BY DEF DriverLeaves, Environment, CloseInput
<1>2. CASE inputClosed /\ UNCHANGED <<queue, held>>
  <2>1. UNCHANGED <<inputClosed, audioVars>> \/ inputClosed # TRUE
    BY <1>1, <1>2 DEF FlushInput, audioVars
  <2>2. PICK a \in Nat, b \in Nat, c \in Nat : Places(a, b, c)
    BY DEF DeliveryInv
  <2>3. Ends' = Ends /\ (Intact' <=> Intact) /\ (sender' = "returned" <=> sender = "returned")
    BY <1>0, <1>1, <1>2 DEF Ends, Intact
  <2>4. Places(a, b, c)'
    BY <1>2, <2>2, <2>3 DEF Places, FlushInput
  <2> QED BY <1>1, <2>4 DEF DeliveryInv, FlushInput
<1>3. CASE ~inputClosed /\ queue' = queue \o held \o <<EndOfChunks>> /\ held' = << >>
  <2>1. PICK a \in Nat, b \in Nat, c \in Nat : Places(a, b, c)
    BY DEF DeliveryInv
  <2>2. UNCHANGED <<frames, inHand, forwarded>> /\ frames \in 0..MaxFrames /\ frames \in Nat
    BY DEF FlushInput, DeliveryInv
  <2>3. /\ sender # "returned" /\ sender' # "returned" /\ (Intact' <=> Intact)
        /\ Ends = << >> /\ Ends' = <<EndOfChunks>>
    BY <1>0, <1>1, <1>3 DEF DeliveryInv, Ends, Intact
  <2>4. a <= b /\ b <= c /\ c <= frames /\ b <= frames
    BY <2>1, <2>2 DEF Places
  <2>5. Stretch(b, c) \in Seq(Nat)
    BY <2>4, StretchType
  <2>6. queue = Stretch(b, c) /\ held = Stretch(c, frames)
    BY <2>1, <2>3, <2>5 DEF Places
  <2>7. queue \o held = Stretch(b, frames)
    BY <2>2, <2>4, <2>6, StretchJoin
  <2>8. queue' = Stretch(b, frames) \o Ends' /\ held' = Stretch(frames, frames)
    BY <1>3, <2>2, <2>3, <2>7, StretchSmall
  <2>9. frames <= frames
    BY <2>2
  <2>10. Places(a, b, frames)'
    BY <2>1, <2>2, <2>3, <2>4, <2>8, <2>9 DEF Places
  <2> QED BY <1>1, <2>2, <2>10 DEF DeliveryInv
<1> QED BY <1>2, <1>3 DEF FlushInput

\* Whatever the run does, the frames keep their places.
THEOREM DeliveryInvariance == AudioSpec => []DeliveryInv
<1>1. RunInv /\ DeliveryInv /\ [AudioNext]_<<vars, audioVars>> => DeliveryInv'
  <2> SUFFICES ASSUME RunInv, DeliveryInv, [AudioNext]_<<vars, audioVars>> PROVE DeliveryInv'
    OBVIOUS
  <2>1. CASE PushFrame \/ TakeChunk \/ ChunkSent \/ ChunkRefused \/ ChunksEnd \/ SendCancelled
    BY <2>1, PushFrameKeeps, TakeKeeps, SendKeeps
  <2>2. CASE (Start \/ DriverStep \/ Finalize) /\ UNCHANGED <<inputClosed, audioVars>>
    BY <2>2, SenderMoves, RunKeeps
  <2>3. CASE (DriverLeaves \/ Environment) /\ FlushInput
    BY <2>3, FlushKeeps
  <2>4. CASE UNCHANGED <<vars, audioVars>>
    BY <2>4, RunKeeps DEF vars, runVars
  <2> QED BY <2>1, <2>2, <2>3, <2>4 DEF AudioNext
<1> QED BY <1>1, InitDelivery, AudioRunInvariance, PTL DEF AudioSpec

-----------------------------------------------------------------------------
(* What the provider hears *)

\* The places give a beginning of what was said, and all of it to a sender that
\* returned.
LEMMA OrderFromInv == DeliveryInv => ForwardedInOrder
<1> SUFFICES ASSUME DeliveryInv PROVE ForwardedInOrder
  OBVIOUS
<1>1. PICK a \in Nat, b \in Nat, c \in Nat : Places(a, b, c)
  BY DEF DeliveryInv
<1>2. frames \in Nat /\ a <= frames /\ forwarded = Stretch(0, a)
  BY <1>1 DEF Places, DeliveryInv
<1>3. AllFrames = Stretch(0, frames)
  BY <1>2 DEF AllFrames, Stretch
<1>4. 0 \in Nat /\ 0 <= a /\ 0 <= frames /\ a - 0 = a /\ frames - 0 = frames
  BY <1>2
<1>5. /\ Len(Stretch(0, a)) = a /\ DOMAIN Stretch(0, a) = 1..a
      /\ Stretch(0, a) \in Seq(Nat)
      /\ \A i \in 1..a : Stretch(0, a)[i] = 0 + i
  BY <1>4, StretchType
<1>6. /\ Len(Stretch(0, frames)) = frames
      /\ Stretch(0, frames) \in Seq(Nat)
      /\ \A i \in 1..frames : Stretch(0, frames)[i] = 0 + i
  BY <1>2, <1>4, StretchType
<1>7. IsPrefix(forwarded, AllFrames)
  BY <1>2, <1>3, <1>5, <1>6 DEF IsPrefix
<1>8. sender = "returned" => forwarded = AllFrames
  BY <1>1, <1>2, <1>3 DEF Places
<1> QED BY <1>7, <1>8 DEF ForwardedInOrder

\* However a run ends, the provider took a beginning of what the caller said,
\* and all of it when the sender returned.
THEOREM ProviderHearsCaller == AudioSpec => []ForwardedInOrder
BY DeliveryInvariance, OrderFromInv, PTL

\* Of the queue, only its end is no frame.
LEMMA QueuedAre ==
    ASSUME NEW b \in Nat, NEW c \in Nat, b <= c, queue = Stretch(b, c) \o Ends
    PROVE  QueuedChunks = Stretch(b, c)
<1> DEFINE s == Stretch(b, c)
           n == c - b
<1>1. s \in Seq(Nat) /\ Len(s) = n /\ n \in Nat /\ \A i \in 1..n : s[i] = b + i
  BY StretchType
<1> HIDE DEF s, n
<1>2. CASE Ends = << >>
  <2>1. queue = s
    BY <1>1, <1>2 DEF s
  <2>2. s # << >> => Last(s) # EndOfChunks
    <3> SUFFICES ASSUME s # << >> PROVE s[Len(s)] # EndOfChunks
      BY DEF Last
    <3>1. n \in 1..n
      BY <1>1
    <3>2. s[n] = b + n /\ b + n # 0
      BY <1>1, <3>1
    <3> QED BY <1>1, <3>2 DEF EndOfChunks
  <2> QED BY <2>1, <2>2 DEF QueuedChunks, s
<1>3. CASE Ends = <<EndOfChunks>>
  <2>1. queue = Append(s, EndOfChunks)
    BY <1>1, <1>3 DEF s, EndOfChunks
  <2>2. /\ queue # << >> /\ Len(queue) = n + 1 /\ queue[n + 1] = EndOfChunks
        /\ SubSeq(queue, 1, n) = s
    BY <1>1, <2>1 DEF EndOfChunks
  <2>3. Last(queue) = EndOfChunks /\ Front(queue) = s
    <3>1. (n + 1) - 1 = n
      BY <1>1
    <3> QED BY <2>2, <3>1 DEF Last, Front
  <2> QED BY <2>2, <2>3 DEF QueuedChunks, s
<1> QED BY <1>2, <1>3 DEF Ends

\* The four places of an intact sender are adjacent.
LEMMA WholeFromInv == DeliveryInv => NothingLost
<1> SUFFICES ASSUME DeliveryInv, sender \in {"none", "running", "cancelling"}
             PROVE  forwarded \o inHand \o QueuedChunks \o held = AllFrames
  BY DEF NothingLost
<1>1. PICK a \in Nat, b \in Nat, c \in Nat : Places(a, b, c)
  BY DEF DeliveryInv
<1>2. PICK n \in Nat : n = frames
  BY DEF DeliveryInv
<1>3. a <= b /\ b <= c /\ c <= n /\ 0 \in Nat /\ 0 <= a /\ 0 <= b /\ 0 <= c
  BY <1>1, <1>2 DEF Places
<1>4. forwarded = Stretch(0, a) /\ inHand = Stretch(a, b) /\ held = Stretch(c, n)
  BY <1>1, <1>2 DEF Places, Intact
<1>5. QueuedChunks = Stretch(b, c)
  BY <1>1, <1>3, QueuedAre DEF Places
<1>6. forwarded \o inHand = Stretch(0, b)
  BY <1>3, <1>4, StretchJoin
<1>7. forwarded \o inHand \o QueuedChunks = Stretch(0, c)
  <2>1. Stretch(0, b) \o Stretch(b, c) = Stretch(0, c)
    BY <1>3, StretchJoin
  <2> QED BY <1>5, <1>6, <2>1, Zenon
<1>8. forwarded \o inHand \o QueuedChunks \o held = Stretch(0, n)
  <2>1. Stretch(0, c) \o Stretch(c, n) = Stretch(0, n)
    BY <1>3, StretchJoin
  <2> QED BY <1>4, <1>7, <2>1, Zenon
<1>9. AllFrames = Stretch(0, n)
  BY <1>2 DEF AllFrames, Stretch
<1> QED BY <1>8, <1>9

\* While the sender is at work, every frame the caller sent is with the
\* provider, in the sender's hand, in the queue or in the resampler, once and
\* in this order.
THEOREM NoFrameIsLost == AudioSpec => []NothingLost
BY DeliveryInvariance, WholeFromInv, PTL

\* Frames of a run are numbers up to the bound, and so is everything that holds
\* them.
LEMMA TypesFromInv == RunInv /\ DeliveryInv => AudioTypeOK
<1> SUFFICES ASSUME RunInv, DeliveryInv PROVE AudioTypeOK
  OBVIOUS
<1> DEFINE Chunk == 0..MaxFrames
<1>1. PICK a \in Nat, b \in Nat, c \in Nat : Places(a, b, c)
  BY DEF DeliveryInv
<1>2. frames \in 0..MaxFrames /\ frames \in Nat /\ a <= b /\ b <= c /\ c <= frames
  BY <1>1 DEF DeliveryInv, Places
<1>3. ASSUME NEW x \in Nat, NEW y \in Nat, x <= y, y <= frames
      PROVE  Stretch(x, y) \in Seq(Chunk) /\ Len(Stretch(x, y)) = y - x
  <2>1. Stretch(x, y) \in Seq((x + 1)..y) /\ Len(Stretch(x, y)) = y - x
    BY <1>3, StretchType
  <2>2. (x + 1)..y \subseteq Chunk
    BY <1>2, <1>3, MaxFramesAssumption
  <2> HIDE DEF Chunk
  <2> QED BY <2>1, <2>2
<1>4. << >> \in Seq(Chunk) /\ <<EndOfChunks>> \in Seq(Chunk) /\ Len(<< >>) = 0
  BY MaxFramesAssumption DEF EndOfChunks
<1> HIDE DEF Chunk
<1>5. held \in Seq(Chunk)
  BY <1>1, <1>2, <1>3 DEF Places
<1>6. forwarded \in Seq(Chunk)
  <2>1. 0 \in Nat /\ 0 <= a /\ a <= frames
    BY <1>2
  <2> QED BY <1>1, <1>3, <2>1 DEF Places
<1>7. queue \in Seq(Chunk)
  <2>1. Stretch(b, c) \in Seq(Chunk)
    BY <1>2, <1>3
  <2>2. Ends \in Seq(Chunk)
    BY <1>4 DEF Ends
  <2>3. queue = Stretch(b, c) \o Ends
    BY <1>1 DEF Places
  <2> QED BY <2>1, <2>2, <2>3, ConcatProperties
<1>8. inHand \in Seq(Chunk) /\ Len(inHand) <= 1
  <2>1. CASE Intact
    <3>1. inHand = Stretch(a, b) /\ b <= a + 1 /\ b <= frames
      BY <1>1, <1>2, <2>1 DEF Places
    <3> QED BY <1>2, <1>3, <3>1
  <2>2. CASE ~Intact
    BY <1>1, <1>4, <2>2 DEF Places
  <2> QED BY <2>1, <2>2
<1>9. TypeOK /\ \A s \in {held, queue, inHand, forwarded} : s \in Seq(0..MaxFrames)
  BY <1>5, <1>6, <1>7, <1>8 DEF RunInv, Chunk
<1> QED BY <1>2, <1>8, <1>9 DEF AudioTypeOK

\* The types of the run and of everything that holds frames; the sender has one
\* chunk in hand at most.
THEOREM AudioTypes == AudioSpec => []AudioTypeOK
BY AudioRunInvariance, DeliveryInvariance, TypesFromInv, PTL

=============================================================================
