------------------------- MODULE AudioOutputProofs -------------------------
(***************************************************************************)
(* Theorems about the provider's audio, for frames of any length, pieces   *)
(* of any length and any number of interrupts.                             *)
(*                                                                         *)
(* What makes InterruptSilences inductive is where samples from before the *)
(* last interrupt may still be: in no place but the hand of recv, and only *)
(* until it has returned its next frame (SilenceInv).                      *)
(*                                                                         *)
(* SpokenInOrder is about the line of all frames, returned, in hand,       *)
(* queued and unfinished.  Its invariant (OrderInv) is about the four      *)
(* parts: each ascends and all of it is ahead of the next ones, so that    *)
(* moving a frame from one part to the next changes nothing.               *)
(*                                                                         *)
(* EndsPlayed, the safety half of TrackEnds, follows from where the end    *)
(* marker is: behind all frames of a closed track, and nowhere in an open  *)
(* one (EndInv).                                                           *)
(***************************************************************************)
EXTENDS AudioOutput, SequenceTheorems, TLAPS

Clean(f) == \A j \in DOMAIN f : f[j] \notin 1..silenced

PlaceInv ==
    /\ pending \in Seq(Int)
    /\ chunks \in Seq(Seq(Int))
    /\ inHand \in Seq(Seq(Int))
    /\ played \in Seq([pcm : Seq(Int), at : Nat])

SilenceInv ==
    /\ silenced \in 0..pushed
    /\ playedThen \in 0..Len(played)
    /\ \A i \in DOMAIN pending : pending[i] > silenced
    /\ \A i \in DOMAIN chunks : Clean(chunks[i])
    /\ \A i \in DOMAIN inHand : Clean(inHand[i]) \/ Len(played) = playedThen
    /\ InterruptSilences

OutputInv == TypeOK /\ PlaceInv /\ SilenceInv

-----------------------------------------------------------------------------
(* Frames *)

\* Whole frames lie inside the samples they are cut from.
LEMMA FrameBounds ==
    ASSUME NEW s \in Nat \ {0}, NEW x \in Nat, NEW i \in 1..(x \div s)
    PROVE  /\ (i - 1) * s + 1 \in 1..x /\ i * s \in 1..x
           /\ i * s - ((i - 1) * s + 1) + 1 = s
<1>1. i \in Int /\ 1 <= i /\ i <= x \div s
  OBVIOUS
<1>2. i * s <= x
  OBVIOUS
<1>3. (i - 1) * s = i * s - s /\ i * s \in Nat /\ i * s >= s
  BY <1>1
<1> QED BY <1>2, <1>3

\* What is left is less than a frame.
LEMMA RestBounds ==
    ASSUME NEW s \in Nat \ {0}, NEW x \in Nat
    PROVE  /\ x % s \in 0..(s - 1) /\ x % s <= x
           /\ x \div s \in Nat
OBVIOUS

\* What is joined has no frames but those of its two parts.
LEMMA ConcatElements ==
    ASSUME NEW s \in Seq(Seq(Int)), NEW t \in Seq(Seq(Int))
    PROVE  /\ s \o t \in Seq(Seq(Int))
           /\ \A i \in DOMAIN (s \o t) : \/ \E k \in DOMAIN s : (s \o t)[i] = s[k]
                                        \/ \E k \in DOMAIN t : (s \o t)[i] = t[k]
<1>1. /\ s \o t \in Seq(Seq(Int)) /\ Len(s \o t) = Len(s) + Len(t)
      /\ \A i \in 1 .. Len(s) + Len(t) :
             (s \o t)[i] = IF i <= Len(s) THEN s[i] ELSE t[i - Len(s)]
  BY ConcatProperties
<1>2. /\ Len(s) \in Nat /\ DOMAIN s = 1..Len(s) /\ Len(t) \in Nat /\ DOMAIN t = 1..Len(t)
      /\ DOMAIN (s \o t) = 1..(Len(s) + Len(t))
  BY <1>1, LenProperties
<1>3. ASSUME NEW i \in DOMAIN (s \o t)
      PROVE  \/ \E k \in DOMAIN s : (s \o t)[i] = s[k]
             \/ \E k \in DOMAIN t : (s \o t)[i] = t[k]
  <2>1. CASE i <= Len(s)
    BY <2>1, <1>1, <1>2
  <2>2. CASE i > Len(s)
    <3>1. i - Len(s) \in DOMAIN t /\ (s \o t)[i] = t[i - Len(s)]
      BY <2>2, <1>1, <1>2
    <3> QED BY <3>1
  <2> QED BY <2>1, <2>2, <1>2
<1> QED BY <1>1, <1>3

\* A frame that is cut off has the length of a frame and nothing but samples of
\* the piece.
LEMMA CutFrames ==
    ASSUME NEW pcm \in Seq(Int)
    PROVE  /\ Frames(pcm) \in Seq(Seq(Int))
           /\ \A k \in DOMAIN Frames(pcm) :
                  /\ Len(Frames(pcm)[k]) = FrameSamples
                  /\ \A j \in DOMAIN (Frames(pcm)[k]) :
                         \E i \in DOMAIN pcm : Frames(pcm)[k][j] = pcm[i]
<1> DEFINE s == FrameSamples
           cut(k) == SubSeq(pcm, (k - 1) * s + 1, k * s)
<1>1. s \in Nat \ {0} /\ Len(pcm) \in Nat /\ Len(pcm) \div s \in Nat
  <2>1. s \in Nat \ {0} /\ Len(pcm) \in Nat
    BY FrameAssumption, LenProperties
  <2> QED BY <2>1, RestBounds
<1>2. ASSUME NEW k \in 1..(Len(pcm) \div s)
      PROVE  /\ cut(k) \in Seq(Int) /\ Len(cut(k)) = s
             /\ \A j \in DOMAIN cut(k) : \E i \in DOMAIN pcm : cut(k)[j] = pcm[i]
  <2> DEFINE m == (k - 1) * s + 1
             n == k * s
  <2>1. m \in 1..Len(pcm) /\ n \in 1..Len(pcm) /\ n - m + 1 = s
    BY <1>1, FrameBounds
  <2> HIDE DEF m, n
  <2>2. m \in Int /\ n \in Int /\ m <= n /\ \A i \in m .. n : i \in DOMAIN pcm /\ pcm[i] \in Int
    BY <1>1, <2>1
  <2>3. /\ SubSeq(pcm, m, n) \in Seq(Int) /\ Len(SubSeq(pcm, m, n)) = s
        /\ \A j \in 1 .. s : SubSeq(pcm, m, n)[j] = pcm[m + j - 1]
    BY <2>1, <2>2, SubSeqProperties
  <2>4. DOMAIN SubSeq(pcm, m, n) = 1..s
    BY <2>3
  <2>5. \A j \in 1..s : m + j - 1 \in m..n
    BY <1>1, <2>1, <2>2
  <2>6. \A j \in 1..s : \E i \in DOMAIN pcm : SubSeq(pcm, m, n)[j] = pcm[i]
    BY <2>2, <2>3, <2>5
  <2> QED BY <2>3, <2>4, <2>6 DEF m, n
<1> HIDE DEF cut
<1>3. Frames(pcm) = [k \in 1..(Len(pcm) \div s) |-> cut(k)]
  BY DEF Frames, cut
<1>4. Frames(pcm) \in Seq(Seq(Int)) /\ DOMAIN Frames(pcm) = 1..(Len(pcm) \div s)
  <2>1. PICK q \in Nat : q = Len(pcm) \div s
    BY <1>1
  <2>2. [k \in 1..q |-> cut(k)] \in [1..q -> Seq(Int)]
    BY <1>2, <2>1
  <2>3. Frames(pcm) \in [1..q -> Seq(Int)]
    BY <1>3, <2>1, <2>2
  <2> QED BY <2>1, <2>3
<1>5. \A k \in DOMAIN Frames(pcm) : Frames(pcm)[k] = cut(k)
  BY <1>3, <1>4
<1> QED BY <1>2, <1>4, <1>5

\* The rest is shorter than a frame and has nothing but samples of the piece.
LEMMA CutRest ==
    ASSUME NEW pcm \in Seq(Int)
    PROVE  /\ Rest(pcm) \in Seq(Int) /\ Len(Rest(pcm)) < FrameSamples
           /\ \A j \in DOMAIN Rest(pcm) : \E i \in DOMAIN pcm : Rest(pcm)[j] = pcm[i]
<1> DEFINE r == Len(pcm) % FrameSamples
           m == Len(pcm) - r + 1
           n == Len(pcm)
<1>1. r \in Nat /\ r < FrameSamples /\ r <= n /\ n \in Nat
  <2>1. FrameSamples \in Nat \ {0} /\ n \in Nat
    BY FrameAssumption, LenProperties
  <2>2. r \in 0..(FrameSamples - 1) /\ r <= n
    BY <2>1, RestBounds
  <2> HIDE DEF r
  <2> QED BY <2>1, <2>2
<1> HIDE DEF r
<1>2. m \in Int /\ n \in Int /\ n - m + 1 = r /\ \A i \in m .. n : i \in DOMAIN pcm /\ pcm[i] \in Int
  BY <1>1
<1> HIDE DEF m, n
<1>3. /\ SubSeq(pcm, m, n) \in Seq(Int) /\ Len(SubSeq(pcm, m, n)) = r
      /\ \A j \in 1 .. r : SubSeq(pcm, m, n)[j] = pcm[m + j - 1]
  <2>1. /\ SubSeq(pcm, m, n) \in Seq(Int)
        /\ Len(SubSeq(pcm, m, n)) = IF m <= n THEN n - m + 1 ELSE 0
        /\ \A j \in 1 .. n - m + 1 : SubSeq(pcm, m, n)[j] = pcm[m + j - 1]
    BY <1>2, SubSeqProperties
  <2> QED BY <1>1, <1>2, <2>1
<1>4. \A j \in 1..r : m + j - 1 \in m..n
  BY <1>1, <1>2
<1>5. \A j \in 1..r : \E i \in DOMAIN pcm : SubSeq(pcm, m, n)[j] = pcm[i]
  BY <1>2, <1>3, <1>4
<1>6. DOMAIN SubSeq(pcm, m, n) = 1..r
  BY <1>3
<1>7. Rest(pcm) = SubSeq(pcm, m, n)
  BY DEF Rest, m, n, r
<1> QED BY <1>1, <1>3, <1>5, <1>6, <1>7

\* Padding makes a whole frame, with nothing but the rest and silence.
LEMMA PadRest ==
    ASSUME NEW pcm \in Seq(Int), Len(pcm) < FrameSamples
    PROVE  /\ Padded(pcm) \in Seq(Int) /\ Len(Padded(pcm)) = FrameSamples
           /\ \A j \in DOMAIN Padded(pcm) :
                  \/ Padded(pcm)[j] = Silence
                  \/ \E i \in DOMAIN pcm : Padded(pcm)[j] = pcm[i]
<1> DEFINE pad == [i \in 1..(FrameSamples - Len(pcm)) |-> Silence]
<1>1. FrameSamples \in Nat /\ Len(pcm) \in Nat
  BY FrameAssumption
<1>2. pad \in Seq(Int) /\ Len(pad) = FrameSamples - Len(pcm) /\ \A i \in DOMAIN pad : pad[i] = Silence
  BY <1>1 DEF Silence
<1> HIDE DEF pad
<1>3. /\ pcm \o pad \in Seq(Int) /\ Len(pcm \o pad) = Len(pcm) + Len(pad)
      /\ \A i \in 1 .. Len(pcm) + Len(pad) :
             (pcm \o pad)[i] = IF i <= Len(pcm) THEN pcm[i] ELSE pad[i - Len(pcm)]
  BY <1>2, ConcatProperties
<1>4. Padded(pcm) = pcm \o pad
  BY DEF Padded, pad
<1> QED BY <1>1, <1>2, <1>3, <1>4

-----------------------------------------------------------------------------
(* The invariant *)

LEMMA InitOutput == Init => OutputInv
<1> SUFFICES ASSUME Init PROVE OutputInv
  OBVIOUS
<1>1. TypeOK
  <2>1. pushed \in 0..MaxSamples /\ Len(pending) < FrameSamples
    BY FrameAssumption, BoundsAssumption DEF Init
  <2>2. DOMAIN pending = {} /\ DOMAIN chunks = {} /\ DOMAIN inHand = {}
    BY DEF Init
  <2>3. 0 \in Nat /\ 0 \in Int
    OBVIOUS
  <2>4. closed \in BOOLEAN /\ sender \in SenderStates /\ started \in BOOLEAN
    BY DEF Init, SenderStates
  <2>5. nextPts \in Nat /\ now \in Nat /\ due \in Int /\ startedAt \in Int
    BY <2>3 DEF Init
  <2> QED BY <2>1, <2>2, <2>4, <2>5 DEF TypeOK
<1>2. PlaceInv
  BY DEF Init, PlaceInv
<1>3. SilenceInv
  BY DEF Init, SilenceInv, InterruptSilences
<1> QED BY <1>1, <1>2, <1>3 DEF OutputInv

\* A piece is cut into frames of samples that all came after the interrupt.
LEMMA PushKeeps ==
    ASSUME OutputInv, NEW n \in 1..MaxSamples, PushPcm(n)
    PROVE  OutputInv'
<1> DEFINE piece == [i \in 1..n |-> pushed + i]
           pcm == pending \o piece
<1>1. /\ pushed \in 0..MaxSamples /\ MaxSamples \in Nat /\ n \in 1..(MaxSamples - pushed)
      /\ silenced \in 0..pushed /\ pushed' = pushed + n
  BY BoundsAssumption DEF OutputInv, TypeOK, SilenceInv, PushPcm
<1>2. pushed \in Nat /\ n \in Nat /\ silenced \in Nat /\ silenced <= pushed /\ pushed + n <= MaxSamples
  BY <1>1
<1>3. /\ piece \in Seq(Int) /\ Len(piece) = n
      /\ \A i \in 1..n : piece[i] \in 1..(pushed + n) /\ piece[i] > silenced
  BY <1>2
<1>4. /\ pending \in Seq(Int)
      /\ \A i \in DOMAIN pending : pending[i] \in 1..(pushed + n) /\ pending[i] > silenced
  <2>1. pending \in Seq(Int) /\ \A i \in DOMAIN pending : pending[i] \in 1..pushed /\ pending[i] > silenced
    BY DEF OutputInv, TypeOK, PlaceInv, SilenceInv
  <2> QED BY <1>2, <2>1
<1> HIDE DEF piece
<1>5. /\ pcm \in Seq(Int)
      /\ \A i \in DOMAIN pcm : pcm[i] \in 1..(pushed + n) /\ pcm[i] > silenced
  <2>1. /\ pcm \in Seq(Int) /\ Len(pcm) = Len(pending) + n
        /\ \A i \in 1 .. Len(pending) + n :
               pcm[i] = IF i <= Len(pending) THEN pending[i] ELSE piece[i - Len(pending)]
    BY <1>3, <1>4, ConcatProperties
  <2>2. Len(pending) \in Nat /\ DOMAIN pending = 1..Len(pending)
    BY <1>4
  <2>3. DOMAIN pcm = 1..(Len(pending) + n)
    BY <2>1
  <2> HIDE DEF pcm
  <2>4. ASSUME NEW i \in DOMAIN pcm PROVE pcm[i] \in 1..(pushed + n) /\ pcm[i] > silenced
    <3>1. CASE i <= Len(pending)
      BY <3>1, <1>4, <2>1, <2>2, <2>3
    <3>2. CASE i > Len(pending)
      <4>1. i - Len(pending) \in 1..n
        BY <3>2, <1>2, <2>2, <2>3
      <4>2. pcm[i] = piece[i - Len(pending)]
        BY <3>2, <2>1, <2>2, <2>3
      <4> QED BY <4>1, <4>2, <1>3
    <3> QED BY <3>1, <3>2, <2>2, <2>3
  <2> QED BY <2>1, <2>4
<1>6. /\ chunks' = chunks \o Frames(pcm) /\ pending' = Rest(pcm)
      /\ UNCHANGED <<closed, clock, now, past>>
  BY DEF PushPcm, pcm, piece
<1> HIDE DEF pcm
<1>7. /\ pending' \in Seq(Int) /\ Len(pending') < FrameSamples
      /\ \A i \in DOMAIN pending' : pending'[i] \in 1..(pushed + n) /\ pending'[i] > silenced
  BY <1>5, <1>6, CutRest
<1>8. /\ Frames(pcm) \in Seq(Seq(Int))
      /\ \A k \in DOMAIN Frames(pcm) :
             /\ Len(Frames(pcm)[k]) = FrameSamples
             /\ \A j \in DOMAIN (Frames(pcm)[k]) :
                    Frames(pcm)[k][j] \in 1..(pushed + n) /\ Frames(pcm)[k][j] > silenced
  BY <1>5, CutFrames
<1>9. /\ chunks' \in Seq(Seq(Int))
      /\ \A i \in DOMAIN chunks' :
             \/ \E k \in DOMAIN chunks : chunks'[i] = chunks[k]
             \/ \E k \in DOMAIN Frames(pcm) : chunks'[i] = Frames(pcm)[k]
  <2>1. chunks \in Seq(Seq(Int))
    BY DEF OutputInv, PlaceInv
  <2>2. PICK fs \in Seq(Seq(Int)) : fs = Frames(pcm)
    BY <1>8
  <2>3. /\ chunks \o fs \in Seq(Seq(Int))
        /\ \A i \in DOMAIN (chunks \o fs) :
               \/ \E k \in DOMAIN chunks : (chunks \o fs)[i] = chunks[k]
               \/ \E k \in DOMAIN fs : (chunks \o fs)[i] = fs[k]
    BY <2>1, <2>2, ConcatElements
  <2>4. chunks' = chunks \o fs
    BY <1>6, <2>2
  <2> QED BY <2>2, <2>3, <2>4
<1>10. TypeOK'
  <2>1. \A i \in DOMAIN chunks : \/ chunks[i] = EndOfTrack
                                  \/ /\ Len(chunks[i]) = FrameSamples
                                     /\ \A j \in DOMAIN (chunks[i]) : chunks[i][j] \in 0..pushed
    BY DEF OutputInv, TypeOK, IsFrame
  <2>2. \A x : (x \in 0..pushed \/ x \in 1..(pushed + n)) => x \in 0..(pushed + n)
    BY <1>2
  <2>3. \A i \in DOMAIN chunks' : \/ chunks'[i] = EndOfTrack
                                   \/ /\ Len(chunks'[i]) = FrameSamples
                                      /\ \A j \in DOMAIN (chunks'[i]) : chunks'[i][j] \in 0..(pushed + n)
    BY <1>8, <1>9, <2>1, <2>2
  <2>4. (\A i \in DOMAIN chunks : chunks[i] = EndOfTrack \/ IsFrame(chunks[i]))'
    BY <1>1, <2>3 DEF IsFrame
  <2>5. \A i \in DOMAIN inHand : /\ Len(inHand[i]) = FrameSamples
                                 /\ \A j \in DOMAIN (inHand[i]) : inHand[i][j] \in 0..(pushed + n)
    BY <2>2 DEF OutputInv, TypeOK, IsFrame
  <2>6. (\A i \in DOMAIN inHand : IsFrame(inHand[i]))'
    BY <1>1, <1>6, <2>5 DEF IsFrame, clock
  <2>7. pushed' \in 0..MaxSamples
    BY <1>1, <1>2
  <2>8. (Len(pending) < FrameSamples /\ \A i \in DOMAIN pending : pending[i] \in 1..pushed)'
    BY <1>1, <1>7
  <2>9. closed' = closed /\ sender' = sender /\ nextPts' = nextPts /\ now' = now /\ due' = due
        /\ started' = started /\ startedAt' = startedAt
    BY <1>6 DEF clock
  <2>10. (closed \in BOOLEAN /\ sender \in SenderStates /\ nextPts \in Nat /\ now \in Nat /\ due \in Int
          /\ started \in BOOLEAN /\ startedAt \in Int)'
    BY <2>9 DEF OutputInv, TypeOK
  <2> QED BY <2>4, <2>6, <2>7, <2>8, <2>10 DEF TypeOK
<1>11. PlaceInv'
  BY <1>6, <1>7, <1>9 DEF OutputInv, PlaceInv, clock, past
<1>12. SilenceInv'
  <2>1. inHand' = inHand /\ played' = played /\ silenced' = silenced /\ playedThen' = playedThen
    BY <1>6 DEF clock, past
  <2>2. \A i \in DOMAIN chunks : \A j \in DOMAIN (chunks[i]) : chunks[i][j] \notin 1..silenced
    BY DEF OutputInv, SilenceInv, Clean
  <2>3. \A x : x \in 1..(pushed + n) /\ x > silenced => x \notin 1..silenced
    BY <1>2
  <2>4. \A i \in DOMAIN chunks' : \A j \in DOMAIN (chunks'[i]) : chunks'[i][j] \notin 1..silenced
    BY <1>8, <1>9, <2>2, <2>3
  <2>5. (\A i \in DOMAIN chunks : Clean(chunks[i]))'
    BY <2>1, <2>4 DEF Clean
  <2>6. (\A i \in DOMAIN inHand : Clean(inHand[i]) \/ Len(played) = playedThen)'
    BY <2>1 DEF OutputInv, SilenceInv, Clean
  <2>7. (InterruptSilences /\ playedThen \in 0..Len(played))'
    BY <2>1 DEF OutputInv, SilenceInv, InterruptSilences
  <2>8. (silenced \in 0..pushed /\ \A i \in DOMAIN pending : pending[i] > silenced)'
    BY <1>1, <1>2, <1>7, <2>1
  <2> QED BY <2>5, <2>6, <2>7, <2>8 DEF SilenceInv
<1> QED BY <1>10, <1>11, <1>12 DEF OutputInv

\* An interrupt leaves samples in the hand of recv only.
LEMMA InterruptKeeps ==
    ASSUME OutputInv, Interrupt
    PROVE  OutputInv'
<1>1. /\ chunks' = << >> /\ pending' = << >> /\ started' = TRUE /\ startedAt' = now - nextPts
      /\ silenced' = pushed /\ playedThen' = Len(played)
      /\ pushed' = pushed /\ closed' = closed /\ nextPts' = nextPts /\ inHand' = inHand
      /\ due' = due /\ sender' = sender /\ now' = now /\ played' = played
  BY DEF Interrupt
<1>2. DOMAIN chunks' = {} /\ DOMAIN pending' = {} /\ Len(pending') = 0
  BY <1>1
<1>3. pushed \in Nat /\ Len(played) \in Nat /\ 0 < FrameSamples /\ now - nextPts \in Int
  BY BoundsAssumption, FrameAssumption DEF OutputInv, TypeOK, PlaceInv
<1>4. TypeOK'
  <2>1. (\A i \in DOMAIN inHand : IsFrame(inHand[i]))'
    BY <1>1 DEF OutputInv, TypeOK, IsFrame
  <2>2. (closed \in BOOLEAN /\ sender \in SenderStates /\ nextPts \in Nat /\ now \in Nat
         /\ due \in Int /\ pushed \in 0..MaxSamples)'
    BY <1>1 DEF OutputInv, TypeOK
  <2>3. (Len(pending) < FrameSamples /\ \A i \in DOMAIN pending : pending[i] \in 1..pushed)'
    BY <1>2, <1>3
  <2> QED BY <1>1, <1>2, <1>3, <2>1, <2>2, <2>3 DEF TypeOK
<1>5. PlaceInv'
  <2>1. << >> \in Seq(Int) /\ << >> \in Seq(Seq(Int))
    OBVIOUS
  <2> QED BY <1>1, <2>1 DEF OutputInv, PlaceInv
<1>6. SilenceInv'
  <2>1. (silenced \in 0..pushed /\ playedThen \in 0..Len(played))'
    BY <1>1, <1>3
  <2>2. InterruptSilences'
    <3>1. DOMAIN played = 1..Len(played)
      BY DEF OutputInv, PlaceInv
    <3>2. \A i \in DOMAIN played : ~(i > Len(played) + 1)
      BY <1>3, <3>1
    <3> QED BY <1>1, <3>2 DEF InterruptSilences
  <2> QED BY <1>1, <1>2, <2>1, <2>2 DEF SilenceInv
<1> QED BY <1>4, <1>5, <1>6 DEF OutputInv

\* close adds at most the rest, padded, and the end marker.
LEMMA CloseKeeps ==
    ASSUME OutputInv, Close
    PROVE  OutputInv'
<1> DEFINE mid == IF pending = << >> THEN << >> ELSE <<Padded(pending)>>
<1>1. /\ pending' = << >> /\ closed' = TRUE /\ chunks' = chunks \o mid \o <<EndOfTrack>>
      /\ pushed' = pushed /\ started' = started /\ startedAt' = startedAt
      /\ nextPts' = nextPts /\ inHand' = inHand /\ due' = due /\ sender' = sender /\ now' = now
      /\ played' = played /\ silenced' = silenced /\ playedThen' = playedThen
  BY DEF Close, clock, past
<1>2. /\ pending \in Seq(Int) /\ Len(pending) < FrameSamples /\ chunks \in Seq(Seq(Int))
      /\ silenced \in Nat /\ pushed \in Nat /\ FrameSamples \in Nat \ {0}
      /\ \A i \in DOMAIN pending : pending[i] \in 1..pushed /\ pending[i] > silenced
  BY FrameAssumption, BoundsAssumption DEF OutputInv, TypeOK, PlaceInv, SilenceInv
<1>3. /\ Padded(pending) \in Seq(Int) /\ Len(Padded(pending)) = FrameSamples
      /\ \A j \in DOMAIN Padded(pending) :
             Padded(pending)[j] \in 0..pushed /\ Padded(pending)[j] \notin 1..silenced
  <2>1. Silence \in 0..pushed /\ Silence \notin 1..silenced
    BY <1>2 DEF Silence
  <2>2. \A i \in DOMAIN pending : pending[i] \in 0..pushed /\ pending[i] \notin 1..silenced
    BY <1>2
  <2> QED BY <1>2, <2>1, <2>2, PadRest
<1>4. PICK pad \in Seq(Int) : pad = Padded(pending)
  BY <1>3
<1>5. /\ mid \in Seq(Seq(Int)) /\ \A k \in DOMAIN mid : mid[k] = pad
  BY <1>4
<1> HIDE DEF mid
<1>6. /\ chunks' \in Seq(Seq(Int))
      /\ \A i \in DOMAIN chunks' : \/ \E k \in DOMAIN chunks : chunks'[i] = chunks[k]
                                   \/ chunks'[i] = pad
                                   \/ chunks'[i] = EndOfTrack
  <2> DEFINE one == <<EndOfTrack>>
             both == chunks \o mid
  <2>1. one \in Seq(Seq(Int)) /\ Len(one) = 1 /\ one[1] = EndOfTrack
    BY DEF EndOfTrack
  <2> HIDE DEF one
  <2>2. both \in Seq(Seq(Int))
    BY <1>2, <1>5, ConcatElements
  <2>3. \A i \in DOMAIN both : (\E k \in DOMAIN chunks : both[i] = chunks[k]) \/ both[i] = pad
    BY <1>2, <1>5, ConcatElements
  <2> HIDE DEF both
  <2>4. /\ both \o one \in Seq(Seq(Int))
        /\ \A i \in DOMAIN (both \o one) :
               \/ \E k \in DOMAIN both : (both \o one)[i] = both[k]
               \/ \E k \in DOMAIN one : (both \o one)[i] = one[k]
    BY <2>1, <2>2, ConcatElements
  <2>5. \A k \in DOMAIN one : one[k] = EndOfTrack
    BY <2>1
  <2>6. chunks' = both \o one
    BY <1>1 DEF both, one
  <2> QED BY <2>3, <2>4, <2>5, <2>6
<1>7. TypeOK'
  <2>1. \A i \in DOMAIN chunks : \/ chunks[i] = EndOfTrack
                                 \/ /\ Len(chunks[i]) = FrameSamples
                                    /\ \A j \in DOMAIN (chunks[i]) : chunks[i][j] \in 0..pushed
    BY DEF OutputInv, TypeOK, IsFrame
  <2>2. \A i \in DOMAIN chunks' : \/ chunks'[i] = EndOfTrack
                                  \/ /\ Len(chunks'[i]) = FrameSamples
                                     /\ \A j \in DOMAIN (chunks'[i]) : chunks'[i][j] \in 0..pushed
    <3> TAKE i \in DOMAIN chunks'
    <3>1. CASE chunks'[i] = EndOfTrack
      BY <3>1
    <3>2. CASE chunks'[i] = pad
      BY <3>2, <1>3, <1>4
    <3>3. CASE \E k \in DOMAIN chunks : chunks'[i] = chunks[k]
      BY <3>3, <2>1
    <3> QED BY <3>1, <3>2, <3>3, <1>6
  <2>3. (\A i \in DOMAIN chunks : chunks[i] = EndOfTrack \/ IsFrame(chunks[i]))'
    BY <1>1, <2>2 DEF IsFrame
  <2>4. (\A i \in DOMAIN inHand : IsFrame(inHand[i]))'
    BY <1>1 DEF OutputInv, TypeOK, IsFrame
  <2>5. (closed \in BOOLEAN /\ sender \in SenderStates /\ nextPts \in Nat /\ now \in Nat
         /\ due \in Int /\ pushed \in 0..MaxSamples /\ started \in BOOLEAN /\ startedAt \in Int)'
    BY <1>1 DEF OutputInv, TypeOK
  <2>6. (Len(pending) < FrameSamples /\ \A i \in DOMAIN pending : pending[i] \in 1..pushed)'
    BY <1>1, <1>2
  <2> QED BY <2>3, <2>4, <2>5, <2>6 DEF TypeOK
<1>8. PlaceInv'
  <2>1. << >> \in Seq(Int)
    OBVIOUS
  <2> QED BY <1>1, <1>6, <2>1 DEF OutputInv, PlaceInv
<1>9. SilenceInv'
  <2>1. \A i \in DOMAIN chunks : \A j \in DOMAIN (chunks[i]) : chunks[i][j] \notin 1..silenced
    BY DEF OutputInv, SilenceInv, Clean
  <2>2. \A j \in DOMAIN EndOfTrack : EndOfTrack[j] \notin 1..silenced
    BY DEF EndOfTrack
  <2>3. \A i \in DOMAIN chunks' : \A j \in DOMAIN (chunks'[i]) : chunks'[i][j] \notin 1..silenced
    BY <1>3, <1>4, <1>6, <2>1, <2>2
  <2>4. (\A i \in DOMAIN chunks : Clean(chunks[i]))'
    BY <1>1, <2>3 DEF Clean
  <2>5. (\A i \in DOMAIN inHand : Clean(inHand[i]) \/ Len(played) = playedThen)'
    BY <1>1 DEF OutputInv, SilenceInv, Clean
  <2>6. (InterruptSilences /\ playedThen \in 0..Len(played) /\ silenced \in 0..pushed)'
    BY <1>1 DEF OutputInv, SilenceInv, InterruptSilences
  <2>7. (\A i \in DOMAIN pending : pending[i] > silenced)'
    BY <1>1
  <2> QED BY <2>4, <2>5, <2>6, <2>7 DEF SilenceInv
<1> QED BY <1>7, <1>8, <1>9 DEF OutputInv

\* Taking the first of the frames leaves the others as they were.
LEMMA TailElements ==
    ASSUME PlaceInv, chunks # << >>
    PROVE  /\ Tail(chunks) \in Seq(Seq(Int)) /\ Head(chunks) \in Seq(Int)
           /\ 1 \in DOMAIN chunks /\ Head(chunks) = chunks[1]
           /\ \A i \in DOMAIN Tail(chunks) : \E k \in DOMAIN chunks : Tail(chunks)[i] = chunks[k]
<1>1. chunks \in Seq(Seq(Int))
  BY DEF PlaceInv
<1>2. /\ Head(chunks) \in Seq(Int) /\ Tail(chunks) \in Seq(Seq(Int))
      /\ Len(Tail(chunks)) = Len(chunks) - 1
      /\ \A i \in 1 .. Len(Tail(chunks)) : Tail(chunks)[i] = chunks[i + 1]
      /\ Len(chunks) \in Nat /\ Len(chunks) > 0 /\ Head(chunks) = chunks[1]
  BY <1>1
<1>3. DOMAIN Tail(chunks) = 1..(Len(chunks) - 1) /\ DOMAIN chunks = 1..Len(chunks)
  BY <1>1, <1>2
<1>4. \A i \in 1..(Len(chunks) - 1) : i + 1 \in 1..Len(chunks)
  BY <1>2
<1>5. 1 \in DOMAIN chunks
  BY <1>2, <1>3
<1>6. ASSUME NEW i \in DOMAIN Tail(chunks) PROVE \E k \in DOMAIN chunks : Tail(chunks)[i] = chunks[k]
  <2>1. i \in 1..(Len(chunks) - 1)
    BY <1>3
  <2>2. i + 1 \in DOMAIN chunks /\ Tail(chunks)[i] = chunks[i + 1]
    BY <2>1, <1>2, <1>3, <1>4
  <2> QED BY <2>2
<1> QED BY <1>2, <1>5, <1>6

\* A step of recv, or of time, that leaves the provider's side alone and returns
\* nothing keeps the invariant if its frames come from chunks or from the hand.
LEMMA TakingKeeps ==
    ASSUME OutputInv, UNCHANGED <<input, nextPts, past>>,
           chunks' \in Seq(Seq(Int)), inHand' \in Seq(Seq(Int)),
           \A i \in DOMAIN chunks' : \E k \in DOMAIN chunks : chunks'[i] = chunks[k],
           \A i \in DOMAIN inHand' : \/ \E k \in DOMAIN inHand : inHand'[i] = inHand[k]
                                     \/ \E k \in DOMAIN chunks :
                                            chunks[k] # EndOfTrack /\ inHand'[i] = chunks[k],
           started' \in BOOLEAN, startedAt' \in Int, due' \in Int, sender' \in SenderStates, now' \in Nat
    PROVE  OutputInv'
<1>1. /\ pushed' = pushed /\ pending' = pending /\ closed' = closed /\ nextPts' = nextPts
      /\ played' = played /\ silenced' = silenced /\ playedThen' = playedThen
  BY DEF input, past
<1>2. \A i \in DOMAIN chunks : chunks[i] = EndOfTrack \/ IsFrame(chunks[i])
  BY DEF OutputInv, TypeOK
<1>3. \A i \in DOMAIN inHand : IsFrame(inHand[i])
  BY DEF OutputInv, TypeOK
<1>4. \A i \in DOMAIN chunks' : chunks'[i] = EndOfTrack \/ IsFrame(chunks'[i])
  BY <1>2
<1>5. \A i \in DOMAIN inHand' : IsFrame(inHand'[i])
  BY <1>2, <1>3
<1>6. TypeOK'
  <2>1. (\A i \in DOMAIN chunks : chunks[i] = EndOfTrack \/ IsFrame(chunks[i]))'
    BY <1>1, <1>4 DEF IsFrame
  <2>2. (\A i \in DOMAIN inHand : IsFrame(inHand[i]))'
    BY <1>1, <1>5 DEF IsFrame
  <2>3. (pushed \in 0..MaxSamples /\ Len(pending) < FrameSamples
         /\ (\A i \in DOMAIN pending : pending[i] \in 1..pushed)
         /\ closed \in BOOLEAN /\ nextPts \in Nat)'
    BY <1>1 DEF OutputInv, TypeOK
  <2> QED BY <2>1, <2>2, <2>3 DEF TypeOK
<1>7. PlaceInv'
  BY <1>1 DEF OutputInv, PlaceInv
<1>8. SilenceInv'
  <2>1. \A i \in DOMAIN chunks : Clean(chunks[i])
    BY DEF OutputInv, SilenceInv
  <2>2. \A i \in DOMAIN inHand : Clean(inHand[i]) \/ Len(played) = playedThen
    BY DEF OutputInv, SilenceInv
  <2>3. \A i \in DOMAIN chunks' : Clean(chunks'[i])
    BY <2>1
  <2>4. \A i \in DOMAIN inHand' : Clean(inHand'[i]) \/ Len(played) = playedThen
    BY <2>1, <2>2
  <2>5. (\A i \in DOMAIN chunks : Clean(chunks[i]))'
    BY <1>1, <2>3 DEF Clean
  <2>6. (\A i \in DOMAIN inHand : Clean(inHand[i]) \/ Len(played) = playedThen)'
    BY <1>1, <2>4 DEF Clean
  <2>7. (InterruptSilences /\ playedThen \in 0..Len(played) /\ silenced \in 0..pushed
         /\ \A i \in DOMAIN pending : pending[i] > silenced)'
    BY <1>1 DEF OutputInv, SilenceInv, InterruptSilences
  <2> QED BY <2>5, <2>6, <2>7 DEF SilenceInv
<1> QED BY <1>6, <1>7, <1>8 DEF OutputInv

LEMMA TakeFrameKeeps ==
    ASSUME OutputInv, TakeFrame
    PROVE  OutputInv'
<1>1. /\ chunks # << >> /\ Head(chunks) # EndOfTrack /\ chunks' = Tail(chunks)
      /\ inHand' = <<Head(chunks)>> /\ UNCHANGED <<input, nextPts, sender, now, past>>
  BY DEF TakeFrame, CanTake
<1>2. PICK h \in Seq(Int) : h = Head(chunks)
  BY <1>1, TailElements DEF OutputInv
<1>3. /\ chunks' \in Seq(Seq(Int))
      /\ \A i \in DOMAIN chunks' : \E k \in DOMAIN chunks : chunks'[i] = chunks[k]
  BY <1>1, TailElements DEF OutputInv
<1>4. 1 \in DOMAIN chunks /\ chunks[1] = h /\ h # EndOfTrack
  BY <1>1, <1>2, TailElements DEF OutputInv
<1>5. inHand' \in Seq(Seq(Int)) /\ \A i \in DOMAIN inHand' : inHand'[i] = h
  <2>1. inHand' = <<h>>
    BY <1>1, <1>2
  <2>2. <<h>> \in Seq(Seq(Int)) /\ \A i \in DOMAIN <<h>> : <<h>>[i] = h
    OBVIOUS
  <2> QED BY <2>1, <2>2
<1>6. started' \in BOOLEAN /\ startedAt' \in Int /\ due' \in Int /\ sender' \in SenderStates /\ now' \in Nat
  <2>1. nextPts \in Nat /\ now \in Nat /\ startedAt \in Int /\ sender \in SenderStates /\ started \in BOOLEAN
    BY DEF OutputInv, TypeOK
  <2>2. sender' = sender /\ now' = now
    BY <1>1
  <2>3. CASE ~started /\ started' = TRUE /\ startedAt' = now /\ due' = now
    BY <2>1, <2>2, <2>3
  <2>4. CASE due' = startedAt + nextPts /\ UNCHANGED <<started, startedAt>>
    <3>1. startedAt + nextPts \in Int
      BY <2>1
    <3> QED BY <2>1, <2>2, <2>4, <3>1
  <2> QED BY <2>3, <2>4 DEF TakeFrame
<1>7. UNCHANGED <<input, nextPts, past>>
  BY <1>1
<1> QED BY <1>3, <1>4, <1>5, <1>6, <1>7, TakingKeeps

LEMMA EndTrackKeeps ==
    ASSUME OutputInv, EndTrack
    PROVE  OutputInv'
<1>1. /\ chunks # << >> /\ chunks' = Tail(chunks) /\ sender' = "ended"
      /\ inHand' = inHand /\ now' = now /\ due' = due /\ started' = started /\ startedAt' = startedAt
      /\ UNCHANGED <<input, nextPts, past>>
  BY DEF EndTrack, CanTake
<1>2. /\ chunks' \in Seq(Seq(Int))
      /\ \A i \in DOMAIN chunks' : \E k \in DOMAIN chunks : chunks'[i] = chunks[k]
  BY <1>1, TailElements DEF OutputInv
<1>3. inHand' \in Seq(Seq(Int)) /\ \A i \in DOMAIN inHand' : \E k \in DOMAIN inHand : inHand'[i] = inHand[k]
  BY <1>1 DEF OutputInv, PlaceInv
<1>4. started' \in BOOLEAN /\ startedAt' \in Int /\ due' \in Int /\ sender' \in SenderStates /\ now' \in Nat
  BY <1>1 DEF OutputInv, TypeOK, SenderStates
<1> QED BY <1>1, <1>2, <1>3, <1>4, TakingKeeps

LEMMA SenderKeeps ==
    ASSUME OutputInv, SenderStarts \/ SenderStops
    PROVE  OutputInv'
<1>1. /\ chunks' = chunks /\ inHand' = inHand /\ due' = due /\ now' = now
      /\ started' = started /\ startedAt' = startedAt
      /\ UNCHANGED <<input, nextPts, past>>
  BY DEF SenderStarts, SenderStops
<1>2. chunks' \in Seq(Seq(Int)) /\ \A i \in DOMAIN chunks' : \E k \in DOMAIN chunks : chunks'[i] = chunks[k]
  BY <1>1 DEF OutputInv, PlaceInv
<1>3. inHand' \in Seq(Seq(Int)) /\ \A i \in DOMAIN inHand' : \E k \in DOMAIN inHand : inHand'[i] = inHand[k]
  BY <1>1 DEF OutputInv, PlaceInv
<1>4. sender' \in SenderStates
  BY DEF SenderStarts, SenderStops, SenderStates
<1>5. started' \in BOOLEAN /\ startedAt' \in Int /\ due' \in Int /\ now' \in Nat
  BY <1>1 DEF OutputInv, TypeOK
<1> QED BY <1>1, <1>2, <1>3, <1>4, <1>5, TakingKeeps

LEMMA TickKeeps ==
    ASSUME OutputInv, Tick
    PROVE  OutputInv'
<1>1. /\ chunks' = chunks /\ inHand' = inHand /\ due' = due /\ sender' = sender
      /\ started' = started /\ startedAt' = startedAt /\ now' = now + 1
      /\ UNCHANGED <<input, nextPts, past>>
  BY DEF Tick, clock
<1>2. chunks' \in Seq(Seq(Int)) /\ \A i \in DOMAIN chunks' : \E k \in DOMAIN chunks : chunks'[i] = chunks[k]
  BY <1>1 DEF OutputInv, PlaceInv
<1>3. inHand' \in Seq(Seq(Int)) /\ \A i \in DOMAIN inHand' : \E k \in DOMAIN inHand : inHand'[i] = inHand[k]
  BY <1>1 DEF OutputInv, PlaceInv
<1>4. now' \in Nat
  BY <1>1 DEF OutputInv, TypeOK
<1>5. started' \in BOOLEAN /\ startedAt' \in Int /\ due' \in Int /\ sender' \in SenderStates
  BY <1>1 DEF OutputInv, TypeOK
<1> QED BY <1>1, <1>2, <1>3, <1>4, <1>5, TakingKeeps

\* The frame that is returned is from before the interrupt only if it is the first
\* one after it.
LEMMA ReturnFrameKeeps ==
    ASSUME OutputInv, ReturnFrame
    PROVE  OutputInv'
<1> DEFINE frame == [pcm |-> Head(inHand), at |-> now]
<1>1. /\ inHand # << >> /\ played' = Append(played, frame) /\ nextPts' = nextPts + 1 /\ inHand' = << >>
      /\ chunks' = chunks /\ started' = started /\ startedAt' = startedAt /\ due' = due
      /\ sender' = sender /\ now' = now /\ silenced' = silenced /\ playedThen' = playedThen
      /\ pushed' = pushed /\ pending' = pending /\ closed' = closed
  BY DEF ReturnFrame, CanReturn, input
<1>2. PICK h \in Seq(Int) : h = Head(inHand) /\ 1 \in DOMAIN inHand /\ inHand[1] = h
  <2>1. inHand \in Seq(Seq(Int)) /\ inHand # << >>
    BY <1>1 DEF OutputInv, PlaceInv
  <2>2. Len(inHand) \in Nat /\ Len(inHand) > 0 /\ DOMAIN inHand = 1..Len(inHand)
    BY <2>1
  <2>3. 1 \in DOMAIN inHand
    BY <2>2
  <2>4. Head(inHand) = inHand[1] /\ inHand[1] \in Seq(Int)
    BY <2>1, <2>3
  <2> QED BY <2>3, <2>4
<1>3. /\ frame \in [pcm : Seq(Int), at : Nat] /\ frame.pcm = h
      /\ played \in Seq([pcm : Seq(Int), at : Nat])
  BY <1>2 DEF OutputInv, PlaceInv, TypeOK
<1> HIDE DEF frame
<1>4. /\ played' \in Seq([pcm : Seq(Int), at : Nat]) /\ Len(played') = Len(played) + 1
      /\ DOMAIN played' = 1..(Len(played) + 1) /\ Len(played) \in Nat
      /\ \A i \in 1..Len(played) : played'[i] = played[i]
      /\ played'[Len(played) + 1] = frame
  BY <1>1, <1>3, AppendProperties
<1>5. TypeOK'
  <2>1. DOMAIN inHand' = {}
    BY <1>1
  <2>2. (\A i \in DOMAIN chunks : chunks[i] = EndOfTrack \/ IsFrame(chunks[i]))'
    BY <1>1 DEF OutputInv, TypeOK, IsFrame
  <2>3. nextPts' \in Nat
    BY <1>1 DEF OutputInv, TypeOK
  <2>4. (pushed \in 0..MaxSamples /\ Len(pending) < FrameSamples
         /\ (\A i \in DOMAIN pending : pending[i] \in 1..pushed)
         /\ closed \in BOOLEAN /\ sender \in SenderStates /\ now \in Nat /\ due \in Int
         /\ started \in BOOLEAN /\ startedAt \in Int)'
    BY <1>1 DEF OutputInv, TypeOK
  <2> QED BY <2>1, <2>2, <2>3, <2>4 DEF TypeOK
<1>6. PlaceInv'
  <2>1. << >> \in Seq(Seq(Int))
    OBVIOUS
  <2> QED BY <1>1, <1>4, <2>1 DEF OutputInv, PlaceInv
<1>7. SilenceInv'
  <2>1. (\A i \in DOMAIN chunks : Clean(chunks[i]))'
    BY <1>1 DEF OutputInv, SilenceInv, Clean
  <2>2. DOMAIN inHand' = {}
    BY <1>1
  <2>3. (silenced \in 0..pushed /\ \A i \in DOMAIN pending : pending[i] > silenced)'
    BY <1>1 DEF OutputInv, SilenceInv
  <2>4. playedThen \in 0..Len(played)
    BY DEF OutputInv, SilenceInv
  <2>5. playedThen' \in 0..Len(played')
    BY <1>1, <1>4, <2>4
  <2>6. ASSUME NEW i \in DOMAIN played', i > playedThen + 1
        PROVE  \A j \in DOMAIN (played'[i].pcm) : played'[i].pcm[j] \notin 1..silenced
    <3>1. CASE i \in 1..Len(played)
      <4>1. DOMAIN played = 1..Len(played)
        BY <1>3, LenProperties
      <4>2. i \in DOMAIN played /\ played'[i] = played[i]
        BY <3>1, <4>1, <1>4
      <4> QED BY <4>2, <2>6 DEF OutputInv, SilenceInv, InterruptSilences
    <3>2. CASE i = Len(played) + 1
      <4>1. Len(played) # playedThen
        BY <3>2, <2>4, <2>6, <1>4
      <4>2. Clean(h)
        BY <4>1, <1>2 DEF OutputInv, SilenceInv
      <4>3. played'[i].pcm = h
        BY <3>2, <1>3, <1>4
      <4> QED BY <4>2, <4>3 DEF Clean
    <3> QED BY <3>1, <3>2, <1>4
  <2>7. InterruptSilences'
    BY <1>1, <2>6 DEF InterruptSilences
  <2> QED BY <2>1, <2>2, <2>3, <2>5, <2>7 DEF SilenceInv
<1> QED BY <1>5, <1>6, <1>7 DEF OutputInv

LEMMA StutterKeeps ==
    ASSUME OutputInv, UNCHANGED vars
    PROVE  OutputInv'
<1>1. chunks' = chunks /\ inHand' = inHand
  BY DEF vars, clock
<1>2. started' = started /\ startedAt' = startedAt /\ due' = due /\ sender' = sender /\ now' = now
  BY DEF vars, clock
<1>3. UNCHANGED <<input, nextPts, past>>
  BY DEF vars, clock
<1>4. chunks' \in Seq(Seq(Int)) /\ \A i \in DOMAIN chunks' : \E k \in DOMAIN chunks : chunks'[i] = chunks[k]
  BY <1>1 DEF OutputInv, PlaceInv
<1>5. inHand' \in Seq(Seq(Int)) /\ \A i \in DOMAIN inHand' : \E k \in DOMAIN inHand : inHand'[i] = inHand[k]
  BY <1>1 DEF OutputInv, PlaceInv
<1>6. started' \in BOOLEAN /\ startedAt' \in Int /\ due' \in Int /\ sender' \in SenderStates /\ now' \in Nat
  BY <1>2 DEF OutputInv, TypeOK
<1> QED BY <1>3, <1>4, <1>5, <1>6, TakingKeeps

-----------------------------------------------------------------------------
(* The theorems *)

\* The inductive invariant: where frames are, what they hold, and where samples
\* from before the last interrupt may still be.
THEOREM OutputInvariance == Spec => []OutputInv
<1>1. Init => OutputInv
  BY InitOutput
<1>2. OutputInv /\ [Next]_vars => OutputInv'
  <2> SUFFICES ASSUME OutputInv, [Next]_vars PROVE OutputInv'
    OBVIOUS
  <2>1. ASSUME NEW n \in 1..MaxSamples, PushPcm(n) PROVE OutputInv'
    BY <2>1, PushKeeps
  <2>2. CASE Interrupt
    BY <2>2, InterruptKeeps
  <2>3. CASE Close
    BY <2>3, CloseKeeps
  <2>4. CASE TakeFrame
    BY <2>4, TakeFrameKeeps
  <2>5. CASE ReturnFrame
    BY <2>5, ReturnFrameKeeps
  <2>6. CASE EndTrack
    BY <2>6, EndTrackKeeps
  <2>7. CASE Tick
    BY <2>7, TickKeeps
  <2>8. CASE SenderStarts \/ SenderStops
    BY <2>8, SenderKeeps
  <2>9. CASE UNCHANGED vars
    BY <2>9, StutterKeeps
  <2> QED BY <2>1, <2>2, <2>3, <2>4, <2>5, <2>6, <2>7, <2>8, <2>9 DEF Next
<1> QED BY <1>1, <1>2, PTL DEF Spec

\* Every frame that waits or is in hand has the length of a frame, whatever the
\* lengths of the pieces, and the rest that waits is less than a frame.
THEOREM OutputTypes == Spec => []TypeOK
<1>1. OutputInv => TypeOK
  BY DEF OutputInv
<1> QED BY <1>1, OutputInvariance, PTL

\* After an interrupt the caller hears at most one frame from before it, for
\* frames of any length and any number of interrupts.
THEOREM InterruptsSilence == Spec => []InterruptSilences
<1>1. OutputInv => InterruptSilences
  BY DEF OutputInv, SilenceInv
<1> QED BY <1>1, OutputInvariance, PTL

-----------------------------------------------------------------------------
(* What is heard is in order *)

\* Where the frames of two joined lines are.
LEMMA JoinedPlaces ==
    ASSUME NEW p \in Seq(Seq(Int)), NEW q \in Seq(Seq(Int))
    PROVE  /\ p \o q \in Seq(Seq(Int))
           /\ Len(p) \in Nat /\ DOMAIN p = 1..Len(p)
           /\ Len(q) \in Nat /\ DOMAIN q = 1..Len(q)
           /\ DOMAIN (p \o q) = 1..(Len(p) + Len(q))
           /\ \A f \in DOMAIN p : f \in DOMAIN (p \o q) /\ (p \o q)[f] = p[f]
           /\ \A f \in DOMAIN q : Len(p) + f \in DOMAIN (p \o q) /\ (p \o q)[Len(p) + f] = q[f]
           /\ \A f \in DOMAIN (p \o q) : \/ f \in DOMAIN p
                                        \/ \E k \in DOMAIN q : f = Len(p) + k
<1>1. /\ p \o q \in Seq(Seq(Int)) /\ Len(p \o q) = Len(p) + Len(q)
      /\ \A i \in 1 .. Len(p) + Len(q) :
             (p \o q)[i] = IF i <= Len(p) THEN p[i] ELSE q[i - Len(p)]
  BY ConcatProperties
<1>2. /\ Len(p) \in Nat /\ DOMAIN p = 1..Len(p) /\ Len(q) \in Nat /\ DOMAIN q = 1..Len(q)
      /\ DOMAIN (p \o q) = 1..(Len(p) + Len(q))
  BY <1>1, LenProperties
<1> DEFINE m == Len(p)
           n == Len(q)
           both == p \o q
<1>3. /\ m \in Nat /\ n \in Nat /\ DOMAIN p = 1..m /\ DOMAIN q = 1..n /\ DOMAIN both = 1..(m + n)
      /\ \A i \in 1..(m + n) : both[i] = IF i <= m THEN p[i] ELSE q[i - m]
  BY <1>1, <1>2
<1> HIDE DEF m, n, both
<1>4. \A f \in 1..m : f \in 1..(m + n) /\ f <= m
  BY <1>3
<1>5. \A f \in 1..n : m + f \in 1..(m + n) /\ ~(m + f <= m) /\ (m + f) - m = f
  BY <1>3
<1>6. \A f \in 1..(m + n) : f \in 1..m \/ (f - m \in 1..n /\ f = m + (f - m))
  BY <1>3
<1>7. \A f \in 1..m : f \in DOMAIN both /\ both[f] = p[f]
  BY <1>3, <1>4
<1>8. \A f \in 1..n : m + f \in DOMAIN both /\ both[m + f] = q[f]
  BY <1>3, <1>5
<1>9. \A f \in DOMAIN both : f \in DOMAIN p \/ \E k \in DOMAIN q : f = m + k
  BY <1>3, <1>6
<1> QED BY <1>1, <1>2, <1>3, <1>7, <1>8, <1>9 DEF m, n, both

\* A joined line holds what its parts hold.
LEMMA JoinedHolds ==
    ASSUME NEW p \in Seq(Seq(Int)), NEW q \in Seq(Seq(Int)), NEW s
    PROVE  Holds(p \o q, s) <=> Holds(p, s) \/ Holds(q, s)
<1>1. ASSUME Holds(p, s) PROVE Holds(p \o q, s)
  <2>1. PICK f \in DOMAIN p : \E i \in DOMAIN (p[f]) : p[f][i] = s
    BY <1>1 DEF Holds
  <2>2. f \in DOMAIN (p \o q) /\ (p \o q)[f] = p[f]
    BY JoinedPlaces
  <2> QED BY <2>1, <2>2, Zenon DEF Holds
<1>2. ASSUME Holds(q, s) PROVE Holds(p \o q, s)
  <2>1. PICK f \in DOMAIN q : \E i \in DOMAIN (q[f]) : q[f][i] = s
    BY <1>2 DEF Holds
  <2>2. Len(p) + f \in DOMAIN (p \o q) /\ (p \o q)[Len(p) + f] = q[f]
    BY JoinedPlaces
  <2> QED BY <2>1, <2>2, Zenon DEF Holds
<1>3. ASSUME Holds(p \o q, s) PROVE Holds(p, s) \/ Holds(q, s)
  <2>1. PICK f \in DOMAIN (p \o q) : \E i \in DOMAIN ((p \o q)[f]) : (p \o q)[f][i] = s
    BY <1>3 DEF Holds
  <2>2. CASE f \in DOMAIN p
    <3>1. (p \o q)[f] = p[f]
      BY <2>2, JoinedPlaces
    <3> QED BY <2>1, <2>2, <3>1, Zenon DEF Holds
  <2>3. CASE \E k \in DOMAIN q : f = Len(p) + k
    <3>1. PICK k \in DOMAIN q : f = Len(p) + k
      BY <2>3
    <3>2. (p \o q)[f] = q[k]
      BY <3>1, JoinedPlaces
    <3> QED BY <2>1, <3>1, <3>2, Zenon DEF Holds
  <2> QED BY <2>2, <2>3, JoinedPlaces
<1> QED BY <1>1, <1>2, <1>3

\* All of the first line is from before all of the second.
Ahead(p, q) ==
    \A x, y : Holds(p, x) /\ Holds(q, y) /\ x # Silence /\ y # Silence => x < y

\* Two lines make an ascending one when each ascends and the first is ahead.
LEMMA JoinedAscends ==
    ASSUME NEW p \in Seq(Seq(Int)), NEW q \in Seq(Seq(Int))
    PROVE  Ascending(p \o q) <=> Ascending(p) /\ Ascending(q) /\ Ahead(p, q)
<1> DEFINE m == Len(p)
           both == p \o q
<1>0. /\ m \in Nat /\ DOMAIN p \subseteq Nat /\ DOMAIN q \subseteq Nat
      /\ DOMAIN p = 1..m /\ DOMAIN q = 1..Len(q) /\ Len(q) \in Nat
      /\ \A f \in DOMAIN p : f \in DOMAIN both /\ both[f] = p[f]
      /\ \A f \in DOMAIN q : m + f \in DOMAIN both /\ both[m + f] = q[f]
      /\ \A f \in DOMAIN both : \/ f \in DOMAIN p
                                \/ \E k \in DOMAIN q : f = m + k
  <2>1. 1..Len(p) \subseteq Nat /\ 1..Len(q) \subseteq Nat
    BY JoinedPlaces
  <2> QED BY JoinedPlaces, <2>1
<1> HIDE DEF m, both
<1>1. ASSUME Ascending(both) PROVE Ascending(p)
  BY <1>0, <1>1 DEF Ascending
<1>2. ASSUME Ascending(both) PROVE Ascending(q)
  <2> SUFFICES ASSUME NEW f \in DOMAIN q, NEW g \in DOMAIN q,
                      NEW i \in DOMAIN (q[f]), NEW j \in DOMAIN (q[g]),
                      f < g \/ (f = g /\ i < j), q[f][i] # Silence, q[g][j] # Silence
               PROVE  q[f][i] < q[g][j]
    BY DEF Ascending
  <2>1. /\ m + f \in DOMAIN both /\ both[m + f] = q[f]
        /\ m + g \in DOMAIN both /\ both[m + g] = q[g]
    BY <1>0
  <2>2. m + f < m + g \/ (m + f = m + g /\ i < j)
    BY <1>0
  <2>3. i \in DOMAIN (both[m + f]) /\ j \in DOMAIN (both[m + g])
    BY <2>1, Zenon
  <2>4. both[m + f][i] < both[m + g][j]
    BY <1>2, <2>1, <2>2, <2>3 DEF Ascending
  <2> QED BY <2>1, <2>4
<1>3. ASSUME Ascending(both) PROVE Ahead(p, q)
  <2> SUFFICES ASSUME NEW x, NEW y, Holds(p, x), Holds(q, y), x # Silence, y # Silence
               PROVE  x < y
    BY DEF Ahead
  <2>1. PICK f \in DOMAIN p : \E i \in DOMAIN (p[f]) : p[f][i] = x
    BY DEF Holds
  <2>2. PICK i \in DOMAIN (p[f]) : p[f][i] = x
    BY <2>1
  <2>3. PICK g \in DOMAIN q : \E j \in DOMAIN (q[g]) : q[g][j] = y
    BY DEF Holds
  <2>4. PICK j \in DOMAIN (q[g]) : q[g][j] = y
    BY <2>3
  <2>5. /\ f \in DOMAIN both /\ both[f] = p[f] /\ m + g \in DOMAIN both /\ both[m + g] = q[g]
    BY <1>0
  <2>6. f < m + g
    BY <1>0
  <2> QED BY <1>3, <2>2, <2>4, <2>5, <2>6 DEF Ascending
<1>4. ASSUME Ascending(p), Ascending(q), Ahead(p, q) PROVE Ascending(both)
  <2> SUFFICES ASSUME NEW f \in DOMAIN both, NEW g \in DOMAIN both,
                      NEW i \in DOMAIN (both[f]), NEW j \in DOMAIN (both[g]),
                      f < g \/ (f = g /\ i < j), both[f][i] # Silence, both[g][j] # Silence
               PROVE  both[f][i] < both[g][j]
    BY DEF Ascending
  <2>1. CASE f \in DOMAIN p /\ g \in DOMAIN p
    BY <1>0, <1>4, <2>1 DEF Ascending
  <2>2. CASE f \in DOMAIN p /\ \E l \in DOMAIN q : g = m + l
    <3>1. PICK l \in DOMAIN q : g = m + l
      BY <2>2
    <3>2. both[f] = p[f] /\ both[g] = q[l]
      BY <1>0, <2>2, <3>1
    <3>3. Holds(p, both[f][i]) /\ Holds(q, both[g][j])
      BY <2>2, <3>1, <3>2, Zenon DEF Holds
    <3> QED BY <1>4, <3>3, Zenon DEF Ahead
  <2>3. CASE (\E k \in DOMAIN q : f = m + k) /\ g \in DOMAIN p
    <3>1. PICK k \in DOMAIN q : f = m + k
      BY <2>3
    <3>2. m \in Nat /\ k \in 1..Len(q) /\ Len(q) \in Nat /\ g \in 1..m
      BY <1>0, <2>3, Zenon
    <3>3. f \in Nat /\ g \in Nat /\ f > g
      BY <3>1, <3>2
    <3> QED BY <3>3
  <2>4. CASE (\E k \in DOMAIN q : f = m + k) /\ (\E l \in DOMAIN q : g = m + l)
    <3>1. PICK k \in DOMAIN q : f = m + k
      BY <2>4
    <3>2. PICK l \in DOMAIN q : g = m + l
      BY <2>4
    <3>3. both[f] = q[k] /\ both[g] = q[l]
      BY <1>0, <3>1, <3>2
    <3>4. k < l \/ (k = l /\ i < j)
      BY <1>0, <3>1, <3>2
    <3> QED BY <1>4, <3>3, <3>4 DEF Ascending
  <2> QED BY <1>0, <2>1, <2>2, <2>3, <2>4
<1> QED BY <1>1, <1>2, <1>3, <1>4 DEF both

\* A line of one frame, or of an empty one, or of none.
LEMMA SmallLines ==
    /\ \A f : Ascending(<<f>>) <=>
              \A i, j \in DOMAIN f : i < j /\ f[i] # Silence /\ f[j] # Silence => f[i] < f[j]
    /\ \A f, s : Holds(<<f>>, s) <=> \E i \in DOMAIN f : f[i] = s
    /\ Ascending(<< >>) /\ \A s : ~Holds(<< >>, s)
    /\ Ascending(<<EndOfTrack>>) /\ \A s : ~Holds(<<EndOfTrack>>, s)
<1>1. \A f : DOMAIN <<f>> = {1} /\ <<f>>[1] = f
  OBVIOUS
<1>2. DOMAIN << >> = {} /\ DOMAIN EndOfTrack = {}
  BY DEF EndOfTrack
<1>3. ~(1 < 1)
  OBVIOUS
<1>4. ASSUME NEW f
      PROVE  Ascending(<<f>>) <=>
              \A i, j \in DOMAIN f : i < j /\ f[i] # Silence /\ f[j] # Silence => f[i] < f[j]
  BY <1>1, <1>3, Zenon DEF Ascending
<1>5. ASSUME NEW f, NEW s
      PROVE  Holds(<<f>>, s) <=> \E i \in DOMAIN f : f[i] = s
  BY <1>1, Zenon DEF Holds
<1>6. Ascending(<< >>) /\ \A s : ~Holds(<< >>, s)
  BY <1>2, Zenon DEF Ascending, Holds
<1>7. Ascending(<<EndOfTrack>>) /\ \A s : ~Holds(<<EndOfTrack>>, s)
  BY <1>2, <1>4, <1>5, Zenon
<1> QED BY <1>4, <1>5, <1>6, <1>7, Zenon

-----------------------------------------------------------------------------
(* Cutting keeps the order *)

\* Samples of whole frames, counted from the beginning of the piece.
LEMMA Counting ==
    ASSUME NEW s \in Nat \ {0}, NEW q \in Nat
    PROVE  /\ \A k \in 1..q : \A j \in 1..s : (k - 1) * s + j \in 1..(q * s)
           /\ \A k, l \in 1..q : \A i, j \in 1..s :
                  k < l => (k - 1) * s + i < (l - 1) * s + j
           /\ \A n \in 1..(q * s) : \E k \in 1..q : \E j \in 1..s : n = (k - 1) * s + j
<1>1. ASSUME NEW k \in Int, NEW l \in Int, k <= l PROVE k * s <= l * s
  <2>1. l - k \in Nat /\ (l - k) * s \in Nat
    BY <1>1
  <2>2. (l - k) * s = l * s - k * s
    OBVIOUS
  <2> QED BY <2>1, <2>2
<1>2. ASSUME NEW k \in 1..q, NEW j \in 1..s PROVE (k - 1) * s + j \in 1..(q * s)
  <2>1. k - 1 \in Int /\ 0 <= k - 1 /\ k <= q /\ (k - 1) * s = k * s - s
    OBVIOUS
  <2>2. 0 * s <= (k - 1) * s /\ k * s <= q * s
    BY <1>1, <2>1
  <2>3. 0 * s = 0 /\ (k - 1) * s \in Int /\ k * s \in Int /\ q * s \in Int
    OBVIOUS
  <2> QED BY <2>1, <2>2, <2>3
<1>3. ASSUME NEW k \in 1..q, NEW l \in 1..q, NEW i \in 1..s, NEW j \in 1..s, k < l
      PROVE  (k - 1) * s + i < (l - 1) * s + j
  <2>1. k \in Int /\ l - 1 \in Int /\ k <= l - 1 /\ (k - 1) * s = k * s - s
    BY <1>3
  <2>2. k * s <= (l - 1) * s
    BY <1>1, <2>1
  <2>3. (l - 1) * s \in Int /\ k * s \in Int
    OBVIOUS
  <2> QED BY <2>1, <2>2, <2>3
<1>4. ASSUME NEW n \in 1..(q * s) PROVE \E k \in 1..q : \E j \in 1..s : n = (k - 1) * s + j
  <2> DEFINE d == (n - 1) \div s
             r == (n - 1) % s
  <2>1. n - 1 \in Nat /\ d \in Nat /\ r \in 0..(s - 1) /\ n - 1 = d * s + r /\ q * s \in Int
    <3>1. n - 1 \in Nat /\ q * s \in Int
      OBVIOUS
    <3> QED BY <3>1
  <2> HIDE DEF d, r
  <2>2. d < q
    <3>1. q <= d => q * s <= d * s
      BY <1>1, <2>1
    <3>2. d * s <= n - 1 /\ n <= q * s /\ d * s \in Int
      BY <2>1
    <3> QED BY <2>1, <3>1, <3>2
  <2>3. d + 1 \in 1..q /\ r + 1 \in 1..s
    BY <2>1, <2>2
  <2>4. n = ((d + 1) - 1) * s + (r + 1)
    <3>1. (d + 1) - 1 = d
      BY <2>1
    <3>2. d * s \in Int
      BY <2>1
    <3> QED BY <2>1, <3>1, <3>2
  <2> QED BY <2>3, <2>4
<1> QED BY <1>2, <1>3, <1>4

\* Which samples of the piece a frame has, and which the rest.
LEMMA CutPlaces ==
    ASSUME NEW pcm \in Seq(Int)
    PROVE  LET s == FrameSamples
               q == Len(pcm) \div FrameSamples
               r == Len(pcm) % FrameSamples
           IN  /\ q \in Nat /\ r \in Nat /\ q * s \in Nat /\ DOMAIN pcm = 1..(q * s + r)
               /\ DOMAIN Frames(pcm) = 1..q
               /\ \A k \in 1..q :
                      /\ DOMAIN (Frames(pcm)[k]) = 1..s
                      /\ \A j \in 1..s : Frames(pcm)[k][j] = pcm[(k - 1) * s + j]
               /\ DOMAIN Rest(pcm) = 1..r
               /\ \A j \in 1..r : Rest(pcm)[j] = pcm[q * s + j]
<1> DEFINE s == FrameSamples
           q == Len(pcm) \div FrameSamples
           r == Len(pcm) % FrameSamples
           cut(k) == SubSeq(pcm, (k - 1) * s + 1, k * s)
<1>1. s \in Nat \ {0} /\ Len(pcm) \in Nat /\ DOMAIN pcm = 1..Len(pcm) /\ \A i \in 1..Len(pcm) : pcm[i] \in Int
  BY FrameAssumption, LenProperties
<1>2. q \in Nat /\ r \in Nat /\ r < s /\ q * s \in Nat /\ Len(pcm) = q * s + r
  <2>1. \A x \in Nat : \A f \in Nat \ {0} :
            /\ x \div f \in Nat /\ x % f \in 0..(f - 1) /\ x = (x \div f) * f + (x % f)
            /\ (x \div f) * f \in Nat
    OBVIOUS
  <2>2. q \in Nat /\ r \in 0..(s - 1) /\ Len(pcm) = q * s + r /\ q * s \in Nat
    BY <1>1, <2>1
  <2> HIDE DEF q, r
  <2> QED BY <1>1, <2>2
<1>3. ASSUME NEW k \in 1..q
      PROVE  DOMAIN cut(k) = 1..s /\ \A j \in 1..s : cut(k)[j] = pcm[(k - 1) * s + j]
  <2> DEFINE m == (k - 1) * s + 1
             n == k * s
  <2>1. m \in 1..Len(pcm) /\ n \in 1..Len(pcm) /\ n - m + 1 = s
    BY <1>1, FrameBounds
  <2>2. \A j \in 1..s : m + j - 1 = (k - 1) * s + j
    <3>1. (k - 1) * s \in Int
      BY <1>1
    <3> QED BY <1>1, <3>1
  <2> HIDE DEF m, n
  <2>3. m \in Int /\ n \in Int /\ m <= n /\ \A i \in m .. n : pcm[i] \in Int
    BY <1>1, <2>1
  <2>4. /\ SubSeq(pcm, m, n) \in Seq(Int) /\ Len(SubSeq(pcm, m, n)) = s
        /\ \A j \in 1 .. s : SubSeq(pcm, m, n)[j] = pcm[m + j - 1]
    BY <2>1, <2>3, SubSeqProperties
  <2>5. DOMAIN SubSeq(pcm, m, n) = 1..s
    BY <2>4
  <2>6. cut(k) = SubSeq(pcm, m, n)
    BY DEF m, n
  <2> HIDE DEF cut
  <2> QED BY <2>2, <2>4, <2>5, <2>6
<1> HIDE DEF cut
<1>4. Frames(pcm) = [k \in 1..q |-> cut(k)]
  BY DEF Frames, cut
<1>5. /\ DOMAIN Frames(pcm) = 1..q
      /\ \A k \in 1..q : /\ DOMAIN (Frames(pcm)[k]) = 1..s
                         /\ \A j \in 1..s : Frames(pcm)[k][j] = pcm[(k - 1) * s + j]
  <2> HIDE DEF q, s
  <2>1. DOMAIN Frames(pcm) = 1..q /\ \A k \in 1..q : Frames(pcm)[k] = cut(k)
    BY <1>4
  <2> QED BY <1>3, <2>1, Zenon
<1>6. DOMAIN Rest(pcm) = 1..r /\ \A j \in 1..r : Rest(pcm)[j] = pcm[q * s + j]
  <2> DEFINE n == Len(pcm)
             m == n - r + 1
  <2>0. Rest(pcm) = SubSeq(pcm, m, n)
    BY DEF Rest
  <2>1. n \in Nat /\ m \in Int /\ m = q * s + 1 /\ n - m + 1 = r /\ (m <= n \/ r = 0)
        /\ \A i \in m .. n : pcm[i] \in Int
    <3> HIDE DEF q, r, s
    <3>1. n \in Nat /\ m \in Int /\ m = q * s + 1 /\ n - m + 1 = r /\ (m <= n \/ r = 0)
      BY <1>1, <1>2
    <3>2. \A i \in m .. n : i \in 1..n
      BY <1>2, <3>1
    <3> QED BY <1>1, <3>1, <3>2
  <2>2. \A j \in 1..r : m + j - 1 = q * s + j
    <3> HIDE DEF q, r, s, m
    <3> QED BY <1>2, <2>1
  <2> HIDE DEF q, r, s, m, n
  <2>3. /\ SubSeq(pcm, m, n) \in Seq(Int)
        /\ Len(SubSeq(pcm, m, n)) = IF m <= n THEN n - m + 1 ELSE 0
        /\ \A j \in 1 .. n - m + 1 : SubSeq(pcm, m, n)[j] = pcm[m + j - 1]
    BY <2>1, SubSeqProperties
  <2>4. Len(SubSeq(pcm, m, n)) = r
    BY <1>2, <2>1, <2>3
  <2>5. DOMAIN SubSeq(pcm, m, n) = 1..r
    BY <2>3, <2>4
  <2> QED BY <2>0, <2>1, <2>2, <2>3, <2>5
<1> HIDE DEF q, r, s
<1>7. DOMAIN pcm = 1..(q * s + r)
  BY <1>1, <1>2
<1> QED BY <1>2, <1>5, <1>6, <1>7 DEF q, r, s

\* Cutting an ascending piece gives ascending frames ahead of an ascending rest,
\* which hold what the piece holds.
LEMMA CutKeepsOrder ==
    ASSUME NEW pcm \in Seq(Int), Ascending(<<pcm>>)
    PROVE  /\ Ascending(Frames(pcm)) /\ Ascending(<<Rest(pcm)>>)
           /\ Ahead(Frames(pcm), <<Rest(pcm)>>)
           /\ \A x : Holds(<<pcm>>, x) <=> Holds(Frames(pcm), x) \/ Holds(<<Rest(pcm)>>, x)
<1> DEFINE s == FrameSamples
           q == Len(pcm) \div FrameSamples
           r == Len(pcm) % FrameSamples
           fs == Frames(pcm)
           re == Rest(pcm)
<1>1. /\ q \in Nat /\ r \in Nat /\ q * s \in Nat /\ s \in Nat \ {0} /\ DOMAIN pcm = 1..(q * s + r)
      /\ DOMAIN fs = 1..q
      /\ \A k \in 1..q : DOMAIN (fs[k]) = 1..s
      /\ \A k \in 1..q : \A j \in 1..s : fs[k][j] = pcm[(k - 1) * s + j]
      /\ DOMAIN re = 1..r /\ \A j \in 1..r : re[j] = pcm[q * s + j]
  BY CutPlaces, FrameAssumption
<1>2. /\ \A k \in 1..q : \A j \in 1..s : (k - 1) * s + j \in 1..(q * s)
      /\ \A k, l \in 1..q : \A i, j \in 1..s : k < l => (k - 1) * s + i < (l - 1) * s + j
      /\ \A n \in 1..(q * s) : \E k \in 1..q : \E j \in 1..s : n = (k - 1) * s + j
  BY <1>1, Counting
<1>3. \A i, j \in DOMAIN pcm : i < j /\ pcm[i] # Silence /\ pcm[j] # Silence => pcm[i] < pcm[j]
  BY SmallLines
<1> HIDE DEF s, q, r, fs, re
<1> DEFINE w == q * s
           at(k, j) == (k - 1) * s + j
<1>4. /\ w \in Nat /\ \A j \in 1..r : w + j \in 1..(w + r)
      /\ \A i \in 1..w : i \in 1..(w + r) /\ \A j \in 1..r : i < w + j
      /\ \A i \in 1..(w + r) : i \in 1..w \/ \E j \in 1..r : i = w + j
      /\ \A i, j \in 1..r : i < j => w + i < w + j
  <2>1. w \in Nat /\ r \in Nat
    BY <1>1
  <2> HIDE DEF w
  <2>2. \A i \in 1..(w + r) : i \in 1..w \/ (i - w \in 1..r /\ i = w + (i - w))
    BY <2>1
  <2> QED BY <2>1, <2>2
<1>5. /\ \A k \in 1..q : \A j \in 1..s : at(k, j) \in 1..w /\ fs[k][j] = pcm[at(k, j)]
      /\ \A k, l \in 1..q : \A i, j \in 1..s : k < l \/ (k = l /\ i < j) => at(k, i) < at(l, j)
      /\ \A n \in 1..w : \E k \in 1..q : \E j \in 1..s : n = at(k, j)
  <2>1. ASSUME NEW k \in 1..q, NEW i \in 1..s, NEW j \in 1..s, i < j PROVE at(k, i) < at(k, j)
    <3>1. (k - 1) * s \in Int
      BY <1>1
    <3> QED BY <1>1, <2>1, <3>1
  <2> QED BY <1>1, <1>2, <2>1
<1>6. DOMAIN pcm = 1..(w + r) /\ DOMAIN fs = 1..q /\ (\A k \in 1..q : DOMAIN (fs[k]) = 1..s)
      /\ DOMAIN re = 1..r /\ \A j \in 1..r : re[j] = pcm[w + j]
  BY <1>1
<1> HIDE DEF w, at
<1>7. Ascending(fs)
  <2> SUFFICES ASSUME NEW f \in 1..q, NEW g \in 1..q, NEW i \in 1..s, NEW j \in 1..s,
                      f < g \/ (f = g /\ i < j), fs[f][i] # Silence, fs[g][j] # Silence
               PROVE  fs[f][i] < fs[g][j]
    BY <1>6, Zenon DEF Ascending
  <2>1. /\ fs[f][i] = pcm[at(f, i)] /\ fs[g][j] = pcm[at(g, j)] /\ at(f, i) < at(g, j)
        /\ at(f, i) \in DOMAIN pcm /\ at(g, j) \in DOMAIN pcm
    BY <1>4, <1>5, <1>6
  <2> QED BY <1>3, <2>1
<1>8. Ascending(<<re>>)
  <2>1. ASSUME NEW i \in 1..r, NEW j \in 1..r, i < j, re[i] # Silence, re[j] # Silence
        PROVE  re[i] < re[j]
    <3>1. /\ re[i] = pcm[w + i] /\ re[j] = pcm[w + j] /\ w + i < w + j
          /\ w + i \in DOMAIN pcm /\ w + j \in DOMAIN pcm
      BY <1>4, <1>6, <2>1
    <3> QED BY <1>3, <2>1, <3>1
  <2> QED BY <1>6, <2>1, SmallLines
<1>9. Ahead(fs, <<re>>)
  <2> SUFFICES ASSUME NEW x, NEW y, Holds(fs, x), Holds(<<re>>, y), x # Silence, y # Silence
               PROVE  x < y
    BY DEF Ahead
  <2>1. PICK f \in 1..q : \E i \in 1..s : fs[f][i] = x
    BY <1>6 DEF Holds
  <2>2. PICK i \in 1..s : fs[f][i] = x
    BY <2>1
  <2>3. PICK j \in 1..r : re[j] = y
    BY <1>6, SmallLines
  <2>4. /\ x = pcm[at(f, i)] /\ y = pcm[w + j] /\ at(f, i) < w + j
        /\ at(f, i) \in DOMAIN pcm /\ w + j \in DOMAIN pcm
    BY <1>4, <1>5, <1>6, <2>2, <2>3
  <2> QED BY <1>3, <2>4
<1>10. ASSUME NEW x PROVE Holds(<<pcm>>, x) <=> Holds(fs, x) \/ Holds(<<re>>, x)
  <2>1. ASSUME Holds(<<pcm>>, x) PROVE Holds(fs, x) \/ Holds(<<re>>, x)
    <3>1. PICK n \in DOMAIN pcm : pcm[n] = x
      BY <2>1, SmallLines
    <3>2. CASE n \in 1..w
      <4>1. PICK k \in 1..q : \E j \in 1..s : n = at(k, j)
        BY <1>5, <3>2
      <4>2. PICK j \in 1..s : n = at(k, j)
        BY <4>1
      <4>3. fs[k][j] = x /\ k \in DOMAIN fs /\ j \in DOMAIN (fs[k])
        BY <1>5, <1>6, <3>1, <4>2
      <4> QED BY <4>3 DEF Holds
    <3>3. CASE \E j \in 1..r : n = w + j
      BY <1>6, <3>1, <3>3, SmallLines
    <3> QED BY <1>4, <1>6, <3>1, <3>2, <3>3
  <2>2. ASSUME Holds(fs, x) PROVE Holds(<<pcm>>, x)
    <3>1. PICK k \in 1..q : \E j \in 1..s : fs[k][j] = x
      BY <1>6, <2>2 DEF Holds
    <3>2. PICK j \in 1..s : fs[k][j] = x
      BY <3>1
    <3>3. pcm[at(k, j)] = x /\ at(k, j) \in DOMAIN pcm
      BY <1>4, <1>5, <1>6, <3>2
    <3> QED BY <3>3, SmallLines
  <2>3. ASSUME Holds(<<re>>, x) PROVE Holds(<<pcm>>, x)
    <3>1. PICK j \in 1..r : re[j] = x
      BY <1>6, <2>3, SmallLines
    <3>2. pcm[w + j] = x /\ w + j \in DOMAIN pcm
      BY <1>4, <1>6, <3>1
    <3> QED BY <3>2, SmallLines
  <2> QED BY <2>1, <2>2, <2>3
<1> QED BY <1>7, <1>8, <1>9, <1>10 DEF fs, re

\* Padding the rest adds silence only.
LEMMA PadKeepsOrder ==
    ASSUME NEW pcm \in Seq(Int), Len(pcm) < FrameSamples, Ascending(<<pcm>>)
    PROVE  /\ Ascending(<<Padded(pcm)>>)
           /\ \A x : Holds(<<pcm>>, x) => Holds(<<Padded(pcm)>>, x)
           /\ \A x : Holds(<<Padded(pcm)>>, x) => Holds(<<pcm>>, x) \/ x = Silence
<1> DEFINE pad == [i \in 1..(FrameSamples - Len(pcm)) |-> Silence]
           all == Padded(pcm)
           n == Len(pcm)
<1>1. FrameSamples \in Nat /\ n \in Nat /\ DOMAIN pcm = 1..n
  BY FrameAssumption
<1>2. pad \in Seq(Int) /\ Len(pad) = FrameSamples - Len(pcm) /\ \A i \in DOMAIN pad : pad[i] = Silence
  BY <1>1 DEF Silence
<1>3. DOMAIN pad = 1..Len(pad)
  BY <1>2
<1> HIDE DEF pad
<1>4. /\ all \in Seq(Int) /\ Len(all) = n + Len(pad) /\ DOMAIN all = 1..(n + Len(pad))
      /\ \A i \in 1 .. n + Len(pad) : all[i] = IF i <= n THEN pcm[i] ELSE pad[i - n]
  <2>1. all = pcm \o pad
    BY DEF Padded, pad
  <2>2. /\ pcm \o pad \in Seq(Int) /\ Len(pcm \o pad) = Len(pcm) + Len(pad)
        /\ \A i \in 1 .. Len(pcm) + Len(pad) :
               (pcm \o pad)[i] = IF i <= Len(pcm) THEN pcm[i] ELSE pad[i - Len(pcm)]
    BY <1>2, ConcatProperties
  <2> HIDE DEF all
  <2>3. /\ all \in Seq(Int) /\ Len(all) = n + Len(pad)
        /\ \A i \in 1 .. n + Len(pad) : all[i] = IF i <= n THEN pcm[i] ELSE pad[i - n]
    BY <2>1, <2>2, Zenon
  <2> QED BY <2>3
<1> HIDE DEF all
<1>5. Len(pad) \in Nat
  BY <1>2
<1> HIDE DEF n
<1>6. \A i \in DOMAIN pcm : i \in DOMAIN all /\ all[i] = pcm[i]
  BY <1>1, <1>4, <1>5
<1>7. ASSUME NEW i \in DOMAIN all PROVE i \in DOMAIN pcm \/ all[i] = Silence
  <2>1. CASE i <= n
    BY <1>1, <1>4, <1>5, <2>1
  <2>2. CASE ~(i <= n)
    <3>1. i - n \in DOMAIN pad
      BY <1>1, <1>3, <1>4, <1>5, <2>2
    <3> QED BY <1>2, <1>4, <2>2, <3>1
  <2> QED BY <2>1, <2>2
<1>8. \A i, j \in DOMAIN pcm : i < j /\ pcm[i] # Silence /\ pcm[j] # Silence => pcm[i] < pcm[j]
  BY SmallLines
<1>9. \A i, j \in DOMAIN all : i < j /\ all[i] # Silence /\ all[j] # Silence => all[i] < all[j]
  BY <1>6, <1>7, <1>8
<1>10. Ascending(<<all>>)
  BY <1>9, SmallLines
<1>11. ASSUME NEW x PROVE Holds(<<pcm>>, x) => Holds(<<all>>, x)
  BY <1>6, SmallLines
<1>12. ASSUME NEW x PROVE Holds(<<all>>, x) => Holds(<<pcm>>, x) \/ x = Silence
  BY <1>6, <1>7, SmallLines
<1> QED BY <1>10, <1>11, <1>12 DEF all

\* New samples behind those that wait.
LEMMA ExtendKeepsOrder ==
    ASSUME NEW pcm \in Seq(Int), Ascending(<<pcm>>), NEW n \in Nat, NEW m \in Nat,
           \A i \in DOMAIN pcm : pcm[i] <= m
    PROVE  LET longer == pcm \o [i \in 1..n |-> m + i]
           IN  /\ longer \in Seq(Int) /\ Ascending(<<longer>>)
               /\ \A x : Holds(<<longer>>, x) <=> Holds(<<pcm>>, x) \/ x \in (m + 1)..(m + n)
<1> DEFINE piece == [i \in 1..n |-> m + i]
           all == pcm \o piece
           k == Len(pcm)
<1>1. piece \in Seq(Int) /\ Len(piece) = n /\ \A i \in 1..n : piece[i] = m + i
  OBVIOUS
<1>2. k \in Nat /\ DOMAIN pcm = 1..k /\ \A i \in 1..k : pcm[i] \in Int /\ pcm[i] <= m
  OBVIOUS
<1> HIDE DEF piece
<1>3. /\ all \in Seq(Int) /\ Len(all) = k + n
      /\ \A i \in 1 .. k + n : all[i] = IF i <= k THEN pcm[i] ELSE piece[i - k]
  BY <1>1, ConcatProperties
<1>4. DOMAIN all = 1..(k + n)
  BY <1>3
<1> HIDE DEF all, k
<1>5. \A i \in 1..k : i \in DOMAIN all /\ all[i] = pcm[i] /\ all[i] <= m
  <2>1. \A i \in 1..k : i \in 1..(k + n) /\ i <= k
    BY <1>2
  <2> QED BY <1>2, <1>3, <1>4, <2>1
<1>6. \A i \in 1..n : k + i \in DOMAIN all /\ all[k + i] = m + i
  <2>1. \A i \in 1..n : k + i \in 1..(k + n) /\ ~(k + i <= k) /\ (k + i) - k = i
    BY <1>2
  <2> QED BY <1>1, <1>3, <1>4, <2>1
<1>7. \A i \in DOMAIN all : i \in 1..k \/ (i - k \in 1..n /\ i = k + (i - k))
  BY <1>2, <1>4
<1>8. \A i, j \in 1..k : i < j /\ pcm[i] # Silence /\ pcm[j] # Silence => pcm[i] < pcm[j]
  BY <1>2, SmallLines
<1>9. ASSUME NEW i \in DOMAIN all, NEW j \in DOMAIN all, i < j, all[i] # Silence, all[j] # Silence
      PROVE  all[i] < all[j]
  <2>1. CASE i \in 1..k /\ j \in 1..k
    BY <1>5, <1>8, <1>9, <2>1
  <2>2. CASE i \in 1..k /\ j - k \in 1..n /\ j = k + (j - k)
    <3>1. all[j] = m + (j - k) /\ j - k >= 1 /\ j - k \in Int
      BY <1>6, <2>2
    <3>2. all[i] <= m /\ all[i] \in Int
      BY <1>2, <1>5, <2>2
    <3> QED BY <3>1, <3>2
  <2>3. CASE i - k \in 1..n /\ i = k + (i - k) /\ j - k \in 1..n /\ j = k + (j - k)
    <3>1. all[i] = m + (i - k) /\ all[j] = m + (j - k)
      BY <1>6, <2>3
    <3> QED BY <1>2, <1>9, <2>3, <3>1
  <2>4. ~(i - k \in 1..n /\ i = k + (i - k) /\ j \in 1..k)
    <3>1. i \in 1..(k + n) /\ j \in 1..(k + n)
      BY <1>4
    <3> QED BY <1>2, <1>9, <3>1
  <2> QED BY <1>7, <2>1, <2>2, <2>3, <2>4
<1>10. Ascending(<<all>>)
  BY <1>9, SmallLines
<1>11. ASSUME NEW x PROVE Holds(<<all>>, x) <=> Holds(<<pcm>>, x) \/ x \in (m + 1)..(m + n)
  <2>1. ASSUME Holds(<<all>>, x) PROVE Holds(<<pcm>>, x) \/ x \in (m + 1)..(m + n)
    <3>1. PICK i \in DOMAIN all : all[i] = x
      BY <2>1, SmallLines
    <3>2. CASE i \in 1..k
      BY <1>2, <1>5, <3>1, <3>2, SmallLines
    <3>3. CASE i - k \in 1..n /\ i = k + (i - k)
      BY <1>6, <3>1, <3>3
    <3> QED BY <1>7, <3>2, <3>3
  <2>2. ASSUME Holds(<<pcm>>, x) PROVE Holds(<<all>>, x)
    BY <1>2, <1>5, <2>2, SmallLines
  <2>3. ASSUME x \in (m + 1)..(m + n) PROVE Holds(<<all>>, x)
    <3>1. x - m \in 1..n /\ m + (x - m) = x
      BY <2>3
    <3> QED BY <1>6, <3>1, SmallLines
  <2> QED BY <2>1, <2>2, <2>3
<1> QED BY <1>3, <1>10, <1>11 DEF all, piece

-----------------------------------------------------------------------------
(* The order is kept *)

\* The frames that were returned.
Past == [i \in DOMAIN played |-> played[i].pcm]

\* Four lines, each in order and all of it ahead of the next ones.
Arranged(a, b, c, d) ==
    /\ Ascending(a) /\ Ascending(b) /\ Ascending(c) /\ Ascending(d)
    /\ Ahead(a, b) /\ Ahead(a, c) /\ Ahead(a, d)
    /\ Ahead(b, c) /\ Ahead(b, d)
    /\ Ahead(c, d)

OneHolds(a, b, c, d, s) == Holds(a, s) \/ Holds(b, s) \/ Holds(c, s) \/ Holds(d, s)

\* The invariant: every sample came from the provider, those that came after the
\* last interrupt are still there, and all are in order.
OrderInv ==
    /\ Len(inHand) <= 1
    /\ Arranged(Past, inHand, chunks, <<pending>>)
    /\ \A s : OneHolds(Past, inHand, chunks, <<pending>>, s) => s \in 0..pushed
    /\ \A s \in (silenced + 1)..pushed : OneHolds(Past, inHand, chunks, <<pending>>, s)

\* Lines that hold no others than before, apart from silence, stay arranged; what
\* is in order is what the code has to show.
LEMMA ArrangedKeeps ==
    ASSUME NEW a, NEW b, NEW c, NEW d, NEW a2, NEW b2, NEW c2, NEW d2,
           Arranged(a, b, c, d),
           Ascending(a2), Ascending(b2), Ascending(c2), Ascending(d2),
           \A s : Holds(a2, s) => Holds(a, s) \/ s = Silence,
           \A s : Holds(b2, s) => Holds(b, s) \/ s = Silence,
           \A s : Holds(c2, s) => Holds(c, s) \/ s = Silence,
           \A s : Holds(d2, s) => Holds(d, s) \/ s = Silence
    PROVE  Arranged(a2, b2, c2, d2)
BY Zenon DEF Arranged, Ahead

\* The line that is heard, of its parts.
LEMMA WholeLine ==
    ASSUME PlaceInv
    PROVE  /\ Ascending(Line) <=> Arranged(Past, inHand, chunks, <<pending>>)
           /\ \A s : Holds(Line, s) <=> OneHolds(Past, inHand, chunks, <<pending>>, s)
<1> DEFINE a == Past
           b == inHand
           c == chunks
           d == <<pending>>
<1>1. a \in Seq(Seq(Int)) /\ b \in Seq(Seq(Int)) /\ c \in Seq(Seq(Int)) /\ d \in Seq(Seq(Int))
  <2>1. played \in Seq([pcm : Seq(Int), at : Nat])
    BY DEF PlaceInv
  <2>2. /\ Len(played) \in Nat /\ DOMAIN played = 1..Len(played)
        /\ \A i \in 1..Len(played) : played[i] \in [pcm : Seq(Int), at : Nat]
    BY <2>1, LenProperties, ElementOfSeq
  <2>3. \A i \in 1..Len(played) : played[i].pcm \in Seq(Int)
    BY <2>2
  <2>4. Past \in Seq(Seq(Int))
    <3>1. Past = [i \in 1..Len(played) |-> played[i].pcm]
      BY <2>2, Zenon DEF Past
    <3>2. Past \in [1..Len(played) -> Seq(Int)]
      BY <2>3, <3>1
    <3> QED BY <2>2, <3>2
  <2>5. <<pending>> \in Seq(Seq(Int))
    BY DEF PlaceInv
  <2> QED BY <2>4, <2>5 DEF PlaceInv
<1>2. Line = ((a \o b) \o c) \o d
  BY DEF Line, Past
<1> HIDE DEF a, b, c, d
<1>3. a \o b \in Seq(Seq(Int)) /\ (a \o b) \o c \in Seq(Seq(Int))
  <2>1. a \o b \in Seq(Seq(Int))
    BY <1>1, JoinedPlaces
  <2> QED BY <1>1, <2>1, JoinedPlaces
<1>4. ASSUME NEW s
      PROVE  Holds(Line, s) <=> OneHolds(a, b, c, d, s)
  <2>1. Holds(a \o b, s) <=> Holds(a, s) \/ Holds(b, s)
    BY <1>1, JoinedHolds
  <2>2. Holds((a \o b) \o c, s) <=> Holds(a \o b, s) \/ Holds(c, s)
    BY <1>1, <1>3, JoinedHolds
  <2>3. Holds(((a \o b) \o c) \o d, s) <=> Holds((a \o b) \o c, s) \/ Holds(d, s)
    BY <1>1, <1>3, JoinedHolds
  <2> QED BY <1>2, <2>1, <2>2, <2>3 DEF OneHolds
<1>5. Ascending(Line) <=> Arranged(a, b, c, d)
  <2>1. Ascending(a \o b) <=> Ascending(a) /\ Ascending(b) /\ Ahead(a, b)
    BY <1>1, JoinedAscends
  <2>2. Ascending((a \o b) \o c) <=> Ascending(a \o b) /\ Ascending(c) /\ Ahead(a \o b, c)
    BY <1>1, <1>3, JoinedAscends
  <2>3. Ascending(Line) <=> Ascending((a \o b) \o c) /\ Ascending(d) /\ Ahead((a \o b) \o c, d)
    BY <1>1, <1>2, <1>3, JoinedAscends
  <2>4. Ahead(a \o b, c) <=> Ahead(a, c) /\ Ahead(b, c)
    <3>1. \A s : Holds(a \o b, s) <=> Holds(a, s) \/ Holds(b, s)
      BY <1>1, JoinedHolds
    <3> QED BY <3>1, Zenon DEF Ahead
  <2>5. Ahead((a \o b) \o c, d) <=> Ahead(a, d) /\ Ahead(b, d) /\ Ahead(c, d)
    <3>1. \A s : Holds((a \o b) \o c, s) <=> Holds(a, s) \/ Holds(b, s) \/ Holds(c, s)
      <4> TAKE s
      <4>1. Holds(a \o b, s) <=> Holds(a, s) \/ Holds(b, s)
        BY <1>1, JoinedHolds
      <4>2. Holds((a \o b) \o c, s) <=> Holds(a \o b, s) \/ Holds(c, s)
        BY <1>1, <1>3, JoinedHolds
      <4> QED BY <4>1, <4>2
    <3> QED BY <3>1, Zenon DEF Ahead
  <2> QED BY <2>1, <2>2, <2>3, <2>4, <2>5 DEF Arranged
<1> QED BY <1>4, <1>5 DEF a, b, c, d

LEMMA InitOrder == Init => OrderInv
<1> SUFFICES ASSUME Init PROVE OrderInv
  OBVIOUS
<1>1. /\ inHand = << >> /\ chunks = << >> /\ pending = << >> /\ played = << >>
      /\ pushed = 0 /\ silenced = 0
  BY DEF Init
<1>2. Past = << >>
  BY <1>1 DEF Past
<1>3. << >> = EndOfTrack /\ Len(<< >>) = 0 /\ (0 + 1)..0 = {}
  BY DEF EndOfTrack
<1>4. /\ Ascending(<< >>) /\ \A s : ~Holds(<< >>, s)
      /\ Ascending(<<pending>>) /\ \A s : ~Holds(<<pending>>, s)
  BY <1>1, <1>3, SmallLines
<1>5. Arranged(Past, inHand, chunks, <<pending>>)
  BY <1>1, <1>2, <1>4, Zenon DEF Arranged, Ahead
<1>6. \A s : ~OneHolds(Past, inHand, chunks, <<pending>>, s)
  BY <1>1, <1>2, <1>4, Zenon DEF OneHolds
<1> QED BY <1>1, <1>3, <1>5, <1>6 DEF OrderInv

\* The first of the frames, and those behind it.
LEMMA FirstFrame ==
    ASSUME NEW c \in Seq(Seq(Int)), c # << >>
    PROVE  /\ <<Head(c)>> \in Seq(Seq(Int)) /\ Tail(c) \in Seq(Seq(Int))
           /\ c = <<Head(c)>> \o Tail(c)
<1> DEFINE h == <<Head(c)>>
           t == Tail(c)
<1>1. /\ Head(c) \in Seq(Int) /\ t \in Seq(Seq(Int)) /\ Len(t) = Len(c) - 1
      /\ \A i \in 1 .. Len(t) : t[i] = c[i + 1]
      /\ Len(c) \in Nat /\ Len(c) > 0 /\ Head(c) = c[1]
  OBVIOUS
<1>2. h \in Seq(Seq(Int)) /\ Len(h) = 1 /\ h[1] = Head(c)
  BY <1>1
<1> HIDE DEF h, t
<1>3. /\ h \o t \in Seq(Seq(Int)) /\ DOMAIN h = 1..1 /\ DOMAIN t = 1..Len(t) /\ Len(t) \in Nat
      /\ DOMAIN (h \o t) = 1..(1 + Len(t)) /\ (h \o t)[1] = h[1]
      /\ \A f \in DOMAIN t : (h \o t)[1 + f] = t[f]
  <2>1. /\ h \o t \in Seq(Seq(Int)) /\ DOMAIN h = 1..Len(h) /\ DOMAIN t = 1..Len(t)
        /\ Len(t) \in Nat /\ DOMAIN (h \o t) = 1..(Len(h) + Len(t))
        /\ \A f \in DOMAIN h : (h \o t)[f] = h[f]
        /\ \A f \in DOMAIN t : (h \o t)[Len(h) + f] = t[f]
    BY <1>1, <1>2, JoinedPlaces
  <2>2. 1 \in DOMAIN h
    BY <1>2, <2>1
  <2> QED BY <1>2, <2>1, <2>2
<1>4. Len(h \o t) = Len(c)
  BY <1>1, <1>3
<1>5. ASSUME NEW i \in 1..Len(c) PROVE c[i] = (h \o t)[i]
  <2>1. CASE i = 1
    BY <1>1, <1>2, <1>3, <2>1
  <2>2. CASE i # 1
    <3>1. i - 1 \in 1..Len(t) /\ (i - 1) + 1 = i /\ 1 + (i - 1) = i
      BY <1>1, <2>2
    <3> QED BY <1>1, <1>3, <3>1
  <2> QED BY <2>1, <2>2
<1>6. c = h \o t
  BY <1>3, <1>4, <1>5, SeqEqual
<1> QED BY <1>1, <1>2, <1>6 DEF h, t

\* A piece goes behind all that waits: its frames to the end of chunks, its rest
\* alone behind them.
LEMMA PushOrder ==
    ASSUME OutputInv, OrderInv, NEW n \in 1..MaxSamples, PushPcm(n)
    PROVE  OrderInv'
<1> DEFINE pcm == pending \o [i \in 1..n |-> pushed + i]
           fs == Frames(pcm)
           re == Rest(pcm)
<1>1. /\ chunks' = chunks \o fs /\ pending' = re /\ pushed' = pushed + n
      /\ inHand' = inHand /\ played' = played /\ silenced' = silenced
  BY DEF PushPcm, clock, past
<1>2. /\ pushed \in Nat /\ n \in Nat /\ silenced \in 0..pushed /\ pending \in Seq(Int)
      /\ \A i \in DOMAIN pending : pending[i] <= pushed
  BY BoundsAssumption DEF OutputInv, TypeOK, PlaceInv, SilenceInv
<1>3. /\ pcm \in Seq(Int) /\ Ascending(<<pcm>>)
      /\ \A x : Holds(<<pcm>>, x) <=> Holds(<<pending>>, x) \/ x \in (pushed + 1)..(pushed + n)
  BY <1>2, ExtendKeepsOrder DEF OrderInv, Arranged
<1> HIDE DEF pcm
<1>4. /\ fs \in Seq(Seq(Int)) /\ chunks \in Seq(Seq(Int))
      /\ Ascending(fs) /\ Ascending(<<re>>) /\ Ahead(fs, <<re>>)
      /\ \A x : Holds(<<pcm>>, x) <=> Holds(fs, x) \/ Holds(<<re>>, x)
  BY <1>3, CutFrames, CutKeepsOrder DEF OutputInv, PlaceInv
<1> HIDE DEF fs, re
<1>5. \A x : Holds(chunks \o fs, x) <=> Holds(chunks, x) \/ Holds(fs, x)
  BY <1>4, JoinedHolds
<1>6. Arranged(Past, inHand, chunks, <<pending>>)
  BY DEF OrderInv
<1>7. \A x, y : /\ Holds(Past, x) \/ Holds(inHand, x) \/ Holds(chunks, x)
                /\ Holds(<<pcm>>, y) /\ x # Silence /\ y # Silence
                => x < y
  <2> SUFFICES ASSUME NEW x, NEW y, Holds(Past, x) \/ Holds(inHand, x) \/ Holds(chunks, x),
                      Holds(<<pcm>>, y), x # Silence, y # Silence
               PROVE  x < y
    OBVIOUS
  <2>1. CASE Holds(<<pending>>, y)
    BY <1>6, <2>1, Zenon DEF Arranged, Ahead
  <2>2. CASE y \in (pushed + 1)..(pushed + n)
    <3>1. x \in 0..pushed
      BY DEF OrderInv, OneHolds
    <3> QED BY <1>2, <2>2, <3>1
  <2> QED BY <1>3, <2>1, <2>2
<1>8. Ahead(Past, fs) /\ Ahead(inHand, fs) /\ Ahead(chunks, fs)
  BY <1>4, <1>7, Zenon DEF Ahead
<1>9. Ahead(Past, <<re>>) /\ Ahead(inHand, <<re>>) /\ Ahead(chunks, <<re>>)
  BY <1>4, <1>7, Zenon DEF Ahead
<1>10. Arranged(Past, inHand, chunks \o fs, <<re>>)
  <2>1. Ascending(chunks \o fs)
    BY <1>4, <1>6, <1>8, JoinedAscends DEF Arranged
  <2>2. Ahead(Past, chunks \o fs) /\ Ahead(inHand, chunks \o fs) /\ Ahead(chunks \o fs, <<re>>)
    <3>1. /\ Ahead(Past, chunks) /\ Ahead(inHand, chunks) /\ Ahead(Past, fs) /\ Ahead(inHand, fs)
          /\ Ahead(chunks, <<re>>) /\ Ahead(fs, <<re>>)
      BY <1>4, <1>6, <1>8, <1>9 DEF Arranged
    <3> QED BY <1>5, <3>1, Zenon DEF Ahead
  <2> QED BY <1>4, <1>6, <1>9, <2>1, <2>2 DEF Arranged
<1>11. \A x : OneHolds(Past, inHand, chunks \o fs, <<re>>, x) <=>
                  \/ OneHolds(Past, inHand, chunks, <<pending>>, x)
                  \/ x \in (pushed + 1)..(pushed + n)
  BY <1>3, <1>4, <1>5, Zenon DEF OneHolds
<1>12. \A x : OneHolds(Past, inHand, chunks \o fs, <<re>>, x) => x \in 0..(pushed + n)
  <2>1. \A x : x \in 0..pushed \/ x \in (pushed + 1)..(pushed + n) => x \in 0..(pushed + n)
    BY <1>2
  <2> QED BY <1>11, <2>1, Zenon DEF OrderInv
<1>13. \A x \in (silenced + 1)..(pushed + n) : OneHolds(Past, inHand, chunks \o fs, <<re>>, x)
  <2>1. \A x \in (silenced + 1)..(pushed + n) :
            x \in (silenced + 1)..pushed \/ x \in (pushed + 1)..(pushed + n)
    BY <1>2
  <2> QED BY <1>11, <2>1, Zenon DEF OrderInv
<1>14. Past' = Past /\ Len(inHand') <= 1
  BY <1>1 DEF Past, OrderInv
<1> QED BY <1>1, <1>10, <1>12, <1>13, <1>14 DEF OrderInv

\* An interrupt leaves what was returned and what recv has in hand.
LEMMA InterruptOrder ==
    ASSUME OutputInv, OrderInv, Interrupt
    PROVE  OrderInv'
<1>1. /\ chunks' = << >> /\ pending' = EndOfTrack /\ pushed' = pushed /\ silenced' = pushed
      /\ inHand' = inHand /\ played' = played
  BY DEF Interrupt, EndOfTrack
<1>2. Past' = Past /\ Len(inHand') <= 1
  BY <1>1 DEF Past, OrderInv
<1>3. /\ Ascending(<< >>) /\ \A s : ~Holds(<< >>, s)
      /\ Ascending(<<EndOfTrack>>) /\ \A s : ~Holds(<<EndOfTrack>>, s)
  BY SmallLines
<1>4. Arranged(Past, inHand, << >>, <<EndOfTrack>>)
  BY <1>3, Zenon DEF OrderInv, Arranged, Ahead
<1>5. \A s : OneHolds(Past, inHand, << >>, <<EndOfTrack>>, s) => s \in 0..pushed
  BY <1>3, Zenon DEF OrderInv, OneHolds
<1>6. (pushed + 1)..pushed = {}
  BY DEF OutputInv, TypeOK
<1> QED BY <1>1, <1>2, <1>4, <1>5, <1>6 DEF OrderInv

\* close moves the rest, padded, to the end of chunks.
LEMMA CloseOrder ==
    ASSUME OutputInv, OrderInv, Close
    PROVE  OrderInv'
<1> DEFINE mid == IF pending = << >> THEN << >> ELSE <<Padded(pending)>>
           one == <<EndOfTrack>>
           all == (chunks \o mid) \o one
<1>1. /\ chunks' = all /\ pending' = EndOfTrack /\ pushed' = pushed /\ silenced' = silenced
      /\ inHand' = inHand /\ played' = played
  BY DEF Close, clock, past, EndOfTrack
<1>2. Past' = Past /\ Len(inHand') <= 1
  BY <1>1 DEF Past, OrderInv
<1>3. /\ pending \in Seq(Int) /\ Len(pending) < FrameSamples /\ chunks \in Seq(Seq(Int))
      /\ pushed \in Nat
  BY BoundsAssumption DEF OutputInv, TypeOK, PlaceInv
<1>4. Arranged(Past, inHand, chunks, <<pending>>)
  BY DEF OrderInv
<1>5. /\ Ascending(<< >>) /\ \A s : ~Holds(<< >>, s)
      /\ Ascending(one) /\ \A s : ~Holds(one, s)
  BY SmallLines
<1>6. /\ mid \in Seq(Seq(Int)) /\ Ascending(mid)
      /\ \A x : Holds(<<pending>>, x) => Holds(mid, x)
      /\ \A x : Holds(mid, x) => Holds(<<pending>>, x) \/ x = Silence
  <2>1. CASE pending = << >>
    <3>1. mid = << >> /\ << >> \in Seq(Seq(Int))
      BY <2>1
    <3>2. \A x : ~Holds(<<pending>>, x)
      BY <2>1, <1>5 DEF EndOfTrack
    <3> QED BY <1>5, <3>1, <3>2
  <2>2. CASE pending # << >>
    <3>1. mid = <<Padded(pending)>> /\ <<Padded(pending)>> \in Seq(Seq(Int))
      BY <1>3, <2>2, PadRest
    <3>2. /\ Ascending(<<Padded(pending)>>)
          /\ \A x : Holds(<<pending>>, x) => Holds(<<Padded(pending)>>, x)
          /\ \A x : Holds(<<Padded(pending)>>, x) => Holds(<<pending>>, x) \/ x = Silence
      BY <1>3, <1>4, PadKeepsOrder DEF Arranged
    <3> QED BY <3>1, <3>2, Zenon
  <2> QED BY <2>1, <2>2
<1>7. one \in Seq(Seq(Int))
  BY DEF EndOfTrack
<1> HIDE DEF mid, one
<1>8. chunks \o mid \in Seq(Seq(Int))
  BY <1>3, <1>6, JoinedPlaces
<1>9. \A x : Holds(all, x) <=> Holds(chunks, x) \/ Holds(mid, x)
  <2> TAKE x
  <2>1. Holds(chunks \o mid, x) <=> Holds(chunks, x) \/ Holds(mid, x)
    BY <1>3, <1>6, JoinedHolds
  <2>2. Holds(all, x) <=> Holds(chunks \o mid, x) \/ Holds(one, x)
    BY <1>7, <1>8, JoinedHolds
  <2> QED BY <1>5, <2>1, <2>2
<1>10. Ahead(Past, mid) /\ Ahead(inHand, mid) /\ Ahead(chunks, mid)
  BY <1>4, <1>6, Zenon DEF Arranged, Ahead
<1>11. Ascending(all)
  <2>1. Ascending(chunks \o mid)
    BY <1>3, <1>4, <1>6, <1>10, JoinedAscends DEF Arranged
  <2>2. Ahead(chunks \o mid, one)
    BY <1>5, Zenon DEF Ahead
  <2> QED BY <1>5, <1>7, <1>8, <2>1, <2>2, JoinedAscends
<1> HIDE DEF all
<1>12. Arranged(Past, inHand, all, one)
  <2>1. Ahead(Past, chunks) /\ Ahead(inHand, chunks)
    BY <1>4 DEF Arranged
  <2>2. Ahead(Past, all) /\ Ahead(inHand, all)
    BY <1>9, <1>10, <2>1, Zenon DEF Ahead
  <2>3. Ahead(Past, one) /\ Ahead(inHand, one) /\ Ahead(all, one)
    BY <1>5, Zenon DEF Ahead
  <2> QED BY <1>4, <1>5, <1>11, <2>2, <2>3 DEF Arranged
<1>13. \A x : OneHolds(Past, inHand, chunks, <<pending>>, x) => OneHolds(Past, inHand, all, one, x)
  BY <1>6, <1>9, Zenon DEF OneHolds
<1>14. \A x : OneHolds(Past, inHand, all, one, x) => x \in 0..pushed
  <2>1. Silence \in 0..pushed
    BY <1>3 DEF Silence
  <2>2. \A x : OneHolds(Past, inHand, all, one, x) =>
                   OneHolds(Past, inHand, chunks, <<pending>>, x) \/ x = Silence
    BY <1>5, <1>6, <1>9, Zenon DEF OneHolds
  <2> QED BY <2>1, <2>2, Zenon DEF OrderInv
<1>15. \A x \in (silenced + 1)..pushed : OneHolds(Past, inHand, all, one, x)
  BY <1>13, Zenon DEF OrderInv
<1> QED BY <1>1, <1>2, <1>12, <1>14, <1>15 DEF OrderInv, one

\* The first of the frames goes into the hand of recv, the end of the track is
\* no frame.
LEMMA TakeOrder ==
    ASSUME OutputInv, OrderInv, TakeFrame \/ EndTrack
    PROVE  OrderInv'
<1> DEFINE h == <<Head(chunks)>>
           t == Tail(chunks)
<1>1. /\ inHand = << >> /\ chunks # << >> /\ chunks' = t
      /\ inHand' = h \/ (inHand' = << >> /\ Head(chunks) = EndOfTrack)
      /\ pending' = pending /\ pushed' = pushed /\ silenced' = silenced /\ played' = played
  BY DEF TakeFrame, EndTrack, CanTake, input, past
<1>2. Past' = Past /\ Len(inHand') <= 1
  <2>1. Len(h) = 1 /\ Len(<< >>) = 0 /\ 1 <= 1 /\ 0 <= 1
    OBVIOUS
  <2>2. Past' = Past
    BY <1>1 DEF Past
  <2> HIDE DEF h
  <2>3. CASE inHand' = h
    BY <2>1, <2>2, <2>3
  <2>4. CASE inHand' = << >>
    BY <2>1, <2>2, <2>4
  <2> QED BY <1>1, <2>3, <2>4
<1>3. h \in Seq(Seq(Int)) /\ t \in Seq(Seq(Int)) /\ chunks = h \o t
  BY <1>1, FirstFrame DEF OutputInv, PlaceInv
<1> HIDE DEF t
<1>4. \A x : Holds(chunks, x) <=> Holds(h, x) \/ Holds(t, x)
  <2> HIDE DEF h
  <2>1. \A x : Holds(h \o t, x) <=> Holds(h, x) \/ Holds(t, x)
    BY <1>3, JoinedHolds
  <2> QED BY <1>3, <2>1, Zenon
<1>5. Ascending(h) /\ Ascending(t) /\ Ahead(h, t)
  <2>1. Ascending(chunks)
    BY DEF OrderInv, Arranged
  <2> QED BY <1>3, <2>1, JoinedAscends
<1>6. \A x : ~Holds(inHand, x)
  BY <1>1, SmallLines
<1>7. /\ \A x : Holds(inHand', x) <=> Holds(h, x)
      /\ Ascending(inHand')
  <2>1. CASE inHand' = h
    BY <1>5, <2>1
  <2>2. CASE inHand' = << >> /\ Head(chunks) = EndOfTrack
    <3>1. h = <<EndOfTrack>>
      BY <2>2
    <3> QED BY <2>2, <3>1, SmallLines
  <2> QED BY <1>1, <2>1, <2>2
<1> HIDE DEF h
<1>8. Arranged(Past, inHand', t, <<pending>>)
  <2>1. /\ Ascending(Past) /\ Ascending(<<pending>>) /\ Ahead(Past, <<pending>>)
        /\ Ahead(Past, chunks) /\ Ahead(chunks, <<pending>>)
    BY DEF OrderInv, Arranged
  <2>2. Ahead(Past, inHand') /\ Ahead(Past, t) /\ Ahead(inHand', <<pending>>) /\ Ahead(t, <<pending>>)
    BY <1>4, <1>7, <2>1, Zenon DEF Ahead
  <2>3. Ahead(inHand', t)
    BY <1>5, <1>7, Zenon DEF Ahead
  <2> QED BY <1>5, <1>7, <2>1, <2>2, <2>3 DEF Arranged
<1>9. \A x : OneHolds(Past, inHand', t, <<pending>>, x) <=> OneHolds(Past, inHand, chunks, <<pending>>, x)
  BY <1>4, <1>6, <1>7, Zenon DEF OneHolds
<1> QED BY <1>1, <1>2, <1>8, <1>9 DEF OrderInv

\* A function on 1..n is a sequence of length n.
LEMMA FunctionOnInterval ==
    ASSUME NEW S, NEW n \in Nat, NEW f \in [1..n -> S]
    PROVE  f \in Seq(S) /\ Len(f) = n
OBVIOUS

\* The frame recv returns is the next one that is heard.
LEMMA ReturnOrder ==
    ASSUME OutputInv, OrderInv, ReturnFrame
    PROVE  OrderInv'
<1> DEFINE frame == [pcm |-> Head(inHand), at |-> now]
<1>1. /\ inHand # << >> /\ played' = Append(played, frame) /\ inHand' = << >>
      /\ chunks' = chunks /\ pending' = pending /\ pushed' = pushed /\ silenced' = silenced
  BY DEF ReturnFrame, CanReturn, input
<1>2. inHand \in Seq(Seq(Int)) /\ played \in Seq([pcm : Seq(Int), at : Nat]) /\ now \in Nat
  BY DEF OutputInv, PlaceInv, TypeOK
<1>3. PICK h \in Seq(Int) : inHand = <<h>> /\ Head(inHand) = h
  <2>1. Len(inHand) \in Nat /\ Len(inHand) > 0 /\ Len(inHand) <= 1
    BY <1>1, <1>2 DEF OrderInv
  <2>2. Len(inHand) = 1 /\ Head(inHand) = inHand[1] /\ DOMAIN inHand = 1..1
    <3>1. \A l \in Nat : l > 0 /\ l <= 1 => l = 1
      OBVIOUS
    <3>2. Len(inHand) = 1
      BY <2>1, <3>1, Zenon
    <3>3. DOMAIN inHand = 1..Len(inHand)
      BY <1>2, LenProperties
    <3> QED BY <1>1, <1>2, <3>2, <3>3
  <2>3. Head(inHand) \in Seq(Int)
    <3>1. 1 \in 1..Len(inHand)
      BY <2>1
    <3> QED BY <1>2, <2>2, <3>1, ElementOfSeq
  <2>4. inHand = <<Head(inHand)>>
    BY <1>2, <2>2
  <2> QED BY <2>3, <2>4
<1>4. frame \in [pcm : Seq(Int), at : Nat] /\ frame.pcm = h
  BY <1>2, <1>3
<1> HIDE DEF frame
<1> DEFINE k == Len(played)
<1>5. /\ Len(played') = k + 1 /\ k \in Nat /\ DOMAIN played = 1..k /\ DOMAIN played' = 1..(k + 1)
      /\ \A i \in 1..k : played'[i] = played[i]
      /\ played'[k + 1] = frame
      /\ \A i \in 1..k : played[i] \in [pcm : Seq(Int), at : Nat]
  <2>1. /\ played' \in Seq([pcm : Seq(Int), at : Nat]) /\ Len(played') = k + 1
        /\ \A i \in 1..k : played'[i] = played[i]
        /\ played'[k + 1] = frame
    BY <1>1, <1>2, <1>4, AppendProperties
  <2>2. k \in Nat /\ DOMAIN played = 1..k
    BY <1>2, LenProperties
  <2>3. DOMAIN played' = 1..(k + 1)
    BY <2>1, LenProperties
  <2>4. \A i \in 1..k : played[i] \in [pcm : Seq(Int), at : Nat]
    BY <1>2, ElementOfSeq
  <2> QED BY <2>1, <2>2, <2>3, <2>4
<1> HIDE DEF k
<1>6. Past' = Past \o <<h>> /\ Past \in Seq(Seq(Int)) /\ <<h>> \in Seq(Seq(Int))
  <2>1. /\ Past = [i \in 1..k |-> played[i].pcm]
        /\ Past' = [i \in 1..(k + 1) |-> played'[i].pcm]
    BY <1>5, Zenon DEF Past
  <2>2. \A i \in 1..k : played[i].pcm \in Seq(Int)
    BY <1>5
  <2>3. Past \in Seq(Seq(Int)) /\ Len(Past) = k
    <3>1. Past \in [1..k -> Seq(Int)]
      BY <2>1, <2>2
    <3>2. k \in Nat
      BY <1>5
    <3> QED BY <3>1, <3>2, FunctionOnInterval, Zenon
  <2>4. \A i \in 1..k : Past[i] = played[i].pcm
    BY <2>1
  <2>5. /\ DOMAIN Past' = 1..(k + 1) /\ \A i \in 1..k : Past'[i] = Past[i]
        /\ Past'[k + 1] = h
    <3>1. \A i \in 1..k : i \in 1..(k + 1)
      BY <1>5
    <3>2. k + 1 \in 1..(k + 1)
      BY <1>5
    <3> QED BY <1>4, <1>5, <2>1, <2>4, <3>1, <3>2
  <2>6. /\ Append(Past, h) \in Seq(Seq(Int)) /\ Len(Append(Past, h)) = k + 1
        /\ \A i \in 1..k : Append(Past, h)[i] = Past[i]
        /\ Append(Past, h)[k + 1] = h
    BY <2>3, AppendProperties
  <2>7. Append(Past, h) = [i \in 1..(k + 1) |-> Append(Past, h)[i]]
    <3>1. PICK u \in Seq(Seq(Int)) : u = Append(Past, h) /\ Len(u) = k + 1
      BY <2>6
    <3>2. u \in [1..(k + 1) -> Seq(Int)]
      BY <3>1, LenProperties
    <3>3. u = [i \in 1..(k + 1) |-> u[i]]
      BY <3>2
    <3> QED BY <3>1, <3>3
  <2>8. \A i \in 1..(k + 1) : i \in 1..k \/ i = k + 1
    BY <1>5
  <2>9. \A i \in 1..(k + 1) : Past'[i] = Append(Past, h)[i]
    BY <2>5, <2>6, <2>8
  <2>10. Past' = Append(Past, h)
    BY <2>1, <2>5, <2>7, <2>9
  <2> QED BY <2>3, <2>10
<1>7. \A x : Holds(Past \o <<h>>, x) <=> Holds(Past, x) \/ Holds(inHand, x)
  BY <1>3, <1>6, JoinedHolds
<1>8. /\ Ascending(<< >>) /\ \A x : ~Holds(<< >>, x)
  BY SmallLines
<1>9. Arranged(Past \o <<h>>, << >>, chunks, <<pending>>)
  <2>1. Arranged(Past, inHand, chunks, <<pending>>)
    BY DEF OrderInv
  <2>2. Ascending(Past \o <<h>>)
    BY <1>3, <1>6, <2>1, JoinedAscends DEF Arranged
  <2>3. Ahead(Past \o <<h>>, chunks) /\ Ahead(Past \o <<h>>, <<pending>>)
    BY <1>7, <2>1, Zenon DEF Arranged, Ahead
  <2>4. Ahead(Past \o <<h>>, << >>) /\ Ahead(<< >>, chunks) /\ Ahead(<< >>, <<pending>>)
    BY <1>8, Zenon DEF Ahead
  <2> QED BY <1>8, <2>1, <2>2, <2>3, <2>4 DEF Arranged
<1>10. \A x : OneHolds(Past \o <<h>>, << >>, chunks, <<pending>>, x) <=>
               OneHolds(Past, inHand, chunks, <<pending>>, x)
  BY <1>7, <1>8, Zenon DEF OneHolds
<1>11. Len(<< >>) <= 1
  OBVIOUS
<1> QED BY <1>1, <1>6, <1>9, <1>10, <1>11 DEF OrderInv

\* Neither time nor the sender's start or stop moves a frame.
LEMMA StayOrder ==
    ASSUME OrderInv, Tick \/ SenderStarts \/ SenderStops \/ UNCHANGED vars
    PROVE  OrderInv'
<1>1. /\ inHand' = inHand /\ chunks' = chunks /\ pending' = pending /\ pushed' = pushed
      /\ played' = played /\ silenced' = silenced
  BY DEF Tick, SenderStarts, SenderStops, vars, input, clock, past
<1>2. Past' = Past
  BY <1>1 DEF Past
<1> QED BY <1>1, <1>2 DEF OrderInv

\* However the pieces are cut, and whenever the caller interrupts, the order holds.
THEOREM OrderInvariance == Spec => []OrderInv
<1>1. OutputInv /\ OrderInv /\ [Next]_vars => OrderInv'
  <2> SUFFICES ASSUME OutputInv, OrderInv, [Next]_vars PROVE OrderInv'
    OBVIOUS
  <2>1. ASSUME NEW n \in 1..MaxSamples, PushPcm(n) PROVE OrderInv'
    BY <2>1, PushOrder
  <2>2. CASE Interrupt
    BY <2>2, InterruptOrder
  <2>3. CASE Close
    BY <2>3, CloseOrder
  <2>4. CASE TakeFrame \/ EndTrack
    BY <2>4, TakeOrder
  <2>5. CASE ReturnFrame
    BY <2>5, ReturnOrder
  <2>6. CASE Tick \/ SenderStarts \/ SenderStops \/ UNCHANGED vars
    BY <2>6, StayOrder
  <2> QED BY <2>1, <2>2, <2>3, <2>4, <2>5, <2>6 DEF Next
<1> QED BY <1>1, InitOrder, OutputInvariance, PTL DEF Spec

\* No sample is heard twice or out of order, and none that came after the last
\* interrupt is lost, for frames and pieces of any length.
THEOREM SamplesKeepTheirOrder == Spec => []SpokenInOrder
<1>1. OutputInv /\ OrderInv => SpokenInOrder
  <2>1. OutputInv => PlaceInv
    BY DEF OutputInv
  <2> QED BY <2>1, WholeLine DEF OrderInv, SpokenInOrder
<1> QED BY <1>1, OutputInvariance, OrderInvariance, PTL

-----------------------------------------------------------------------------
(* A track ends after everything else *)

Unmarked(line) == \A i \in DOMAIN line : line[i] # EndOfTrack

Marked(line) == line # << >> /\ \A i \in DOMAIN line : line[i] = EndOfTrack <=> i = Len(line)

\* The invariant: an open track has no end marker, a closed one has one behind
\* all frames until recv meets it.
EndInv ==
    /\ closed => pending = << >>
    /\ ~closed => sender # "ended" /\ Unmarked(chunks)
    /\ closed /\ sender # "ended" => Marked(chunks)
    /\ sender = "ended" => chunks = << >> /\ inHand = << >>

\* Joined lines have a marker only where one of them has.
LEMMA UnmarkedJoined ==
    ASSUME NEW p \in Seq(Seq(Int)), NEW q \in Seq(Seq(Int)), Unmarked(p), Unmarked(q)
    PROVE  p \o q \in Seq(Seq(Int)) /\ Unmarked(p \o q)
<1> SUFFICES ASSUME NEW i \in DOMAIN (p \o q) PROVE (p \o q)[i] # EndOfTrack
  BY JoinedPlaces DEF Unmarked
<1>1. CASE \E k \in DOMAIN p : (p \o q)[i] = p[k]
  BY <1>1 DEF Unmarked
<1>2. CASE \E k \in DOMAIN q : (p \o q)[i] = q[k]
  BY <1>2 DEF Unmarked
<1> QED BY <1>1, <1>2, ConcatElements

\* What has the length of a frame is not the marker.
LEMMA FramesUnmarked ==
    ASSUME NEW line, \A i \in DOMAIN line : Len(line[i]) = FrameSamples
    PROVE  Unmarked(line)
<1>1. Len(EndOfTrack) = 0
  BY DEF EndOfTrack
<1> QED BY <1>1, FrameAssumption DEF Unmarked

\* The marker behind frames.
LEMMA MarkedJoined ==
    ASSUME NEW p \in Seq(Seq(Int)), Unmarked(p)
    PROVE  Marked(p \o <<EndOfTrack>>)
<1> DEFINE one  == <<EndOfTrack>>
           both == p \o one
           n    == Len(p)
<1>1. one \in Seq(Seq(Int)) /\ Len(one) = 1 /\ one[1] = EndOfTrack
  BY DEF EndOfTrack
<1> HIDE DEF one
<1>2. /\ both \in Seq(Seq(Int)) /\ Len(both) = n + 1 /\ n \in Nat
      /\ \A i \in 1 .. n + 1 : both[i] = IF i <= n THEN p[i] ELSE one[i - n]
  <2>1. /\ both \in Seq(Seq(Int)) /\ Len(both) = Len(p) + Len(one)
        /\ \A i \in 1 .. Len(p) + Len(one) : both[i] = IF i <= Len(p) THEN p[i] ELSE one[i - Len(p)]
    BY <1>1, ConcatProperties
  <2>2. n \in Nat
    BY LenProperties
  <2>3. Len(p) + Len(one) = n + 1
    BY <1>1
  <2> HIDE DEF both
  <2> QED BY <2>1, <2>2, <2>3
<1>3. DOMAIN both = 1..(n + 1) /\ DOMAIN p = 1..n
  BY <1>2, LenProperties
<1> HIDE DEF both, n
<1>4. ASSUME NEW i \in 1..n PROVE both[i] # EndOfTrack /\ i # n + 1
  <2>1. i \in 1..(n + 1) /\ i <= n /\ i # n + 1
    BY <1>2
  <2>2. both[i] = p[i] /\ i \in DOMAIN p
    BY <1>2, <1>3, <2>1
  <2> QED BY <2>1, <2>2, Zenon DEF Unmarked
<1>5. both[n + 1] = EndOfTrack
  <2>1. n + 1 \in 1..(n + 1) /\ ~(n + 1 <= n) /\ (n + 1) - n = 1
    BY <1>2
  <2> QED BY <1>1, <1>2, <2>1
<1>6. \A i \in 1..(n + 1) : i \in 1..n \/ i = n + 1
  BY <1>2
<1>7. both # << >>
  BY <1>2
<1>8. Marked(both)
  BY <1>2, <1>3, <1>4, <1>5, <1>6, <1>7 DEF Marked
<1> QED BY <1>8 DEF both, one

\* Behind its head a marked line is still marked, or nothing.
LEMMA MarkedTail ==
    ASSUME NEW line \in Seq(Seq(Int)), Marked(line)
    PROVE  /\ Head(line) = EndOfTrack => Tail(line) = << >>
           /\ Head(line) # EndOfTrack => Marked(Tail(line))
<1> DEFINE rest == Tail(line)
           n    == Len(line)
<1>1. /\ n \in Nat /\ n > 0 /\ DOMAIN line = 1..n /\ Head(line) = line[1]
      /\ rest \in Seq(Seq(Int)) /\ Len(rest) = n - 1
      /\ \A i \in 1..(n - 1) : rest[i] = line[i + 1]
  <2>1. line # << >>
    BY DEF Marked
  <2>2. n \in Nat /\ n > 0 /\ DOMAIN line = 1..n /\ Head(line) = line[1]
    BY <2>1
  <2> QED BY <2>1, <2>2, HeadTailProperties
<1>2. DOMAIN rest = 1..(n - 1)
  BY <1>1, LenProperties
<1>3. \A i \in 1..n : line[i] = EndOfTrack <=> i = n
  BY <1>1 DEF Marked
<1> HIDE DEF rest
<1>4. rest = << >> <=> Len(rest) = 0
  BY <1>1, EmptySeq
<1> HIDE DEF n
<1>5. 1 \in 1..n
  BY <1>1
<1>6. CASE Head(line) = EndOfTrack
  <2>1. n = 1
    BY <1>1, <1>3, <1>5, <1>6
  <2>2. Len(rest) = 0
    BY <1>1, <2>1
  <2> QED BY <1>4, <1>6, <2>2 DEF rest
<1>7. CASE Head(line) # EndOfTrack
  <2>1. n # 1
    BY <1>1, <1>3, <1>5, <1>7
  <2>2. Len(rest) # 0 /\ n - 1 \in Nat
    BY <1>1, <2>1
  <2>3. \A i \in 1..(n - 1) : i + 1 \in 1..n /\ (i + 1 = n <=> i = n - 1)
    BY <1>1
  <2>4. \A i \in 1..(n - 1) : rest[i] = EndOfTrack <=> i = n - 1
    BY <1>1, <1>3, <2>3
  <2>5. Marked(rest)
    BY <1>1, <1>2, <1>4, <2>2, <2>4 DEF Marked
  <2> QED BY <1>7, <2>5 DEF rest
<1> QED BY <1>6, <1>7

LEMMA InitEnd == Init => EndInv
BY DEF Init, EndInv, Unmarked

LEMMA PushEnd ==
    ASSUME OutputInv, EndInv, NEW n \in 1..MaxSamples, PushPcm(n)
    PROVE  EndInv'
<1> DEFINE pcm == pending \o [i \in 1..n |-> pushed + i]
           more == Frames(pcm)
<1>1. ~closed /\ closed' = closed /\ sender' = sender /\ chunks' = chunks \o more
  BY DEF PushPcm, clock
<1>2. pcm \in Seq(Int)
  <2>1. pending \in Seq(Int) /\ pushed \in Int
    BY DEF OutputInv, TypeOK, PlaceInv
  <2>2. [i \in 1..n |-> pushed + i] \in Seq(Int)
    BY <2>1
  <2> QED BY <2>1, <2>2, ConcatProperties
<1> HIDE DEF pcm
<1>3. more \in Seq(Seq(Int)) /\ Unmarked(more)
  BY <1>2, CutFrames, FramesUnmarked
<1>4. chunks \in Seq(Seq(Int)) /\ Unmarked(chunks) /\ sender # "ended"
  BY <1>1 DEF OutputInv, PlaceInv, EndInv
<1> HIDE DEF more
<1>5. Unmarked(chunks \o more)
  BY <1>3, <1>4, UnmarkedJoined
<1> QED BY <1>1, <1>4, <1>5 DEF EndInv

\* An interrupt empties the queue while there is no marker in it.
LEMMA InterruptEnd ==
    ASSUME EndInv, Interrupt
    PROVE  EndInv'
<1>1. ~closed /\ closed' = closed /\ sender' = sender /\ chunks' = << >>
  BY DEF Interrupt
<1>2. Unmarked(<< >>)
  BY DEF Unmarked
<1> QED BY <1>1, <1>2 DEF EndInv

\* close puts the marker behind the padded rest.
LEMMA CloseEnd ==
    ASSUME OutputInv, EndInv, Close
    PROVE  EndInv'
<1> DEFINE mid == IF pending = << >> THEN << >> ELSE <<Padded(pending)>>
<1>1. /\ closed' = TRUE /\ pending' = << >> /\ sender' = sender
      /\ chunks' = (chunks \o mid) \o <<EndOfTrack>>
  BY DEF Close, clock
<1>2. chunks \in Seq(Seq(Int)) /\ Unmarked(chunks) /\ sender # "ended"
  BY DEF OutputInv, PlaceInv, EndInv, Close
<1>3. mid \in Seq(Seq(Int)) /\ Unmarked(mid)
  <2>1. CASE pending = << >>
    <3>1. mid = << >> /\ << >> \in Seq(Seq(Int))
      BY <2>1
    <3> QED BY <3>1 DEF Unmarked
  <2>2. CASE pending # << >>
    <3>1. Padded(pending) \in Seq(Int) /\ Len(Padded(pending)) = FrameSamples
      BY <2>2, PadRest DEF OutputInv, PlaceInv, TypeOK
    <3>2. PICK f \in Seq(Int) : f = Padded(pending) /\ Len(f) = FrameSamples
      BY <3>1
    <3>3. <<f>> \in Seq(Seq(Int)) /\ \A i \in DOMAIN <<f>> : Len(<<f>>[i]) = FrameSamples
      BY <3>2
    <3>4. Unmarked(<<f>>)
      BY <3>3, FramesUnmarked
    <3>5. mid = <<f>>
      BY <2>2, <3>2
    <3> QED BY <3>3, <3>4, <3>5
  <2> QED BY <2>1, <2>2
<1> HIDE DEF mid
<1>4. chunks \o mid \in Seq(Seq(Int)) /\ Unmarked(chunks \o mid)
  BY <1>2, <1>3, UnmarkedJoined
<1>5. Marked((chunks \o mid) \o <<EndOfTrack>>)
  BY <1>4, MarkedJoined
<1> QED BY <1>1, <1>2, <1>5 DEF EndInv

\* recv meets the marker only as the last of the queue, with nothing in hand.
LEMMA TakeEnd ==
    ASSUME OutputInv, EndInv, TakeFrame \/ EndTrack
    PROVE  EndInv'
<1>1. /\ sender = "running" /\ inHand = << >> /\ chunks # << >> /\ chunks' = Tail(chunks)
      /\ closed' = closed /\ pending' = pending
  BY DEF TakeFrame, EndTrack, CanTake, input
<1>2. chunks \in Seq(Seq(Int))
  BY DEF OutputInv, PlaceInv
<1>3. CASE ~closed
  <2>1. /\ Unmarked(chunks) /\ 1 \in DOMAIN chunks /\ Head(chunks) = chunks[1]
        /\ \A i \in DOMAIN Tail(chunks) : \E k \in DOMAIN chunks : Tail(chunks)[i] = chunks[k]
    BY <1>1, <1>3, TailElements DEF EndInv, OutputInv
  <2>2. Unmarked(Tail(chunks))
    BY <2>1, Zenon DEF Unmarked
  <2>3. Head(chunks) # EndOfTrack
    BY <2>1 DEF Unmarked
  <2>4. sender' = sender
    BY <2>3 DEF TakeFrame, EndTrack
  <2> QED BY <1>1, <1>3, <2>2, <2>4 DEF EndInv
<1>4. CASE closed
  <2>1. Marked(chunks) /\ pending = << >>
    BY <1>1, <1>4 DEF EndInv
  <2>2. CASE TakeFrame
    <3>1. Head(chunks) # EndOfTrack /\ sender' = sender
      BY <2>2 DEF TakeFrame
    <3>2. Marked(Tail(chunks))
      BY <1>2, <2>1, <3>1, MarkedTail
    <3> QED BY <1>1, <1>4, <2>1, <3>1, <3>2 DEF EndInv
  <2>3. CASE EndTrack
    <3>1. Head(chunks) = EndOfTrack /\ sender' = "ended" /\ inHand' = inHand
      BY <2>3 DEF EndTrack
    <3>2. Tail(chunks) = << >>
      BY <1>2, <2>1, <3>1, MarkedTail
    <3> QED BY <1>1, <1>4, <2>1, <3>1, <3>2 DEF EndInv
  <2> QED BY <2>2, <2>3
<1> QED BY <1>3, <1>4

LEMMA OtherEnd ==
    ASSUME EndInv, ReturnFrame \/ SenderStarts \/ SenderStops \/ Tick \/ UNCHANGED vars
    PROVE  EndInv'
<1>1. closed' = closed /\ pending' = pending /\ chunks' = chunks
  BY DEF ReturnFrame, SenderStarts, SenderStops, Tick, vars, input
<1>2. \/ sender' = sender /\ inHand' = inHand
      \/ sender # "ended" /\ sender' # "ended"
  BY DEF ReturnFrame, CanReturn, SenderStarts, SenderStops, Tick, vars, clock
<1> QED BY <1>1, <1>2 DEF EndInv

\* The end of a track is behind everything that was pushed.
THEOREM EndInvariance == Spec => []EndInv
<1>1. OutputInv /\ EndInv /\ [Next]_vars => EndInv'
  <2> SUFFICES ASSUME OutputInv, EndInv, [Next]_vars PROVE EndInv'
    OBVIOUS
  <2>1. ASSUME NEW n \in 1..MaxSamples, PushPcm(n) PROVE EndInv'
    BY <2>1, PushEnd
  <2>2. CASE Interrupt
    BY <2>2, InterruptEnd
  <2>3. CASE Close
    BY <2>3, CloseEnd
  <2>4. CASE TakeFrame \/ EndTrack
    BY <2>4, TakeEnd
  <2>5. CASE ReturnFrame \/ SenderStarts \/ SenderStops \/ Tick \/ UNCHANGED vars
    BY <2>5, OtherEnd
  <2> QED BY <2>1, <2>2, <2>3, <2>4, <2>5 DEF Next
<1> QED BY <1>1, InitEnd, OutputInvariance, PTL DEF Spec

\* recv raises only when it has returned everything: the safety half of TrackEnds,
\* for frames and pieces of any length.
THEOREM TracksEndPlayed == Spec => []EndsPlayed
<1>1. EndInv => EndsPlayed
  BY DEF EndInv, EndsPlayed, NothingLeft
<1> QED BY <1>1, EndInvariance, PTL

=============================================================================
