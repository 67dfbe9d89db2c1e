---------------------------- MODULE StreamOrder ----------------------------
(***************************************************************************)
(* What a stream-mode run of tools/drmtest.c promises, without locks,      *)
(* wake-ups, buffers or hardware: one stream after the other, and one      *)
(* round after the other, the frames of a stream are published in order    *)
(* and consumed in order, each after it was published and none passed      *)
(* over, and a stream is left only when the digest of its dumps in this    *)
(* round has been taken.  The run may stop early (a frame that could not   *)
(* be set), with a consumer that stops where it is.                        *)
(***************************************************************************)
EXTENDS Naturals

CONSTANTS NumStreams, NumFrames, Recycle
VARIABLES
  round, stream,    \* the stream that is run, in which round
  published, next,  \* how many of its frames are published, and consumed
  consumer,         \* "none", "busy" or "over"
  digest            \* the round of the last digest of each stream
vars == <<round, stream, published, next, consumer, digest>>

Streams == 0 .. NumStreams - 1

Init == /\ round = 1 /\ stream = 0 /\ published = 0 /\ next = 0
        /\ consumer = "none" /\ digest = [x \in Streams |-> 0]

\* A stream gets its consumer.
Start == /\ consumer = "none" /\ stream < NumStreams
         /\ consumer' = "busy" /\ published' = 0 /\ next' = 0
         /\ UNCHANGED <<round, stream, digest>>

Publish == /\ consumer = "busy" /\ published < NumFrames
           /\ published' = published + 1
           /\ UNCHANGED <<round, stream, next, consumer, digest>>

Dump == /\ consumer = "busy" /\ next < published
        /\ next' = next + 1
        /\ UNCHANGED <<round, stream, published, consumer, digest>>

\* The last frame has been consumed.
Finish == /\ consumer = "busy" /\ next = NumFrames
          /\ consumer' = "over" /\ digest' = [digest EXCEPT ![stream] = round]
          /\ UNCHANGED <<round, stream, published, next>>

\* The consumer is cancelled; nobody goes on from here.
Stop == /\ consumer = "busy" /\ published < NumFrames
        /\ consumer' = "over"
        /\ UNCHANGED <<round, stream, published, next, digest>>

Join == /\ consumer = "over" /\ digest[stream] = round
        /\ consumer' = "none" /\ stream' = stream + 1
        /\ UNCHANGED <<round, published, next, digest>>

\* Every stream has its digest of this round: the round is reported, the next begins.
Check == /\ consumer = "none" /\ stream = NumStreams /\ round < Recycle
         /\ \A x \in Streams : digest[x] = round
         /\ round' = round + 1 /\ stream' = 0
         /\ UNCHANGED <<published, next, consumer, digest>>

Next == Start \/ Publish \/ Dump \/ Finish \/ Stop \/ Join \/ Check
Spec == Init /\ [][Next]_vars
=============================================================================
