----------------------------- MODULE DumpOrder -----------------------------
(***************************************************************************)
(* What the threads of a frame-mode run of tools/drmtest.c promise, without *)
(* locks, wake-ups or buffers: frames are published one after the other,    *)
(* and the consumer goes through them in order, dumping a frame only after  *)
(* it was published and none twice.  It may pass over a frame (a timeout)   *)
(* and may stop early (a failure).                                          *)
(***************************************************************************)
EXTENDS Naturals

CONSTANT Num
VARIABLES published, next, dumped
vars == <<published, next, dumped>>

Init == published = {} /\ next = 0 /\ dumped = {}

\* The main thread makes the next frame available.
Publish == \E f \in 0 .. Num - 1 :
             /\ published = 0 .. f - 1
             /\ published' = published \cup {f}
             /\ UNCHANGED <<next, dumped>>

\* The consumer dumps the frame it is at, which is published.
Dump == /\ next \in published
        /\ dumped' = dumped \cup {next}
        /\ next' = next + 1
        /\ UNCHANGED published

\* The consumer gives a frame up.
Skip == /\ next < Num
        /\ next' = next + 1
        /\ UNCHANGED <<published, dumped>>

Next == Publish \/ Dump \/ Skip
Spec == Init /\ [][Next]_vars
=============================================================================
