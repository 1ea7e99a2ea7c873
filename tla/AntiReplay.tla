------------------------------ MODULE AntiReplay ------------------------------
(***************************************************************************)
(* The sliding window of DTLS record sequence numbers                      *)
(* (src/tls/record/src/rec_anti_replay.c).  The 64-bit word `window' is    *)
(* the set of its bits that are 1: bit b stands for sequence number        *)
(* top - b, so a left shift adds to every member and drops what leaves     *)
(* the word.                                                               *)
(***************************************************************************)
EXTENDS Naturals

CONSTANT WindowSize   \* REC_SLID_WINDOW_SIZE, 64 in the code

ASSUME WindowSizeAssumption == WindowSize \in Nat \ {0}

RecSlidWindow == [top : Nat, window : SUBSET (0 .. WindowSize - 1)]

\* RecAntiReplayReset
RecAntiReplayReset == [top |-> 0, window |-> {}]

\* TRUE: the sequence number is a duplicate or left of the window.
RecAntiReplayCheck(w, seq) ==
  /\ seq <= w.top
  /\ \/ w.top - seq >= WindowSize
     \/ (w.top - seq) \in w.window

\* The bits of a window word after a left shift, truncated to its width.
ShiftLeft(bits, n) == {b \in 0 .. WindowSize - 1 : b >= n /\ (b - n) \in bits}

\* Mutant: a new highest number starts a new window instead of shifting the old one.
UpdateForgets(w, seq) ==
  IF seq + WindowSize <= w.top THEN w
  ELSE IF seq <= w.top THEN [w EXCEPT !.window = @ \cup {w.top - seq}]
  ELSE [top |-> seq, window |-> {0}]

RecAntiReplayUpdate(w, seq) ==
  IF seq + WindowSize <= w.top THEN w
  ELSE IF seq <= w.top THEN [w EXCEPT !.window = @ \cup {w.top - seq}]
  ELSE [top |-> seq,
        window |-> IF seq - w.top >= WindowSize THEN {0}
                   ELSE ShiftLeft(w.window, seq - w.top) \cup {0}]
===============================================================================
