--------------------------- MODULE MCScreenInput ---------------------------
(***************************************************************************)
(* Profiles for the model checker, each on its own.  A tap is half a burst *)
(* and a swipe a tap with a move in between, so neither has a profile.     *)
(***************************************************************************)
EXTENDS ScreenInput

CONSTANTS k1, k2

With(a, b, fire, look) ==
  (k1 :> a) @@ (k2 :> b) @@ (Fire :> fire) @@ (Look :> look)

MCSlot == Trigger \cup {Stick, Look}

MCProfiles ==
  {With("hidKey", "none", "hold", TRUE), With("stick", "stick", "none", FALSE),
   With("rapid", "burst", "none", FALSE)}

=============================================================================
