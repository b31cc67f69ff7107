----------------------------- MODULE MCSlideshow -----------------------------
(* Two directories on the share: two photos in one, a video in the other.   *)
EXTENDS Slideshow

CONSTANTS A, B, p1, p2, v1

MCDirOf == [p \in Paths |-> IF p = v1 THEN B ELSE A]
MCVideos == Paths \cap {v1}
=============================================================================
