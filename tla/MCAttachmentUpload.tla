------------------------- MODULE MCAttachmentUpload -------------------------
(* Two contents that are accepted, and one that each check refuses.        *)
EXTENDS AttachmentUpload

CONSTANTS a1, a2, u1, u2, r1, d1, w1, good, other, alien, wrong
=============================================================================
