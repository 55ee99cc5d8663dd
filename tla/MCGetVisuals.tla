---------------------------- MODULE MCGetVisuals ----------------------------
(* Model-checking instance of GetVisuals. *)
EXTENDS GetVisuals, TLC

\* What the detector registers.
MCUploads == {[type |-> "image", subtype |-> "jpg"],
              [type |-> "video", subtype |-> "avi"]}

\* Requests without parameters, for one FLV video or none, for one image, for
\* images that is refused, of a type that is not known, and for a number of
\* videos that is none.
Request(t, s, n) == [type |-> t, subtype |-> s, ammount |-> n]
MCRequests == {Request(Unset, Unset, Missing),
               Request("video", "flv", 1),
               Request("video", "flv", 0),
               Request("image", "jpg", 1),
               Request("image", Unset, 1),
               Request("sound", "flv", 1),
               Request("video", "flv", -2)}

Symmetry == Permutations(Visual) \cup Permutations(Client)
=============================================================================
