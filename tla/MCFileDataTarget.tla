------------------------- MODULE MCFileDataTarget -------------------------
(* Model-checking instance of FileDataTarget: images of up to three bytes, *)
(* reads at offsets inside, at and past the end of every image, of zero to *)
(* three bytes, so that reads end inside, at and beyond the end of file.   *)
EXTENDS FileDataTarget

MC_Addrs == 0 .. 4
MC_Requests == 0 .. 3
=============================================================================
