-------------------------- MODULE MCCaptureStore --------------------------
(***************************************************************************)
(* Two processes over one root and a third without a capture directory,    *)
(* two export_log calls to whichever of them, and room for two captures or *)
(* three bytes, of which an entry of the directory's owner may take some.  *)
(***************************************************************************)
EXTENDS CaptureStore, TLC

NameSymmetry == Permutations(PortableNames)

=============================================================================
