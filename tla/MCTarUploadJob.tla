---------------------------- MODULE MCTarUploadJob ----------------------------
(* Three objects on pages of up to two; the second one may be skippable. *)
EXTENDS TarUploadJob

MCSkippable == {o \in Objects : o = 2}
=============================================================================
