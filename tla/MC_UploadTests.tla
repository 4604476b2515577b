--------------------------- MODULE MC_UploadTests ---------------------------
(* UploadTests with the bodies of the tests, for TLC. *)
EXTENDS UploadTests

MCBodies == {Test[s].req : s \in Scenarios} \cup {Test[s].resp : s \in Scenarios}
=============================================================================
