------------------------ MODULE MCVerificationDocuments ------------------------
(* VerificationDocuments on a small instance. *)
EXTENDS VerificationDocuments

CONSTANTS r1, r2

Row(r, c, s) == [runner |-> r, check |-> c, status |-> s]

\* One runner's selfie, the oldest row; another runner verified before the sides
\* of an ID were labelled.
EarlierRows == <<Row(r2, "selfie", "approved"), Row(r1, "unlabelled", "approved"),
                 Row(r1, "unlabelled", "approved"), Row(r1, "selfie", "approved")>>
================================================================================
