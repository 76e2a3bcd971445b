--------------------------- MODULE MCPublishLoop ---------------------------
(* Instances of the publish loop for TLC.                                  *)
EXTENDS PublishLoop
=============================================================================
