---------------------------- MODULE MCEvidenceRuns ----------------------------
(* One review launch beside one recorder.  Others move twice around a       *)
(* launch; a recorder reads little that they change, one move is enough.    *)
EXTENDS EvidenceRuns

CONSTANTS l1, c1

OneMoveBesideARecorder == run[c1].pc # "idle" => moves <= 1
NextQuestion == OneMoveBesideARecorder'
================================================================================
