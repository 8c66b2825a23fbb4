---------------------------- MODULE MCTrackerFile ----------------------------
(* Three instances and two groups.                                           *)
EXTENDS TrackerFile

MCInstanceIDs == 1..3
MCGroupIDs    == 1..2
=============================================================================
