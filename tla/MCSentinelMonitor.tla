------------------------- MODULE MCSentinelMonitor -------------------------
(* Values for model-checking SentinelMonitor.                              *)
EXTENDS SentinelMonitor

CONSTANTS s1, s2, s3, m1, m2

MCSentinels2 == {s1, s2}
MCSentinels3 == {s1, s2, s3}
MCUrls2 == <<s1, s2>>
MCUrls3 == <<s1, s2, s3>>
MCMasters == {m1, m2}

=============================================================================
