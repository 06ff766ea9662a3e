--------------------------- MODULE MCSensorReport ---------------------------
(* Reports of two bins, and a PM word for `read`.  The values cross a byte *)
(* boundary in both bytes.                                                 *)
EXTENDS SensorReport
MCWords  == {"PM2_5"}
MCBins   == {"DB0_3", "DB10"}
MCValues == {0, 255, 256}
=============================================================================
