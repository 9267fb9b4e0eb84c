------------------------ MODULE MCDownloadHeartbeats ------------------------
(* Model values for DownloadHeartbeats.                                    *)
EXTENDS DownloadHeartbeats

(* Days 0..2: a range can then end before Today, so the day after --to    *)
(* may hold heartbeats.                                                    *)
MCToday == 2

(* Days with no heartbeats and with some; one is enough to tell them       *)
(* apart, two let a day's rows be written in order.                        *)
MCMaxPerDay == 1

(* A second launch meets the file the first one left.                      *)
MCMaxLaunches == 2
=============================================================================
