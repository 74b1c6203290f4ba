------------------------------- MODULE MCJobs -------------------------------
(* Instances of Jobs for TLC: which jobs there are and what runs them.     *)
EXTENDS Jobs

CONSTANTS j1, j2

\* Two requests for the same thing, as a double click makes them.
OneEntity == [j \in {j1, j2} |-> "book"]
TwoBooks  == [j \in {j1, j2} |-> IF j = j1 THEN "book" ELSE "other"]

BothTranscribe == [j \in {j1, j2} |-> "transcribe"]
DownloadAndLink == [j \in {j1, j2} |-> IF j = j1 THEN "download" ELSE "link"]
ExtractAndEmbed == [j \in {j1, j2} |-> IF j = j1 THEN "extract" ELSE "eager"]
=============================================================================
