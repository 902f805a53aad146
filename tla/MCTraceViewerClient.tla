------------------------ MODULE MCTraceViewerClient -------------------------
(* Values for TraceViewerClient: two traces and an uploaded file. *)
EXTENDS TraceViewerClient

CONSTANTS urlA, urlB, noUrl

MCUrls == {urlA, urlB}
MCEnd == [u \in MCUrls \cup {noUrl} |-> IF u = urlA THEN 160 ELSE 64]

(* The URL of the second trace has a viewport, or none has. *)
MCUrlView == [u \in MCUrls |-> IF u = urlB THEN <<8, 12>> ELSE <<>>]
MCNoUrlView == [u \in MCUrls |-> <<>>]

(* They lie so that the ranges around them are on the grid of times. *)
MCViews == {<<0, 4>>, <<40, 44>>, <<54, 58>>, <<40, 72>>}
=============================================================================
