-------------------------- MODULE TraceViewerClient --------------------------
(***************************************************************************)
(* Loading in the browser's trace viewer (trace_viewer_v2).  main.ts       *)
(* fetches a trace, or a part of it, and hands the answer to the timeline  *)
(* unless another trace was asked for meanwhile; the timeline asks for     *)
(* more whenever the viewport leaves what it believes it has.  Calls are   *)
(* answered in any order.  Times are integers; a range is <<start, end>>.  *)
(***************************************************************************)
EXTENDS Integers, Sequences

CONSTANTS
  TvUrls,     \* data URLs
  TvNoUrl,    \* no URL: nothing loaded yet, or an uploaded file
  TvEnd,      \* TvEnd[u]: the end of the trace behind u; TvEnd[TvNoUrl] of the file
  TvUrlView,  \* TvUrlView[u]: the viewport in the URL, or <<>>
  TvViews,    \* viewports the user moves to
  TvMinFetch, \* kMinFetchDurationMicros, on the grid of times
  TvMaxCalls  \* bound: calls started

ASSUME TvAssumption ==
  /\ TvNoUrl \notin TvUrls
  /\ \A u \in TvUrls \cup {TvNoUrl} : TvEnd[u] \in Nat
  /\ \A u \in TvUrls : TvUrlView[u] \in (Int \X Int) \cup {<<>>}
  /\ TvViews \subseteq Int \X Int
  /\ TvMinFetch \in Nat
  /\ TvMaxCalls \in Nat

VARIABLES
  tvUrl,      \* currentDataUrl
  tvPromise,  \* the call behind currentLoadingPromise, or 0
  tvCalls,    \* calls in the order they started
  tvStatus,   \* the loading status last dispatched
  tvVisible,  \* visible_range_
  tvLast,     \* last_fetch_request_range_
  tvLoading,  \* is_incremental_loading_
  tvSpan,     \* data_time_range_
  tvShown,    \* the URL whose trace the timeline shows
  tvHeld,     \* the range of that trace the timeline was given
  tvFailed    \* history: something failed since a trace was last asked for

tvPage == <<tvUrl, tvPromise>>
tvTimeline == <<tvVisible, tvLast, tvLoading, tvSpan, tvShown, tvHeld>>
tvVars == <<tvUrl, tvPromise, tvCalls, tvStatus, tvVisible, tvLast, tvLoading,
            tvSpan, tvShown, tvHeld, tvFailed>>

TvZero == <<0, 0>>
TvMin(a, b) == IF a < b THEN a ELSE b
TvMax(a, b) == IF a < b THEN b ELSE a
TvSize(r) == r[2] - r[1]
TvWithin(r, q) == q[1] <= r[1] /\ r[2] <= q[2]

(* TimeRange::Scale, for ranges whose centre is on the grid. *)
TvScale(r, n) ==
  <<(r[1] + r[2] - n * TvSize(r)) \div 2, (r[1] + r[2] + n * TvSize(r)) \div 2>>

(* ConstrainTimeRange shifts a range into the trace, and then cuts it. *)
TvConstrain(r, end) ==
  IF r[1] < 0 THEN <<0, TvMin(TvSize(r), end)>>
  ELSE IF r[2] > end THEN <<TvMax(end - TvSize(r), 0), end>>
  ELSE r

(* The two ranges of MaybeRequestData (kPreserveRatio, kFetchRatio). *)
TvPreserve(r, end) == TvConstrain(TvScale(r, 2), end)
TvFetch(r, end) ==
  LET wide == TvScale(r, 3) mid == (r[1] + r[2]) \div 2 half == TvMinFetch \div 2 IN
  TvConstrain(IF TvSize(wide) < TvMinFetch THEN <<mid - half, mid + half>> ELSE wide, end)

TvInit ==
  /\ tvUrl = TvNoUrl
  /\ tvPromise = 0
  /\ tvCalls = <<>>
  /\ tvStatus = "idle"
  /\ tvVisible = TvZero
  /\ tvLast = TvZero
  /\ tvLoading = TRUE
  /\ tvSpan = 0
  /\ tvShown = TvNoUrl
  /\ tvHeld = TvZero
  /\ tvFailed = FALSE

(* given is the timeRange passed on to the timeline, ask what the URL of   *)
(* the request says.                                                       *)
TvCall(kind, url, ask, given) ==
  [kind |-> kind, url |-> url, ask |-> ask, given |-> given, at |-> "fetch"]

(* expandUrlTimeRange triples the viewport of the URL. *)
TvAsked(u) ==
  IF TvUrlView[u] = <<>> THEN <<0, TvEnd[u]>>
  ELSE <<TvMax(TvScale(TvUrlView[u], 3)[1], 0), TvMin(TvScale(TvUrlView[u], 3)[2], TvEnd[u])>>

(* loadTraceData: a second request for what is being loaded joins the first. *)
TvLoad(u, calls) ==
  IF u = tvUrl /\ tvPromise # 0 THEN UNCHANGED tvPage /\ tvCalls' = calls
  ELSE /\ Len(calls) < TvMaxCalls
       /\ tvUrl' = u
       /\ tvPromise' = Len(calls) + 1
       /\ tvCalls' = Append(calls, TvCall("load", u, TvAsked(u), TvUrlView[u]))

LoadTraceData(u) ==
  /\ ~(u = tvUrl /\ tvPromise # 0)
  /\ TvLoad(u, tvCalls)
  /\ tvStatus' = "loading"
  /\ tvFailed' = FALSE
  /\ UNCHANGED tvTimeline

TvAt(i, step) == i \in DOMAIN tvCalls /\ tvCalls[i].at = step
TvAborted(i) == tvCalls[i].url # tvUrl
TvGoto(i, step) == [tvCalls EXCEPT ![i].at = step]

(* The end of a call; loadTraceData's finally forgets the promise, but not *)
(* that of another URL.                                                    *)
TvFinish(i) ==
  /\ tvCalls' = TvGoto(i, "done")
  /\ tvPromise' = IF tvCalls[i].kind = "load" /\ ~TvAborted(i) THEN 0 ELSE tvPromise
  /\ UNCHANGED tvUrl

(* An error is shown even by a call that nobody waits for any more. *)
FetchFails(i) ==
  /\ TvAt(i, "fetch")
  /\ TvFinish(i)
  /\ tvStatus' = "error"
  /\ tvFailed' = TRUE
  /\ UNCHANGED tvTimeline

(* A late answer is dropped without a word. *)
TvIsStale(i, step) == TvAt(i, step) /\ TvAborted(i)

DropStale(i) ==
  /\ \E step \in {"fetch", "yield"} : TvIsStale(i, step)
  /\ TvFinish(i)
  /\ UNCHANGED <<tvStatus, tvFailed, tvTimeline>>

(* The answer holds no trace events: the status is idle all the same. *)
AnswerIsNoTrace(i) ==
  /\ TvAt(i, "fetch")
  /\ ~TvAborted(i)
  /\ TvFinish(i)
  /\ tvStatus' = "idle"
  /\ tvFailed' = TRUE
  /\ UNCHANGED tvTimeline

(* The details that come with an answer may make the component ask for     *)
(* another URL at once, before this call goes on to yield.                 *)
AnswerArrives(i) ==
  /\ TvAt(i, "fetch")
  /\ ~TvAborted(i)
  /\ \/ UNCHANGED tvPage /\ tvCalls' = TvGoto(i, "yield") /\ UNCHANGED tvFailed
     \/ \E u \in TvUrls : TvLoad(u, TvGoto(i, "yield")) /\ tvFailed' = FALSE
  /\ tvStatus' = "processing"
  /\ UNCHANGED tvTimeline

(* Wrong: only an answer to a viewport lets the timeline ask again. *)
TvShowKeepsLoading(url, ask, given, empty) ==
  /\ tvShown' = url
  /\ tvHeld' = ask
  /\ tvSpan' = TvEnd[url]
  /\ tvVisible' = IF empty THEN TvZero ELSE IF tvVisible # TvZero THEN tvVisible ELSE ask
  /\ tvLast' = TvFetch(IF given # <<>> THEN given ELSE <<0, TvEnd[url]>>, TvEnd[url])
  /\ tvLoading' = (given = <<>> /\ tvLoading)

(* ProcessTraceEvents and what its callers do next.  A range without any   *)
(* event resets the viewport; otherwise one that is set is kept.           *)
TvShow(url, ask, given, empty) ==
  /\ tvShown' = url
  /\ tvHeld' = ask
  /\ tvSpan' = TvEnd[url]
  /\ tvVisible' = IF empty THEN TvZero
                  ELSE IF tvVisible # TvZero THEN tvVisible
                  ELSE IF given # <<>> THEN given ELSE ask
  /\ tvLast' = TvFetch(IF given # <<>> THEN given ELSE <<0, TvEnd[url]>>, TvEnd[url])
  /\ tvLoading' = FALSE

(* Wrong: after the yield nobody looks whether the answer is still wanted. *)
ProcessAnyway(i) ==
  /\ TvAt(i, "yield")
  /\ TvShow(tvCalls[i].url, tvCalls[i].ask, tvCalls[i].given, FALSE)
  /\ TvFinish(i)
  /\ tvStatus' = "idle"
  /\ UNCHANGED tvFailed

Process(i) ==
  /\ TvAt(i, "yield")
  /\ ~TvAborted(i)
  /\ \E empty \in {FALSE, tvCalls[i].kind = "view"} :
       TvShow(tvCalls[i].url, tvCalls[i].ask, tvCalls[i].given, empty)
  /\ TvFinish(i)
  /\ tvStatus' = "idle"
  /\ UNCHANGED tvFailed

(* No memory for the answer, or the module throws. *)
ProcessFails(i) ==
  /\ TvAt(i, "yield")
  /\ ~TvAborted(i)
  /\ TvFinish(i)
  /\ tvStatus' = "error"
  /\ tvFailed' = TRUE
  /\ UNCHANGED tvTimeline

(* The user pans or zooms; Pan and Zoom keep the viewport in the trace. *)
Move(v) ==
  /\ tvSpan > 0
  /\ tvVisible' = TvConstrain(v, tvSpan)
  /\ UNCHANGED <<tvPage, tvCalls, tvStatus, tvLast, tvLoading, tvSpan, tvShown,
                 tvHeld, tvFailed>>

(* kRefetchZoomRatio; the division of the code is a product here. *)
TvNeedsData ==
  \/ TvSize(tvLast) > 8 * TvSize(TvFetch(tvVisible, tvSpan))
  \/ ~TvWithin(TvPreserve(tvVisible, tvSpan), tvLast)

(* MaybeRequestData, in a frame without interaction.  The event reaches    *)
(* handleFetchDataEvent at once, which gives up when there is no URL.      *)
MaybeRequestData ==
  LET fetch == TvFetch(tvVisible, tvSpan) IN
  /\ ~tvLoading
  /\ TvNeedsData
  /\ tvLast' = fetch
  /\ tvLoading' = TRUE
  /\ IF tvUrl = TvNoUrl THEN UNCHANGED <<tvCalls, tvStatus>>
     ELSE /\ Len(tvCalls) < TvMaxCalls
          /\ tvCalls' = Append(tvCalls, TvCall("view", tvUrl, fetch, fetch))
          /\ tvStatus' = "loading"
  /\ UNCHANGED <<tvPage, tvVisible, tvSpan, tvShown, tvHeld, tvFailed>>

(* processUploadedFile.  No status tells that the file is there. *)
Upload ==
  /\ TvShow(TvNoUrl, <<0, TvEnd[TvNoUrl]>>, <<>>, FALSE)
  /\ tvUrl' = TvNoUrl
  /\ tvFailed' = FALSE
  /\ UNCHANGED <<tvPromise, tvCalls, tvStatus>>

(* A Perfetto file that cannot be shown counts as processed nevertheless.  *)
UploadFails ==
  /\ tvUrl' \in {tvUrl, TvNoUrl}
  /\ tvStatus' = "error"
  /\ tvFailed' = TRUE
  /\ UNCHANGED <<tvPromise, tvCalls, tvTimeline>>

TvNext ==
  \/ \E u \in TvUrls : LoadTraceData(u)
  \/ \E i \in 1..TvMaxCalls :
       \/ FetchFails(i) \/ DropStale(i) \/ AnswerIsNoTrace(i) \/ AnswerArrives(i)
       \/ Process(i) \/ ProcessFails(i)
  \/ \E v \in TvViews : Move(v)
  \/ MaybeRequestData
  \/ Upload
  \/ UploadFails

TvSpec == TvInit /\ [][TvNext]_tvVars
-----------------------------------------------------------------------------
TvRanges == Int \X Int

TvTypeOK ==
  /\ tvUrl \in TvUrls \cup {TvNoUrl}
  /\ tvPromise \in 0..TvMaxCalls
  /\ Len(tvCalls) <= TvMaxCalls
  /\ \A i \in DOMAIN tvCalls :
       /\ tvCalls[i].kind \in {"load", "view"} /\ tvCalls[i].url \in TvUrls
       /\ tvCalls[i].ask \in TvRanges /\ tvCalls[i].given \in TvRanges \cup {<<>>}
       /\ tvCalls[i].at \in {"fetch", "yield", "done"}
  /\ tvStatus \in {"idle", "loading", "processing", "error"}
  /\ {tvVisible, tvLast, tvHeld} \subseteq TvRanges
  /\ tvLoading \in BOOLEAN
  /\ tvSpan \in Nat
  /\ tvShown \in TvUrls \cup {TvNoUrl}
  /\ tvFailed \in BOOLEAN

TvQuiet == \A i \in DOMAIN tvCalls : tvCalls[i].at = "done"

(* Once every call has ended and nothing failed, the timeline shows the    *)
(* trace that was asked for last, in whatever order the answers came and   *)
(* whatever else was asked for or uploaded while they were on their way.   *)
TvShowsTheLastAsked == TvQuiet /\ ~tvFailed => tvShown = tvUrl

(* The flag that holds back further requests is never left set: when all   *)
(* calls have ended and nothing failed, panning can fetch again, although  *)
(* a dropped answer does not reset it.                                     *)
TvCanAskAgain == TvQuiet /\ ~tvFailed /\ tvUrl # TvNoUrl => ~tvLoading

(* What timeline.cc says of MaybeRequestData: around the viewport there is *)
(* a "buffer to keep loaded" of twice its width, and a new load starts     *)
(* when it is not covered by "the data currently loaded".                  *)
TvBufferIsLoaded ==
  tvUrl # TvNoUrl /\ tvShown = tvUrl /\ ~tvLoading /\ ~TvNeedsData =>
    TvWithin(TvPreserve(tvVisible, tvSpan), tvHeld)
=============================================================================
