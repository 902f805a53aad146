SPECIFICATION TvSpec

CONSTANTS
  urlA = urlA
  urlB = urlB
  noUrl = noUrl
  TvUrls = {urlA}
  TvNoUrl = noUrl
  TvEnd <- MCEnd
  TvUrlView <- MCNoUrlView
  TvViews <- MCViews
  TvMinFetch = 16
  TvMaxCalls = 3

INVARIANT
  TvBufferIsLoaded

CHECK_DEADLOCK FALSE
