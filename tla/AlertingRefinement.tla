------------------------- MODULE AlertingRefinement -------------------------
(* Alerting implements AlertService, where one consumer reads the stream.    *)
EXTENDS Alerting

\* A closed incident's reason is never mistaken for "open".
ASSUME OpenAssumption == None # "open"

Service == INSTANCE AlertService WITH
  Feedable <- Result,
  Levels   <- WarnLevels \cup {None},
  Senders  <- Consumers,
  feed     <- stream,
  upto     <- IF alert.watermark = None THEN 0 ELSE rows[alert.watermark],
  fails    <- alert.consec,
  covered  <- \E i \in DOMAIN incidents : incidents[i].first \in Run,
  life     <- [i \in DOMAIN incidents |->
                 IF incidents[i].ended = None THEN "open" ELSE incidents[i].reason],
  hand     <- evt,
  said     <- emitted

\* The handler's six calls, with crashes, redeliveries, failed calls, edits and
\* manual closes between them, look like one atomic step per result: none is
\* skipped, counted twice or applied out of order, every run that reaches the
\* threshold gets its incident and only then, every healthy result ends it, and
\* announcements are made for these steps alone (Runner.handle on Redis).
ActsAtomically == Service!SvcSpec
=============================================================================
