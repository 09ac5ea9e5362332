---------------------------- MODULE MCS3Aggregator ----------------------------
(* Instance of S3Aggregator for TLC.  Both browsers send under the visit id  *)
(* 1 (as the extension does with -1 before it knows its visit), c1's row of   *)
(* site_visits may come after its next visit has begun, both browsers find    *)
(* the same page content, and one row has no id.                              *)
EXTENDS S3Aggregator

Row(c, v, t) == [crawl |-> c, visit |-> v, table |-> t]

MCRecords ==
  {Row("c1", Unkeyed, "http_requests"), Row("c1", 1, "http_requests"),
   Row("c1", 2, "http_requests"), Row("c1", 1, SiteVisits),
   Row("c2", 1, "http_requests"),
   Row("c1", 7, Content), Row("c2", 7, Content)}
==============================================================================
