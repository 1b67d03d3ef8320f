--------------------------------- MODULE Codes ---------------------------------
(***************************************************************************)
(* The table explanations() of decision.cpp: the codes the tool can put on *)
(* a pair, a topic or a frame, by section.  explain() and remedy() look a  *)
(* code up; what they say is text.  known_codes() lists them all.          *)
(***************************************************************************)

SelectionCodes ==
  {"same-host-guid", "different-host", "both-shm-locators", "writer-no-shm-locator",
   "reader-no-shm-locator", "shm-locators-ignored-across-hosts", "shm-ipc-namespace-split",
   "shm-port-collision", "shm-reader-port-not-visible", "shm-writer-port-not-visible",
   "datasharing-reader-segment-not-visible", "datasharing-writer-segment-not-visible",
   "shm-ipc-namespace-split-but-delivered", "shm-ipc-namespace-split-but-non-shm-traffic",
   "common-udpv4-locator", "common-udpv6-locator", "common-tcpv4-locator",
   "common-tcpv6-locator", "no-common-transport", "host-id-match-but-ip-differs",
   "same-host-locators-hidden"}

SharingCodes ==
  {"datasharing-disabled-writer", "datasharing-disabled-reader", "datasharing-qos-unknown",
   "datasharing-qos-enabled-both", "datasharing-domain-ids-match",
   "datasharing-domain-ids-unknown", "datasharing-domain-ids-mismatch",
   "datasharing-unverified-by-traffic", "intra-process"}

SharingMeasuredCodes ==
  {"datasharing-confirmed-no-traffic", "datasharing-confirmed-no-data-submessages",
   "datasharing-ambiguous-mixed-readers", "datasharing-data-submessages-sent",
   "datasharing-not-used", "datasharing-ambiguous-participant-traffic",
   "datasharing-no-delivery-observed"}

QosCodes ==
  {"qos-incompatible-reliability", "qos-incompatible-durability",
   "qos-incompatible-deadline", "qos-incompatible-liveliness",
   "qos-incompatible-ownership", "qos-incompatible-partition", "qos-incompatible",
   "qos-incompatible-but-delivered"}

TypeCodes ==
  {"type-name-mismatch", "type-name-mismatch-but-delivered", "type-hash-mismatch",
   "type-information-mismatch", "type-information-mismatch-but-delivered",
   "type-names-differ-same-type"}

UnpairedCodes ==
  {"no-matching-writer", "no-matching-reader"}

BufferCodes ==
  {"buffer-companion-folded", "buffer-companion", "buffer-companion-unmatched"}

TrafficCodes ==
  {"measured-udpv4-traffic", "measured-udpv6-traffic", "measured-tcpv4-traffic",
   "measured-tcpv6-traffic", "measured-shm-traffic", "measured-unknown-traffic",
   "measured-transport-mismatch", "measured-locator-mismatch"}

StatisticsCodes ==
  {"stats-writer-instance-limit-suspected", "delivered-without-measured-traffic",
   "no-traffic-observed", "stats-not-enabled-on-writer", "latency-clock-skew-suspected",
   "rtps-packets-lost", "rtps-sent-absent", "stats-samples-lost"}

ShmCodes ==
  {"shm-stale-files", "shm-nearly-full", "shm-not-visible"}

known_codes ==
  SelectionCodes \cup SharingCodes \cup SharingMeasuredCodes \cup QosCodes \cup TypeCodes
    \cup UnpairedCodes \cup BufferCodes \cup TrafficCodes \cup StatisticsCodes \cup ShmCodes
================================================================================
