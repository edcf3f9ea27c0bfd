--------------------------- MODULE MCConfigReload ---------------------------
(***************************************************************************)
(* Small instances of ConfigReload for TLC: one configuration that loads,  *)
(* another one, and documents wrong in one place each.                     *)
(***************************************************************************)
EXTENDS ConfigReload

CONSTANTS com, api, API, id1, id2, e1, E1, e2

MCLabel == {com, api, API, Empty, Star}
MCLower == [l \in MCLabel |-> IF l = API THEN api ELSE l]
MCGood  == {com, api}

\* E1 is another spelling of the endpoint e1.
MCCanonical == [s \in {e1, E1, e2, Malformed} |-> IF s = E1 THEN e1 ELSE s]

Auto(s, id)   == [proxy |-> s, kind |-> "v4", id |-> id, interval |-> Absent, api |-> FALSE,
                  timeout |-> Absent]
Manual(s, id) == [Auto(s, id) EXCEPT !.interval = 60, !.api = TRUE]

Rule(domains, ids) == [domains |-> domains, routes |-> ids]

Good1 ==
  [level |-> "info", retries |-> 2, base |-> 1, max |-> 4, dial |-> 1,
   rotation |-> [limit |-> Absent, percent |-> FALSE, drain |-> Absent, url |-> "absent",
                 check |-> Absent, every |-> Absent, backoff |-> Absent],
   warmPool |-> [min |-> Absent, max |-> Absent, total |-> Absent, dials |-> Absent,
                 perRoute |-> Absent, ttl |-> Absent],
   auto |-> <<Auto(e1, Absent)>>, manual |-> <<Manual(e2, Absent)>>, routing |-> Absent]

Good2 ==
  [Good1 EXCEPT !.level = "debug", !.rotation.limit = 1, !.rotation.percent = TRUE,
                !.auto = <<Auto(E1, id1)>>, !.manual = <<Manual(e2, id2)>>,
                !.routing = [rules |-> <<Rule(<< <<Star, api, com>>, <<API, com, Empty>> >>, <<id1>>)>>,
                             defaults |-> <<id2>>]]

Wrong ==
  {[Good1 EXCEPT !.retries = Absent], [Good1 EXCEPT !.base = 8],
   [Good1 EXCEPT !.warmPool.min = 3], [Good1 EXCEPT !.warmPool.total = 1],
   [Good1 EXCEPT !.rotation.every = 30], [Good2 EXCEPT !.rotation.limit = 101],
   [Good1 EXCEPT !.rotation.limit = 0],
   [Good1 EXCEPT !.manual = <<Manual(E1, Absent)>>],
   [Good2 EXCEPT !.manual = <<Manual(e2, id1)>>],
   [Good2 EXCEPT !.manual = <<Manual(e2, Absent)>>],
   [Good2 EXCEPT !.routing.rules[1].routes = <<id1, id1>>],
   [Good2 EXCEPT !.routing.rules[1].domains = << <<Star, Star, com>> >>],
   [Good2 EXCEPT !.auto = <<>>, !.routing.defaults = Absent],
   [Good2 EXCEPT !.routing.defaults = <<>>]}

MCContents == {Good1, Good2, Malformed} \cup Wrong
=============================================================================
