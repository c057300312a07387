---------------------------- MODULE MCLifecycle ----------------------------
(* Two requests for TLC, of a country that is welcome, of one that is not, *)
(* and of a welcome country through an ASN that is blocked.                *)
EXTENDS Lifecycle

From(country, asn) == [country |-> country, asn |-> asn]

Addresses == {From("home", "isp"), From("away", "isp"), From("home", "hoster")}
Lists == [p \in Policy |-> CASE p = "white" -> {"home"}
                             [] p = "asn" -> {"hoster"}
                             [] p = "black" -> {"away"}]

Configuration(enabled, failOpen, fallback, expires) ==
  [enabled |-> enabled, failOpen |-> failOpen, fallback |-> fallback, expires |-> expires]

(* The first and the last are a server's, the others GeoIPHandler's own.   *)
Configs == {Configuration(Policy, FALSE, "", FALSE),
            Configuration({"asn", "black"}, FALSE, "default", FALSE),
            Configuration({"white"}, FALSE, "away", TRUE),
            Configuration({"white", "asn"}, TRUE, "", FALSE)}
=============================================================================
