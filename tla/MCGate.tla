------------------------------ MODULE MCGate ------------------------------
(* Instances of Gate for TLC. *)
EXTENDS Gate, TLC

CONSTANTS q1, q2,                    \* connections
          pow, dns, web, meta, ck, res   \* challenges

\* One browser on one network whose Accept-Language may change between two
\* requests ("a", "b") and that may also come over IPv6, or a dual-stack
\* browser ("v4", "v6").
OneOrigin == {"a"}
ThreeOrigins == {"a", "b", "v6"}
DualStack == {"v4", "v6"}

MCNetworkPrefix == [o \in Origins |-> IF o \in DualStack THEN o ELSE "net"]
MCIsIPv4 == [o \in Origins |-> o # "v6"]
MCHeaderSets == {"default", "minimal", "stable"}
\* Every list but the stable one has Accept-Language.
MCHeaderValue == [h \in MCHeaderSets |->
                    [o \in Origins |-> IF h # "stable" /\ o = "b" THEN "de" ELSE "en"]]

MCRuntime == [c \in Challenges |->
    CASE c = pow -> "js" [] c = dns -> "dnsbl" [] c = web -> "http"
      [] c = meta -> "refresh" [] c = ck -> "cookie" [] c = res -> "resource-load"]
MCKeyHeaders == [c \in Challenges |-> IF c = pow THEN "stable" ELSE "default"]
MCLegacyKeyHeaders == [c \in Challenges |-> IF c = pow THEN "minimal" ELSE NoHeaders]
MCDuration == [c \in Challenges |-> 2]

MetaCookie == <<meta, ck>>
MetaOnly == <<meta>>
PowMeta == <<pow, meta>>
DnsMeta == <<dns, meta>>
WebResMetaCookie == <<web, res, meta, ck>>

Symmetry == Permutations(Req)
===========================================================================
