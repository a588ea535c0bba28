--------------------------- MODULE MCRuleEngine ---------------------------
(* Instances of RuleEngine for TLC. *)
EXTENDS RuleEngine

\* Two outer rules, the first with a nested one.
MCRules == {"first", "nested", "second"}
MCChildren == [r \in MCRules \cup {"state"} |->
    CASE r = "state" -> <<"first", "second">> [] r = "first" -> <<"nested">> [] OTHER -> <<>>]

\* A handler of each action, three that name challenges, and three that cannot
\* be loaded.
MCHandlers == {"none", "pass", "deny", "block", "code", "drop", "context", "proxy", "nowhere",
               "ask", "choose", "look", "code-zero", "misspelt", "asks-misspelt"}
MCKind == [h \in MCHandlers |->
    CASE h = "none" -> "NONE" [] h = "pass" -> "PASS" [] h = "deny" -> "DENY"
      [] h = "block" -> "BLOCK" [] h \in {"code", "code-zero"} -> "CODE" [] h = "drop" -> "DROP"
      [] h = "context" -> "CONTEXT" [] h \in {"proxy", "nowhere"} -> "PROXY"
      [] h \in {"ask", "choose", "asks-misspelt"} -> "CHALLENGE"
      [] h = "look" -> "CHECK" [] h = "misspelt" -> "unknown"]
MCUses == [h \in MCHandlers |->
    CASE h = "ask" -> <<"api", "meta">> [] h = "choose" -> <<"api", "ck">>
      [] h = "look" -> <<"pre", "api">> [] h = "asks-misspelt" -> <<"dnz">>
      [] OTHER -> <<>>]
MCPassTo == [h \in MCHandlers |-> IF h = "choose" THEN "proxy" ELSE "pass"]
MCFailTo == [h \in MCHandlers |->
    CASE h = "ask" -> "choose" [] h = "choose" -> "code" [] OTHER -> "deny"]
MCHttpCode == [h \in MCHandlers |-> IF h = "code" THEN 404 ELSE 0]
MCHosts == {"shop", "www", "gone"}
MCSetHost == [h \in MCHandlers |-> IF h = "context" THEN "gone" ELSE NoHost]
MCSetTags == [h \in MCHandlers |-> IF h = "context" THEN "on" ELSE "leave"]
MCProxyTo == [h \in MCHandlers |-> IF h = "nowhere" THEN "gone" ELSE "shop"]
MCNames == {"api", "meta", "ck", "pre", "dnz"}
MCChallenges == {"api", "meta", "ck", "pre"}
MCRuntime == [c \in MCChallenges |->
    CASE c = "api" -> "http" [] c = "meta" -> "page" [] c = "ck" -> "cookie"
      [] c = "pre" -> "preload-link"]
MCVerdicts == {[result |-> "Fail", state |-> "None"], [result |-> "OK", state |-> "Brief"]}
MCWildcardOf == [h \in MCHosts |-> IF h = "gone" THEN "*.test" ELSE "*.shop"]
MCBackends == {"shop", "*.shop"}
MCTransparentTo == {"*.shop"}
===========================================================================
