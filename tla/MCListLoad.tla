----------------------------- MODULE MCListLoad -----------------------------
(* Instance of ListLoad for TLC: a block list that is downloaded and an      *)
(* allow list of the user, an IPv4 address, which a download server has too, *)
(* and an IPv6 address.                                                      *)
EXTENDS ListLoad
MCV4 == {"a"}
MCV6 == {"b"}
MCBlockLists == {"blocklist"}
MCAllowLists == {"allowlist"}
MCContents == [l \in {"blocklist", "allowlist"} |->
                 IF l = "blocklist" THEN {{"a"}, {"a", "b"}} ELSE {{"a"}}]
MCChoices == {{"blocklist"}, {"blocklist", "allowlist"}}
MCHosts == {"a"}
MCLimits == {15, 60}
=============================================================================
