---------------------------- MODULE MCApiClient ----------------------------
(* Two resources: the list of users, which is deduplicated, and a check of *)
(* a token, which is a POST and is not.                                    *)
EXTENDS ApiClient

CONSTANTS users, auth

List == [method |-> "GET", path |-> "users", rest |-> "page1"]
Introspect == [method |-> "POST", path |-> "introspect", rest |-> "token"]

AsksAll == [k \in {users, auth} |-> IF k = users THEN {List} ELSE {Introspect}]
AllRequests == {List, Introspect}
NoRequests == {}
=============================================================================
