------------------------------- MODULE MCProxy -------------------------------
(* Proxy with one gateway of two backends; a few configuration files, most   *)
(* of them wrong in one way.                                                 *)
EXTENDS Proxy

\* The deployed shape: everything to the portal but what begins with api.
Routes == <<[prefix |-> <<"api">>, backend |-> "oauth"]>>
Gateway(backends, routes, tls) ==
  [gateway |-> [backends |-> backends, routes |-> routes, default |-> "portal", tls |-> tls]]

Two == [portal |-> <<"p1", "p2">>, oauth |-> <<"o1">>]
Https == [cert |-> "pem1", key |-> "pem2", version |-> "1.3"]

Deployed == Gateway(Two, Routes, Https)
\* A longer prefix back to the portal, and the same one given twice.
Nested == Gateway(Two, Routes \o <<[prefix |-> <<"api", "ui">>, backend |-> "oauth"],
                                   [prefix |-> <<"api", "ui">>, backend |-> "portal"]>>, None)
NoSuchBackend == Gateway(Two, <<[prefix |-> <<"api">>, backend |-> "redis"]>>, None)
NoUpstream == Gateway([portal |-> <<"p1">>, oauth |-> <<>>], Routes, None)
NoDefault == Gateway([oauth |-> <<"o1">>], Routes, None)

MCContents == {Deployed, Nested, NoSuchBackend, NoUpstream, NoDefault, Unreadable}
MCUris == {<<"api", "ui">>, <<"home">>}
=============================================================================
