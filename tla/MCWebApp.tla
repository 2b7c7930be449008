------------------------------- MODULE MCWebApp -------------------------------
(* Instances of WebApp for TLC.                                               *)
EXTENDS WebApp, TLC

CONSTANTS r1, r2  \* the requests

\* An extractor and a method that the example has no route for.
MCOtherRoutes == {<<"cookie", "PUT">>, <<"authenticated", "POST">>}

\* A request of any kind, and one to race it.
MCTraffic ==
  r1 :> {<<"bearer", "POST", "1">>, <<"bearer", "POST", "2">>, <<"cookie", "GET", "1">>,
         <<"cookie", "HEAD", "3">>, <<"cookie", "GET", None>>, <<"cookie", "PUT", "1">>,
         <<"cookie", "PUT", "3">>, <<"authenticated", "POST", None>>}
    @@ r2 :> {<<"optional", "GET", "2">>}

\* A resource that does not offer a method.
MCNotOffered == {<<"3", "PUT">>}
===============================================================================
