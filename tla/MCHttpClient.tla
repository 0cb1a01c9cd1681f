---------------------------- MODULE MCHttpClient ----------------------------
(* Bicotender is the priority source (PARSER_PROXY_PRIORITY_SOURCE_NAMES); with
   a company site there is one source of each transport.                    *)
EXTENDS HttpClient

MCHostOf == [s \in Sources |-> IF s = "company_site" THEN "site" ELSE "tender"]

=============================================================================
