---------------------------- MODULE MCOAuthFlow -----------------------------
(* A small instance of OAuthFlow.                                             *)
EXTENDS OAuthFlow, TLC

CONSTANTS b1, b2, s1, s2, i1, i2, r1, r2

\* Development with both providers, production with a key of Apple's that cannot be
\* imported, and a deployment that forgot the credentials of a provider and must
\* not start.
MCDeployments ==
    {[prod |-> FALSE, prod_frontend_base_url |-> FALSE, prod_api_base_url |-> FALSE,
      client_id |-> Providers, credentials |-> Providers, redirect_path |-> Providers,
      key_parses |-> TRUE],
     [prod |-> TRUE, prod_frontend_base_url |-> TRUE, prod_api_base_url |-> TRUE,
      client_id |-> Providers, credentials |-> Providers, redirect_path |-> Providers,
      key_parses |-> FALSE],
     [prod |-> TRUE, prod_frontend_base_url |-> TRUE, prod_api_base_url |-> TRUE,
      client_id |-> Providers, credentials |-> {"google"}, redirect_path |-> Providers,
      key_parses |-> TRUE]}

MCSymmetry == Permutations({b1, b2}) \cup Permutations({s1, s2})
                \cup Permutations({i1, i2}) \cup Permutations({r1, r2})
=============================================================================
