--------------------------- MODULE MCOAuthTokens ---------------------------
(* A small instance of OAuthTokens for TLC: both providers, each with its own *)
(* way to treat a rejected token.                                             *)
EXTENDS OAuthTokens

MCProviders == {"hubspot", "google-calendar"}

MCForgetsRejected == {"google-calendar"}

=============================================================================
