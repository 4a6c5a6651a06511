----------------------------- MODULE AuthzDocs -----------------------------
(* What README.md says of the authorization path and the code does not do. *)
EXTENDS MCAuthz

(* README.md:362: an error of the ZITADEL API is answered 401 and cached   *)
(* as is_invalid; README.md:353 says the same of a failing exchange.       *)
(* AuthorizePAT caches it when the userinfo call fails, not the exchange.  *)
ExchangeFailureIsCached ==
  [][\A r \in Requests :
       /\ Answers(r)
       /\ req'[r].reason = "token exchange with actor failed"
       /\ ~ Blind(r)
       => IsMarker(Key(r))']_vars
=============================================================================
