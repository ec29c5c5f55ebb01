------------------------------- MODULE Access -------------------------------
(***************************************************************************)
(* The dependencies a request passes before predict() runs:                *)
(* verify_api_key (app/middleware/api_key_auth.py) and                     *)
(* verify_brand_authorization (app/middleware/brand_auth.py).  Each check  *)
(* is a condition and the status of the HTTPException it raises; the       *)
(* first that fails answers the request.                                   *)
(***************************************************************************)
EXTENDS Integers, Sequences

CONSTANT Brands

\* X-Brand-Signature: a fresh signature of a brand id, or why it is none:
\* no timestamp in it, a timestamp out of the window, a digest of nothing.
Defects == {"missing", "malformed", "stale", "wrong"}

\* What the checks read of a request's headers; X-Brand-Id may be absent.
Headers == [token : {"key", "other"}, brand : Brands \cup {"none"},
            signature : Brands \cup Defects]

Check(fails, status) == [fails |-> fails, status |-> status]

KeyChecks(h) == << Check(h.token # "key", 401) >>

\* Without HMAC_SECRET the header's brand is believed.
BrandChecks(h, secret) ==
    << Check(h.brand = "none", 400),
       Check(secret /\ h.signature \in {"missing", "malformed", "stale"}, 401),
       Check(secret /\ h.signature # h.brand, 403) >>

\* The status of the first check that fails, 0 if all pass.
FirstFailure(checks) ==
    LET failed == {i \in DOMAIN checks : checks[i].fails}
    IN  IF failed = {} THEN 0
        ELSE checks[CHOOSE i \in failed : \A j \in failed : i <= j].status

\* The brand that asked for this request: the signer, where there is one.
Signer(h, secret) == IF secret THEN h.signature ELSE h.brand
=============================================================================
