----------------------- MODULE MCAuthCacheInvalidation -----------------------
(* Instances of AuthCacheInvalidation for TLC. *)
EXTENDS AuthCacheInvalidation

=============================================================================
