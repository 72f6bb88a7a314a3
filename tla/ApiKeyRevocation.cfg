\* One key, revoked by its owner or with its owner's account while two requests
\* look it up.
CONSTANT Lookups = {l1, l2}
SPECIFICATION ApiKeySpec
INVARIANT RevokedAtOnce
CHECK_DEADLOCK FALSE
