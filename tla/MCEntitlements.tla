--------------------------- MODULE MCEntitlements ---------------------------
EXTENDS PremiumViews, TLC

CONSTANTS u1, u2, a1

\* u1 bought before signing in, u2 afterwards.
FirstSeen == u1 :> a1 @@ u2 :> u2
=============================================================================
