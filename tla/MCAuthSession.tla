--------------------------- MODULE MCAuthSession ---------------------------
(* A small instance of AccessToken, and so of AuthSession.  Two requests     *)
(* refresh one live token at the same time only if there are three ids of    *)
(* tokens: that one, and one set aside by each request.  No symmetry:        *)
(* liveness is checked too.                                                  *)
EXTENDS AccessToken

CONSTANTS p1, p2, s1, s2, t1, t2, t3, c1

\* Ids that nobody has used yet are interchangeable: a request gets the first.
Before(t) == CASE t = t1 -> {} [] t = t2 -> {t1} [] t = t3 -> {t1, t2}

MCFirstFree ==
    \A p \in Proc :
        /\ req'[p].newT \notin {None, req[p].newT} =>
             \A t \in Before(req'[p].newT) : ~FreeToken(t)
        /\ (req'[p].newS = s2 /\ req[p].newS # s2) => ~FreeSession(s1)

\* The third token is for the races between requests: while all three are in
\* use, no session lapses and no access token is checked.
MCConstraint ==
    (\A t \in Token : ~FreeToken(t)) =>
        lapsed = {} /\ \A c \in Caller : call[c].at = "idle"

=============================================================================
