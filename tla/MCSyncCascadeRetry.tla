------------------------- MODULE MCSyncCascadeRetry -------------------------
(* Devices that write a mode, delete it, or block an app in it.              *)
EXTENDS SyncCascade

CONSTANTS d1, d2, m1, a1

Change(t, k, put) == <<[t |-> t, key |-> k, put |-> put, val |-> Nothing]>>

ModeAndAppRequests ==
    {Change(Modes, m1, TRUE), Change(Modes, m1, FALSE), Change(Apps, <<m1, a1>>, TRUE)}

=============================================================================
