----------------------------- MODULE MCJobStore -----------------------------
(* A job of an older version and a new one.  Either is worked on while the *)
(* other is left alone, except that a prune lists both.                    *)
EXTENDS JobStore

CONSTANTS old, new

OneJobAtATime ==
    new \in born => opens[old] = 0 /\ old \notin touched /\ events[old] = {}
=============================================================================
