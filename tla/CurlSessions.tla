---------------------------- MODULE CurlSessions ----------------------------
(***************************************************************************)
(* CurlSessionProvider: one curl session per key, shared by the threads.   *)
(* A thread that finds no session for its key makes one under _map_mutex;  *)
(* later it tries the mutex of the session for a second at a time, looking *)
(* whether it is cancelled in between.  The sections under _map_mutex are  *)
(* one step each (the build with assertions; without them the calls of     *)
(* pthread_mutex_lock inside assert are not made at all).                  *)
(***************************************************************************)
CONSTANTS Keys, NoThread

VARIABLES
    holder,     \* thread that has locked the mutex of the session of a key
    inUse       \* keys whose session is marked in use

sessionVars == <<holder, inUse>>

SessionsInit ==
    /\ holder = [k \in Keys |-> NoThread]
    /\ inUse = {}

(* get_easy_session: the session is made, or its mutex is obtained.        *)
GetSession(t, k) ==
    /\ holder[k] = NoThread
    /\ holder' = [holder EXCEPT ![k] = t]
    /\ inUse' = inUse \cup {k}

ReturnSession(k) ==
    /\ holder' = [holder EXCEPT ![k] = NoThread]
    /\ inUse' = inUse \ {k}
=============================================================================
