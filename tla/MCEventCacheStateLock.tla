----------------------- MODULE MCEventCacheStateLock -----------------------
(* Two processes around the event cache's store, one of them with two      *)
(* threads, and the other with one.                                        *)
EXTENDS EventCacheStateLock

CONSTANTS app, nse, t1, t2

AppTwoNseOne == {<<app, t1>>, <<app, t2>>, <<nse, t1>>}
=============================================================================
