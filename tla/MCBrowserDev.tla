----------------------------- MODULE MCBrowserDev -----------------------------
(* Two tabs, of which the first has threads, and two providers, one of     *)
(* them with a dot in its id.                                              *)
EXTENDS BrowserDev

(* The store's commands and the kernel's touch different variables, and no *)
(* property relates the two, so they commute but for a reload: the run     *)
(* takes the ones while there is no thread and the others before any tab   *)
(* has asked for the store.                                                *)
Apart ==
    /\ storeVars' # storeVars /\ reloads' = reloads =>
           \A t \in Threads : thread[t] = "absent"
    /\ kernelVars' # kernelVars /\ reloads' = reloads =>
           stored = None /\ \A b \in Tabs : cache[b] = None
=============================================================================
